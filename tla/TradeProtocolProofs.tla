------------------------ MODULE TradeProtocolProofs ------------------------
(***************************************************************************)
(* TradeProtocol for any number of orders, protocols, position rows,       *)
(* connection losses and restarts: TypeOK and TradeOncePerProtocol, then   *)
(* the refinement of TradeLedger, ContractsAgree, ClosedOnlyBySettlement,  *)
(* and in orderly trading AppMirrorsChannel and DatabaseMirrorsChannel.    *)
(* The inductive invariants and why they are needed are in                 *)
(* TradeProtocolInvariants.                                                *)
(***************************************************************************)
EXTENDS TradeProtocolInvariants, FiniteSetTheorems, TLAPS

-----------------------------------------------------------------------------
(* Lemmas about messages and queues *)

\* A message names a protocol whose offer was made.
LEMMA KindsOfMessages ==
    ASSUME NEW off \in [Protocols -> Offers], NEW m, Belongs(off, m)
    PROVE  off[m.pid].kind \in Kinds /\ m.pid \in Protocols /\ m # NoMessage
BY ProtocolsAssumption
   DEF Belongs, Messages, TypesOf, Offers, Kinds, RenewKinds, OpenKinds, NoMessage

\* The answer to a message belongs to the same protocol.
LEMMA CoordinatorReplies ==
    ASSUME NEW off \in [Protocols -> Offers], NEW m, Belongs(off, m)
    PROVE  /\ Coordinator(m.type)[2] \in ChannelStates
           /\ Coordinator(m.type)[3] # "None" => Belongs(off, Msg(Coordinator(m.type)[3], m.pid))
BY DEF Belongs, Messages, MessageTypes, OfferTypes, AcceptTypes, TypesOf, Msg, Coordinator,
       ChannelStates, RenewKinds

\* The app's answer belongs to the same protocol.
LEMMA AppReplies ==
    ASSUME NEW off \in [Protocols -> Offers], NEW m, Belongs(off, m)
    PROVE  /\ App(m.type)[2] \in ChannelStates \ Offering
           /\ App(m.type)[3] # "None" => Belongs(off, Msg(App(m.type)[3], m.pid))
BY DEF Belongs, Messages, MessageTypes, OfferTypes, AcceptTypes, TypesOf, Msg, App,
       ChannelStates, RenewKinds, Offering

\* The app's acceptance belongs to the protocol of the offer.
LEMMA AcceptanceReplies ==
    ASSUME NEW off \in [Protocols -> Offers], NEW m, Belongs(off, m), m.type \in OfferTypes
    PROVE  /\ Acceptance(m.type)[1] \in Offering
           /\ Acceptance(m.type)[2] \in ChannelStates \ Offering
           /\ Belongs(off, Msg(Acceptance(m.type)[3], m.pid))
BY DEF Belongs, Messages, MessageTypes, OfferTypes, AcceptTypes, TypesOf, Msg, Acceptance,
       ChannelStates, RenewKinds, Offering

\* A Reject belongs to the protocol of the offer it rejects.
LEMMA RejectBelongs ==
    ASSUME NEW off \in [Protocols -> Offers], NEW p \in Protocols, off[p].kind \in Kinds,
           NEW s \in Nat
    PROVE  Belongs(off, [type |-> "Reject", pid |-> p, ts |-> s])
BY DEF Belongs, Messages, MessageTypes, TypesOf, Kinds, OpenKinds, RenewKinds

\* The offer message belongs to the protocol it opens.
LEMMA OfferBelongs ==
    ASSUME NEW off \in [Protocols -> Offers], NEW p \in Protocols, off[p].kind \in Kinds
    PROVE  Belongs(off, Msg(OfferType(off[p].kind), p))
BY DEF Belongs, Messages, MessageTypes, OfferTypes, TypesOf, Kinds, OpenKinds, RenewKinds,
       OfferType, Msg

\* Of the messages of a protocol, one is finishing.
LEMMA OneFinishing ==
    ASSUME NEW off \in [Protocols -> Offers], NEW m, NEW n, Belongs(off, m), Belongs(off, n),
           m.pid = n.pid, m.type \in Finishing, n.type \in Finishing
    PROVE  m = n
<1>1. m.type = n.type
  BY DEF Belongs, Messages, TypesOf, Finishing, RenewKinds
<1>2. m.ts = 0 /\ n.ts = 0
  BY DEF Belongs, Finishing
<1> QED BY <1>1, <1>2 DEF Belongs, Messages

\* An offer that is made for an unused identifier leaves all messages as they are.
LEMMA NewOffer ==
    ASSUME NEW off \in [Protocols -> Offers], NEW p \in Protocols, NEW x \in Offers,
           off[p] = NoOffer, NEW m, Belongs(off, m)
    PROVE  Belongs([off EXCEPT ![p] = x], m)
<1>1. m.pid # p
  BY KindsOfMessages DEF NoOffer, Kinds, OpenKinds
<1> QED BY <1>1 DEF Belongs, Messages

\* Taking a message from a queue leaves a queue of messages that belong.
LEMMA WireHead ==
    ASSUME NEW off, NEW q, Wire(off, q), q # <<>>
    PROVE  Wire(off, Tail(q)) /\ Belongs(off, Head(q))
<1>1. Tail(q) \in Seq(Messages) /\ Len(Tail(q)) = Len(q) - 1 /\ Len(q) \in Nat /\ Len(q) > 0
  BY DEF Wire
<1>2. \A k \in 1 .. Len(Tail(q)) : Tail(q)[k] = q[k + 1] /\ k + 1 \in 1 .. Len(q)
  BY <1>1 DEF Wire
<1>3. Head(q) = q[1] /\ 1 \in 1 .. Len(q)
  BY <1>1 DEF Wire
<1> QED BY <1>1, <1>2, <1>3 DEF Wire

\* Sending the last stored message keeps the queue well formed.
LEMMA WireResend ==
    ASSUME NEW off, NEW q, Wire(off, q), NEW m, Slot(off, m)
    PROVE  Wire(off, Resend(q, m))
<1>1. CASE m = NoMessage
  BY <1>1 DEF Resend
<1>2. CASE m # NoMessage
  <2>1. Belongs(off, m) /\ m \in Messages
    BY <1>2 DEF Slot, Belongs
  <2>2. Append(q, m) \in Seq(Messages) /\ Len(Append(q, m)) = Len(q) + 1 /\ Len(q) \in Nat
    BY <2>1 DEF Wire
  <2>3. \A k \in 1 .. Len(q) + 1 : Append(q, m)[k] = IF k = Len(q) + 1 THEN m ELSE q[k]
    BY <2>1 DEF Wire
  <2> QED BY <1>2, <2>1, <2>2, <2>3 DEF Wire, Resend
<1> QED BY <1>1, <1>2

\* What a lost connection leaves of a queue is well formed.
LEMMA WirePrefix ==
    ASSUME NEW off, NEW q, Wire(off, q), NEW r \in Prefixes(q)
    PROVE  Wire(off, r)
<1>1. PICK n \in 0 .. Len(q) : r = SubSeq(q, 1, n)
  BY DEF Prefixes
<1>2. r \in Seq(Messages) /\ Len(r) = n /\ Len(q) \in Nat
  BY <1>1 DEF Wire
<1>3. \A k \in 1 .. n : r[k] = q[k] /\ k \in 1 .. Len(q)
  BY <1>1, <1>2 DEF Wire
<1> QED BY <1>2, <1>3 DEF Wire

\* The empty queue is well formed.
LEMMA WireEmpty ==
    ASSUME NEW off
    PROVE  Wire(off, <<>>)
BY DEF Wire

\* A new offer leaves the queues well formed.
LEMMA WireNewOffer ==
    ASSUME NEW off \in [Protocols -> Offers], NEW p \in Protocols, NEW x \in Offers,
           off[p] = NoOffer, NEW q, Wire(off, q)
    PROVE  Wire([off EXCEPT ![p] = x], q)
BY NewOffer DEF Wire

-----------------------------------------------------------------------------
(* Lemmas about the positions table *)

\* update_position_state keeps the type of the positions table.
LEMMA WithStateType ==
    ASSUME TypeOK, NEW S, NEW new \in PositionStates
    PROVE  WithState(S, new) \in [Positions -> PositionRows]
BY DEF TypeOK, WithState, PositionRows

\* Every position update of a started protocol keeps the type of the table.
LEMMA PositionUpdatesType ==
    ASSUME TypeOK, NEW p \in Protocols, NEW f \in PositionUpdates(p)
    PROVE  f \in [Positions -> PositionRows]
<1>1. offers[p].expiry \in Nat
  BY DEF TypeOK, Offers
<1>2. CASE offers[p].kind \in OpenKinds
  <2>1. PICK i \in Positions :
            f = [positions EXCEPT ![i] = [state |-> "Proposed", size |-> p,
                                          expiry |-> offers[p].expiry]]
    BY <1>2 DEF PositionUpdates, RowsIn, OpenKinds
  <2>2. [state |-> "Proposed", size |-> p, expiry |-> offers[p].expiry] \in PositionRows
    BY <1>1 DEF PositionRows, PositionStates
  <2> QED BY <2>1, <2>2 DEF TypeOK
<1>3. CASE offers[p].kind = "ResizePosition"
  <2>1. f = [i \in Positions |-> IF positions[i].state = "Open"
                THEN [state |-> "Resizing", size |-> p, expiry |-> offers[p].expiry]
                ELSE positions[i]]
    BY <1>3 DEF PositionUpdates, OpenKinds
  <2>2. [state |-> "Resizing", size |-> p, expiry |-> offers[p].expiry] \in PositionRows
    BY <1>1 DEF PositionRows, PositionStates
  <2> QED BY <2>1, <2>2 DEF TypeOK
<1>4. CASE offers[p].kind = "Rollover"
  <2>1. f = [i \in Positions |-> IF positions[i].state = "Open"
                THEN [positions[i] EXCEPT !.state = "Rollover", !.expiry = offers[p].expiry]
                ELSE positions[i]]
    BY <1>4 DEF PositionUpdates, OpenKinds
  <2>2. \A i \in Positions :
            [positions[i] EXCEPT !.state = "Rollover", !.expiry = offers[p].expiry]
                \in PositionRows
    BY <1>1 DEF TypeOK, PositionRows, PositionStates
  <2> QED BY <2>1, <2>2 DEF TypeOK
<1>5. CASE offers[p].kind \notin OpenKinds \union {"ResizePosition", "Rollover"}
  <2>1. f = WithState({"Open"}, "Closing")
    BY <1>5 DEF PositionUpdates
  <2>2. "Closing" \in PositionStates
    BY DEF PositionStates
  <2> QED BY <2>1, <2>2, WithStateType
<1> QED BY <1>2, <1>3, <1>4, <1>5

\* finish_dlc_protocol keeps the type of the positions table.
LEMMA FinishedPositionsType ==
    ASSUME TypeOK, NEW p \in Protocols, NEW f \in FinishedPositions(p)
    PROVE  f \in [Positions -> PositionRows]
<1>1. "Open" \in PositionStates
  BY DEF PositionStates
<1>2. CASE offers[p].kind = "Settle"
  <2>1. PICK i \in Positions : f = [positions EXCEPT ![i].state = "Closed"]
    BY <1>2 DEF FinishedPositions, RowsIn, OpenKinds
  <2>2. [positions[i] EXCEPT !.state = "Closed"] \in PositionRows
    BY DEF TypeOK, PositionRows, PositionStates
  <2> QED BY <2>1, <2>2 DEF TypeOK
<1>3. CASE offers[p].kind # "Settle"
  <2>1. \E S : f = WithState(S, "Open")
    BY <1>3 DEF FinishedPositions
  <2> QED BY <1>1, <2>1, WithStateType
<1> QED BY <1>2, <1>3

-----------------------------------------------------------------------------
(* Lemmas about tasks *)

\* No task is a task.
LEMMA IdleTask == Idle \in Tasks
BY DEF Idle, Tasks

\* A task for an order is a task.
LEMMA NewTask ==
    ASSUME NEW o \in Orders, NEW e \in Nat
    PROVE  /\ [Idle EXCEPT !.pc = "check", !.order = o] \in Tasks
           /\ [Idle EXCEPT !.pc = "pending", !.order = o, !.expiry = e] \in Tasks
BY DEF Idle, Tasks

\* A task that checks a rollover is a task.
LEMMA RolloverTask ==
    ASSUME NEW size \in Protocols \union {NoProtocol}, NEW e \in Nat
    PROVE  [pc |-> "propose", kind |-> "Rollover", order |-> NoOrder, size |-> size,
            expiry |-> e] \in Tasks
BY DEF Tasks, Kinds

\* calculate_next_expiry is a time.
LEMMA ExpiryType ==
    ASSUME TypeOK
    PROVE  calculate_next_expiry \in Nat
BY DEF TypeOK, calculate_next_expiry, NextExpiryIn

\* A task whose order is matched is a task.
LEMMA TaskMatched ==
    ASSUME TypeOK, NEW p \in Protocols, NEW e \in Nat
    PROVE  [task[p] EXCEPT !.pc = "matched", !.expiry = e] \in Tasks
BY DEF TypeOK, Tasks

\* A task that goes on is a task.
LEMMA TaskGoesOn ==
    ASSUME TypeOK, NEW p \in Protocols,
           NEW pc \in {"match", "start", "position", "finish"}
    PROVE  [task[p] EXCEPT !.pc = pc] \in Tasks
BY DEF TypeOK, Tasks

\* A task whose trade action is known is a task.
LEMMA TaskProposes ==
    ASSUME NEW t \in Tasks, NEW p \in Protocols, NEW kind \in Kinds
    PROVE  [t EXCEPT !.pc = "propose", !.kind = kind, !.size = p] \in Tasks
BY DEF Tasks

-----------------------------------------------------------------------------
(* The invariant is preserved: orders and tasks *)

\* submit_order of the app preserves the invariant.
LEMMA SubmitOrderOK ==
    ASSUME IInv, NEW o \in TraderOrders, NEW p \in Protocols, NEW closing \in BOOLEAN,
           SubmitOrder(o, p, closing)
    PROVE  IInv'
<1>1. /\ UNCHANGED <<offers, chanC, protocols, positions, trades, processedC, lastOutC>>
      /\ UNCHANGED <<inC, matchCheck, chanA, posA, processedA, lastOutA, inA>>
      /\ UNCHANGED <<netCA, netAC, tradeErrors, connected, time, clock, disconnects>>
      /\ UNCHANGED <<crashes>>
  BY DEF SubmitOrder, PostOrder, coordinatorVars, appVars, netVars, boundVars
<1>2. orderC' \in [Orders -> OrderRows]
  BY DEF IInv, TypeOK, SubmitOrder, PostOrder, Orders, PositionRows, OrderRows,
         OrderStates
<1>3. task' \in [Protocols -> Tasks]
  BY DEF IInv, TypeOK, SubmitOrder, PostOrder, Orders, Tasks, Idle, Kinds, OpenKinds
<1>4. orderA' \in [Orders -> AppOrderStates]
  BY DEF IInv, TypeOK, SubmitOrder, Orders, AppOrderStates
<1>5. posting' \in SUBSET TraderOrders
  BY DEF IInv, TypeOK, SubmitOrder
<1>6. TypeOK'
  BY <1>1, <1>2, <1>3, <1>4, <1>5 DEF IInv, TypeOK
<1>7. TasksOK'
  BY <1>1, <1>3 DEF IInv, TypeOK, TasksOK, Tasks, Idle, NoOffer, SubmitOrder, PostOrder,
     Fresh, Orders
<1>8. OffersOK' /\ MessagesOK' /\ TradesOK'
  BY <1>1 DEF IInv, OffersOK, MessagesOK, TradesOK
<1> QED BY <1>6, <1>7, <1>8 DEF IInv

\* A failed order has a state of the app's orders table.
LEMMA FailedStateTyped ==
    \A o : set_order_state_to_failed(o) \in AppOrderStates
  BY DEF set_order_state_to_failed, AppOrderStates

\* The look for the filling order leaves a typed table.
LEMMA FillingTyped ==
    ASSUME TypeOK, NEW table \in get_order_in_filling
    PROVE  table \in [Orders -> AppOrderStates]
<1>1. PICK kept : table = [o \in Orders |-> IF o \in FillingA \ {kept} THEN "FailedWithPrice"
                                            ELSE orderA[o]]
  BY DEF get_order_in_filling
<1>2. ASSUME NEW o \in Orders PROVE orderA[o] \in AppOrderStates
  BY <1>2 DEF TypeOK
<1>3. "FailedWithPrice" \in AppOrderStates
  BY DEF AppOrderStates
<1> QED BY <1>1, <1>2, <1>3

\* order_failed leaves a typed table.
LEMMA OrderFailedTyped ==
    ASSUME TypeOK, NEW o, order_failed(o)
    PROVE  orderA' \in [Orders -> AppOrderStates]
<1>1. CASE o = NoOrder
  BY <1>1, FillingTyped DEF order_failed
<1>2. CASE o # NoOrder
  <2>1. orderA' = [orderA EXCEPT ![o] = set_order_state_to_failed(o)]
    BY <1>2 DEF order_failed
  <2>2. orderA \in [Orders -> AppOrderStates]
    BY DEF TypeOK
  <2> QED BY <2>1, <2>2, FailedStateTyped
<1> QED BY <1>1, <1>2

\* An order that is refused because another one is filling preserves the invariant.
LEMMA SubmitRefusedOK ==
    ASSUME IInv, SubmitRefused
    PROVE  IInv'
<1>1. /\ UNCHANGED <<orderC, task, offers, chanC, protocols, positions, trades>>
      /\ UNCHANGED <<processedC, lastOutC, inC, matchCheck, chanA, posA, processedA>>
      /\ UNCHANGED <<lastOutA, inA, posting, netCA, netAC, tradeErrors, connected, time>>
      /\ UNCHANGED <<clock, disconnects, crashes>>
  BY DEF SubmitRefused, coordinatorVars, netVars, boundVars
<1>2. orderA' \in [Orders -> AppOrderStates]
  BY FillingTyped DEF IInv, SubmitRefused
<1>3. TypeOK'
  BY <1>1, <1>2 DEF IInv, TypeOK
<1>4. TasksOK' /\ OffersOK' /\ MessagesOK' /\ TradesOK'
  BY <1>1 DEF IInv, TasksOK, OffersOK, MessagesOK, TradesOK
<1> QED BY <1>3, <1>4 DEF IInv

\* An order request that is lost preserves the invariant.
LEMMA SubmitInVainOK ==
    ASSUME IInv, NEW o \in TraderOrders, SubmitInVain(o)
    PROVE  IInv'
<1>1. /\ UNCHANGED <<orderC, task, offers, chanC, protocols, positions, trades>>
      /\ UNCHANGED <<processedC, lastOutC, inC, matchCheck, chanA, posA, processedA>>
      /\ UNCHANGED <<lastOutA, inA, netCA, netAC, tradeErrors, connected, time>>
      /\ UNCHANGED <<clock, disconnects, crashes>>
  BY DEF SubmitInVain, coordinatorVars, appVars, netVars, boundVars
<1>2. orderA' \in [Orders -> AppOrderStates]
  BY DEF IInv, TypeOK, SubmitInVain, Orders, AppOrderStates
<1>3. posting' \in SUBSET TraderOrders
  BY DEF IInv, TypeOK, SubmitInVain
<1>4. TypeOK'
  BY <1>1, <1>2, <1>3 DEF IInv, TypeOK
<1>5. TasksOK' /\ OffersOK' /\ MessagesOK' /\ TradesOK'
  BY <1>1 DEF IInv, TasksOK, OffersOK, MessagesOK, TradesOK
<1> QED BY <1>4, <1>5 DEF IInv

\* The end of submit_order preserves the invariant.
LEMMA OrderPostedOK ==
    ASSUME IInv, NEW o \in TraderOrders, OrderPosted(o)
    PROVE  IInv'
<1>1. /\ UNCHANGED <<orderC, task, offers, chanC, protocols, positions, trades>>
      /\ UNCHANGED <<processedC, lastOutC, inC, matchCheck, orderA, chanA, processedA>>
      /\ UNCHANGED <<lastOutA, inA, netCA, netAC, tradeErrors, connected, time>>
      /\ UNCHANGED <<clock, disconnects, crashes>>
  BY DEF OrderPosted, coordinatorVars, appVars, netVars, boundVars
<1>2. posA' \in PositionRows
  BY DEF IInv, TypeOK, OrderPosted, PositionRows, PositionStates, PosAInState
<1>3. posting' \in SUBSET TraderOrders
  BY DEF IInv, TypeOK, OrderPosted
<1>4. TypeOK'
  BY <1>1, <1>2, <1>3 DEF IInv, TypeOK
<1>5. TasksOK' /\ OffersOK' /\ MessagesOK' /\ TradesOK'
  BY <1>1 DEF IInv, TasksOK, OffersOK, MessagesOK, TradesOK
<1> QED BY <1>4, <1>5 DEF IInv

\* The error branch of submit_order preserves the invariant.
LEMMA OrderNotPostedOK ==
    ASSUME IInv, NEW o \in TraderOrders, OrderNotPosted(o)
    PROVE  IInv'
<1>1. /\ UNCHANGED <<orderC, task, offers, chanC, protocols, positions, trades>>
      /\ UNCHANGED <<processedC, lastOutC, inC, matchCheck, chanA, processedA, lastOutA>>
      /\ UNCHANGED <<inA, netCA, netAC, tradeErrors, connected, time, clock>>
      /\ UNCHANGED <<disconnects, crashes>>
  BY DEF OrderNotPosted, coordinatorVars, appVars, netVars, boundVars
<1>2. orderA' \in [Orders -> AppOrderStates]
  BY FailedStateTyped DEF IInv, TypeOK, OrderNotPosted, Orders
<1>3. posA' \in PositionRows
  BY DEF IInv, TypeOK, OrderNotPosted, PositionRows, PositionStates, PosAInState
<1>4. posting' \in SUBSET TraderOrders
  BY DEF IInv, TypeOK, OrderNotPosted
<1>5. TypeOK'
  BY <1>1, <1>2, <1>3, <1>4 DEF IInv, TypeOK
<1>6. TasksOK' /\ OffersOK' /\ MessagesOK' /\ TradesOK'
  BY <1>1 DEF IInv, TasksOK, OffersOK, MessagesOK, TradesOK
<1> QED BY <1>5, <1>6 DEF IInv

\* Closing an expired or liquidated position preserves the invariant.
LEMMA CloseByCoordinatorOK ==
    ASSUME IInv, NEW o \in CoordinatorOrders, NEW p \in Protocols, CloseByCoordinator(o, p)
    PROVE  IInv'
<1>1. /\ UNCHANGED <<offers, chanC, protocols, positions, trades, processedC, lastOutC>>
      /\ UNCHANGED <<inC, matchCheck, orderA, chanA, posA, processedA, lastOutA>>
      /\ UNCHANGED <<inA, posting, netCA, netAC, tradeErrors, connected, time>>
      /\ UNCHANGED <<clock, disconnects, crashes>>
  BY DEF CloseByCoordinator, PostOrder, coordinatorVars, appVars, netVars, boundVars
<1>2. task' = [task EXCEPT ![p] = [Idle EXCEPT !.pc = "check", !.order = o]] /\ o \in Orders
  BY DEF CloseByCoordinator, PostOrder, Orders
<1>3. orderC' \in [Orders -> OrderRows]
  BY DEF IInv, TypeOK, CloseByCoordinator, PostOrder, Orders, RowsIn, PositionRows,
         OrderRows, OrderStates
<1>4. task' \in [Protocols -> Tasks]
  BY <1>2, NewTask, 0 \in Nat DEF IInv, TypeOK
<1>5. TypeOK'
  BY <1>1, <1>3, <1>4 DEF IInv, TypeOK
<1>6. TasksOK'
  BY <1>1, <1>4 DEF IInv, TypeOK, TasksOK, Tasks, Idle, NoOffer, CloseByCoordinator,
     PostOrder, Fresh, Orders
<1>7. OffersOK' /\ MessagesOK' /\ TradesOK'
  BY <1>1 DEF IInv, OffersOK, MessagesOK, TradesOK
<1> QED BY <1>5, <1>6, <1>7 DEF IInv

\* Giving up an expired closing order preserves the invariant.
LEMMA GiveUpOK ==
    ASSUME IInv, NEW o \in Orders, GiveUp(o)
    PROVE  IInv'
<1>1. /\ UNCHANGED <<task, offers, chanC, protocols, trades, processedC, lastOutC>>
      /\ UNCHANGED <<inC, matchCheck, orderA, chanA, posA, processedA, lastOutA>>
      /\ UNCHANGED <<inA, posting, netCA, netAC, tradeErrors, connected, time>>
      /\ UNCHANGED <<clock, disconnects, crashes>>
  BY DEF GiveUp, coordinatorVars, appVars, netVars, boundVars
<1>2. orderC' \in [Orders -> OrderRows]
  BY DEF IInv, TypeOK, GiveUp, OrderRows, OrderStates
<1>3. positions' \in [Positions -> PositionRows]
  BY DEF IInv, TypeOK, GiveUp, WithState, PositionRows, PositionStates
<1>4. TypeOK'
  BY <1>1, <1>2, <1>3 DEF IInv, TypeOK
<1>5. TasksOK' /\ OffersOK' /\ MessagesOK' /\ TradesOK'
  BY <1>1 DEF IInv, TasksOK, OffersOK, MessagesOK, TradesOK
<1> QED BY <1>4, <1>5 DEF IInv

\* The check of process_new_market_order preserves the invariant.
LEMMA CheckOrderOK ==
    ASSUME IInv, NEW p \in Protocols, CheckOrder(p)
    PROVE  IInv'
<1>1. /\ UNCHANGED <<orderC, offers, chanC, protocols, positions, trades, processedC>>
      /\ UNCHANGED <<lastOutC, inC, matchCheck, orderA, chanA, posA, processedA>>
      /\ UNCHANGED <<lastOutA, inA, posting, netCA, netAC, connected, time>>
      /\ UNCHANGED <<clock, disconnects, crashes>>
  BY DEF CheckOrder, ReportError, coordinatorVars, appVars, netVars, boundVars
<1>2. /\ task[p].pc = "check"
      /\ task' = [task EXCEPT ![p] = Idle] \/ task' = [task EXCEPT ![p].pc = "match"]
  BY DEF CheckOrder
<1>3. task' \in [Protocols -> Tasks]
  BY IdleTask, TaskGoesOn DEF IInv, TypeOK, CheckOrder
<1>4. tradeErrors' \in SUBSET Orders
  BY DEF IInv, TypeOK, CheckOrder, ReportError, Orders
<1>5. TypeOK'
  BY <1>1, <1>3, <1>4 DEF IInv, TypeOK
<1>6. TasksOK'
  <2>1. CASE task' = [task EXCEPT ![p] = Idle]
    BY <1>1, <2>1 DEF IInv, TypeOK, TasksOK, Idle
  <2>2. CASE task' = [task EXCEPT ![p].pc = "match"]
    BY <1>1, <1>2, <2>2 DEF IInv, TypeOK, TasksOK, Tasks
  <2> QED BY <1>2, <2>1, <2>2
<1>7. OffersOK' /\ MessagesOK' /\ TradesOK'
  BY <1>1 DEF IInv, OffersOK, MessagesOK, TradesOK
<1> QED BY <1>5, <1>6, <1>7 DEF IInv

\* A match of process_new_market_order preserves the invariant.
LEMMA MatchOrderOK ==
    ASSUME IInv, NEW p \in Protocols, MatchOrder(p)
    PROVE  IInv'
<1>1. /\ UNCHANGED <<offers, chanC, protocols, positions, trades, processedC, lastOutC>>
      /\ UNCHANGED <<inC, matchCheck, orderA, chanA, posA, processedA, lastOutA>>
      /\ UNCHANGED <<inA, posting, netCA, netAC, tradeErrors, connected, time>>
      /\ UNCHANGED <<clock, disconnects, crashes>>
  BY DEF MatchOrder, coordinatorVars, appVars, netVars, boundVars
<1>2. orderC' \in [Orders -> OrderRows]
  BY DEF IInv, TypeOK, MatchOrder, OrderRows, OrderStates
<1>3. task' \in [Protocols -> Tasks]
  BY ExpiryType, TaskMatched DEF IInv, TypeOK, MatchOrder
<1>4. TypeOK'
  BY <1>1, <1>2, <1>3 DEF IInv, TypeOK
<1>5. TasksOK'
  BY <1>1, <1>3 DEF IInv, TypeOK, TasksOK, Tasks, Idle, NoOffer, MatchOrder
<1>6. OffersOK' /\ MessagesOK' /\ TradesOK'
  BY <1>1 DEF IInv, OffersOK, MessagesOK, TradesOK
<1> QED BY <1>4, <1>5, <1>6 DEF IInv

\* A market order without a match preserves the invariant.
LEMMA NoMatchOK ==
    ASSUME IInv, NEW p \in Protocols, NoMatch(p)
    PROVE  IInv'
<1>1. /\ UNCHANGED <<offers, chanC, protocols, positions, trades, processedC, lastOutC>>
      /\ UNCHANGED <<inC, matchCheck, orderA, chanA, posA, processedA, lastOutA>>
      /\ UNCHANGED <<inA, posting, netCA, netAC, connected, time, clock>>
      /\ UNCHANGED <<disconnects, crashes>>
  BY DEF NoMatch, ReportError, coordinatorVars, appVars, netVars, boundVars
<1>2. orderC' \in [Orders -> OrderRows]
  BY DEF IInv, TypeOK, NoMatch, OrderRows, OrderStates
<1>3. task' \in [Protocols -> Tasks]
  BY IdleTask, TaskGoesOn DEF IInv, TypeOK, NoMatch
<1>4. tradeErrors' \in SUBSET Orders
  BY DEF IInv, TypeOK, NoMatch, ReportError, Orders
<1>5. TypeOK'
  BY <1>1, <1>2, <1>3, <1>4 DEF IInv, TypeOK
<1>6. TasksOK'
  BY <1>1, <1>3 DEF IInv, TypeOK, TasksOK, Tasks, Idle, NoOffer, NoMatch
<1>7. OffersOK' /\ MessagesOK' /\ TradesOK'
  BY <1>1 DEF IInv, OffersOK, MessagesOK, TradesOK
<1> QED BY <1>5, <1>6, <1>7 DEF IInv

\* process_pending_match preserves the invariant.
LEMMA ProcessPendingMatchOK ==
    ASSUME IInv, NEW p \in Protocols, ProcessPendingMatch(p)
    PROVE  IInv'
<1>1. /\ UNCHANGED <<orderC, offers, chanC, protocols, positions, trades, processedC>>
      /\ UNCHANGED <<lastOutC, inC, orderA, chanA, posA, processedA, lastOutA>>
      /\ UNCHANGED <<inA, posting, netCA, netAC, tradeErrors, connected, time>>
      /\ UNCHANGED <<clock, disconnects, crashes>>
  BY DEF ProcessPendingMatch, coordinatorVars, appVars, netVars, boundVars
<1>2. \/ UNCHANGED task
      \/ \E o \in Orders :
           task' = [task EXCEPT ![p] = [Idle EXCEPT !.pc = "pending", !.order = o,
                                         !.expiry = calculate_next_expiry]]
  BY DEF ProcessPendingMatch
<1>3. offers[p] = NoOffer
  BY DEF ProcessPendingMatch, Fresh
<1>4. task' \in [Protocols -> Tasks]
  <2>1. \A o \in Orders : [Idle EXCEPT !.pc = "pending", !.order = o,
                               !.expiry = calculate_next_expiry] \in Tasks
    BY ExpiryType, NewTask DEF IInv
  <2> QED BY <1>2, <2>1 DEF IInv, TypeOK
<1>5. matchCheck' \in BOOLEAN
  BY DEF IInv, TypeOK, ProcessPendingMatch
<1>6. TypeOK'
  BY <1>1, <1>4, <1>5 DEF IInv, TypeOK
<1>7. TasksOK'
  <2>1. CASE UNCHANGED task
    BY <2>1, <1>1 DEF IInv, TasksOK
  <2>2. ASSUME NEW o \in Orders,
               task' = [task EXCEPT ![p] = [Idle EXCEPT !.pc = "pending", !.order = o,
                                             !.expiry = calculate_next_expiry]]
        PROVE  TasksOK'
    BY <2>2, <1>1, <1>3 DEF IInv, TypeOK, TasksOK, Idle
  <2> QED BY <2>1, <2>2, <1>2
<1>8. OffersOK' /\ MessagesOK' /\ TradesOK'
  BY <1>1 DEF IInv, OffersOK, MessagesOK, TradesOK
<1> QED BY <1>6, <1>7, <1>8 DEF IInv

\* determine_trade_action preserves the invariant.
LEMMA BeginTradeOK ==
    ASSUME IInv, NEW p \in Protocols, BeginTrade(p)
    PROVE  IInv'
<1>1. /\ UNCHANGED <<orderC, offers, chanC, protocols, positions, trades, processedC>>
      /\ UNCHANGED <<lastOutC, inC, matchCheck, orderA, chanA, posA, processedA>>
      /\ UNCHANGED <<lastOutA, inA, posting, netCA, netAC, tradeErrors, connected>>
      /\ UNCHANGED <<time, clock, disconnects, crashes>>
  BY DEF BeginTrade, coordinatorVars, appVars, netVars, boundVars
<1>2. \A o \in Orders : determine_trade_action(o) \subseteq Kinds \ {"Rollover", "None"}
  BY DEF determine_trade_action, Kinds, OpenKinds
<1>3. task' \in [Protocols -> Tasks]
  <2>1. PICK kind \in Kinds :
            task' = [task EXCEPT ![p].pc = "propose", ![p].kind = kind, ![p].size = p]
    BY <1>2 DEF IInv, TasksOK, BeginTrade
  <2>2. [task[p] EXCEPT !.pc = "propose", !.kind = kind, !.size = p] \in Tasks
    BY TaskProposes DEF IInv, TypeOK
  <2> QED BY <2>1, <2>2 DEF IInv, TypeOK
<1>4. TypeOK'
  BY <1>1, <1>3 DEF IInv, TypeOK
<1>5. TasksOK'
  BY <1>1, <1>2, OrdersAssumption DEF IInv, TypeOK, TasksOK, BeginTrade, Tasks
<1>6. OffersOK' /\ MessagesOK' /\ TradesOK'
  BY <1>1 DEF IInv, OffersOK, MessagesOK, TradesOK
<1> QED BY <1>4, <1>5, <1>6 DEF IInv

\* An execution that cannot begin preserves the invariant.
LEMMA BeginTradeFailsOK ==
    ASSUME IInv, NEW p \in Protocols, BeginTradeFails(p)
    PROVE  IInv'
<1>1. /\ UNCHANGED <<offers, chanC, protocols, positions, trades, processedC, lastOutC>>
      /\ UNCHANGED <<inC, matchCheck, orderA, chanA, posA, processedA, lastOutA>>
      /\ UNCHANGED <<inA, posting, netCA, netAC, connected, time, clock>>
      /\ UNCHANGED <<disconnects, crashes>>
  BY DEF BeginTradeFails, FailTrade, coordinatorVars, appVars, netVars, boundVars
<1>2. orderC' \in [Orders -> OrderRows]
  BY DEF IInv, TypeOK, BeginTradeFails, FailTrade, OrderRows, OrderStates
<1>3. task' \in [Protocols -> Tasks]
  BY IdleTask, TaskGoesOn DEF IInv, TypeOK, BeginTradeFails, FailTrade
<1>4. tradeErrors' \in SUBSET Orders
  BY DEF IInv, TypeOK, BeginTradeFails, FailTrade, TasksOK
<1>5. TypeOK'
  BY <1>1, <1>2, <1>3, <1>4 DEF IInv, TypeOK
<1>6. TasksOK'
  BY <1>1, <1>3 DEF IInv, TypeOK, TasksOK, Tasks, Idle, NoOffer, BeginTradeFails,
     FailTrade
<1>7. OffersOK' /\ MessagesOK' /\ TradesOK'
  BY <1>1 DEF IInv, OffersOK, MessagesOK, TradesOK
<1> QED BY <1>5, <1>6, <1>7 DEF IInv

\* A match of an offline trader preserves the invariant.
LEMMA SkipTradeOK ==
    ASSUME IInv, NEW p \in Protocols, SkipTrade(p)
    PROVE  IInv'
<1>1. /\ UNCHANGED <<orderC, offers, chanC, protocols, positions, trades, processedC>>
      /\ UNCHANGED <<lastOutC, inC, matchCheck, orderA, chanA, posA, processedA>>
      /\ UNCHANGED <<lastOutA, inA, posting, netCA, netAC, tradeErrors, connected>>
      /\ UNCHANGED <<time, clock, disconnects, crashes>>
  BY DEF SkipTrade, coordinatorVars, appVars, netVars, boundVars
<1>2. task' \in [Protocols -> Tasks]
  BY IdleTask, TaskGoesOn DEF IInv, TypeOK, SkipTrade
<1>3. TypeOK'
  BY <1>1, <1>2 DEF IInv, TypeOK
<1>4. TasksOK'
  BY <1>1, <1>2 DEF IInv, TypeOK, TasksOK, Tasks, Idle, NoOffer, SkipTrade
<1>5. OffersOK' /\ MessagesOK' /\ TradesOK'
  BY <1>1 DEF IInv, OffersOK, MessagesOK, TradesOK
<1> QED BY <1>3, <1>4, <1>5 DEF IInv

\* check_rollover preserves the invariant.
LEMMA BeginRolloverOK ==
    ASSUME IInv, NEW p \in Protocols, BeginRollover(p)
    PROVE  IInv'
<1>1. /\ UNCHANGED <<orderC, offers, chanC, protocols, positions, trades, processedC>>
      /\ UNCHANGED <<lastOutC, inC, matchCheck, orderA, chanA, posA, processedA>>
      /\ UNCHANGED <<lastOutA, inA, posting, netCA, netAC, tradeErrors, connected>>
      /\ UNCHANGED <<time, clock, disconnects, crashes>>
  BY DEF BeginRollover, coordinatorVars, appVars, netVars, boundVars
<1>2. task' \in [Protocols -> Tasks]
  <2>1. PICK i \in Positions :
          task' = [task EXCEPT ![p] = [pc |-> "propose", kind |-> "Rollover",
                                       order |-> NoOrder, size |-> positions[i].size,
                                       expiry |-> calculate_next_expiry]]
    BY DEF BeginRollover, RowsIn
  <2>2. positions[i].size \in Protocols \union {NoProtocol}
    BY DEF IInv, TypeOK, PositionRows
  <2> QED BY <2>1, <2>2, ExpiryType, RolloverTask DEF IInv, TypeOK
<1>3. TypeOK'
  BY <1>1, <1>2 DEF IInv, TypeOK
<1>4. TasksOK'
  BY <1>1, <1>2 DEF IInv, TypeOK, TasksOK, Tasks, Idle, NoOffer, BeginRollover,
     Fresh, Kinds
<1>5. OffersOK' /\ MessagesOK' /\ TradesOK'
  BY <1>1 DEF IInv, OffersOK, MessagesOK, TradesOK
<1> QED BY <1>3, <1>4, <1>5 DEF IInv

\* A proposal that fails preserves the invariant.
LEMMA ProposeFailsOK ==
    ASSUME IInv, NEW p \in Protocols, ProposeFails(p)
    PROVE  IInv'
<1>1. /\ UNCHANGED <<offers, chanC, protocols, positions, trades, processedC, lastOutC>>
      /\ UNCHANGED <<inC, matchCheck, orderA, chanA, posA, processedA, lastOutA>>
      /\ UNCHANGED <<inA, posting, netCA, netAC, connected, time, clock>>
      /\ UNCHANGED <<disconnects, crashes>>
  BY DEF ProposeFails, FailTrade, coordinatorVars, appVars, netVars, boundVars
<1>2. orderC' \in [Orders -> OrderRows]
  BY DEF IInv, TypeOK, ProposeFails, FailTrade, OrderRows, OrderStates
<1>3. task' \in [Protocols -> Tasks]
  BY IdleTask, TaskGoesOn DEF IInv, TypeOK, ProposeFails, FailTrade
<1>4. tradeErrors' \in SUBSET Orders
  BY DEF IInv, TypeOK, ProposeFails, FailTrade, Tasks
<1>5. TypeOK'
  BY <1>1, <1>2, <1>3, <1>4 DEF IInv, TypeOK
<1>6. TasksOK'
  BY <1>1, <1>3 DEF IInv, TypeOK, TasksOK, Tasks, Idle, NoOffer, ProposeFails,
     FailTrade
<1>7. OffersOK' /\ MessagesOK' /\ TradesOK'
  BY <1>1 DEF IInv, OffersOK, MessagesOK, TradesOK
<1> QED BY <1>5, <1>6, <1>7 DEF IInv

\* A rollover that fails preserves the invariant.
LEMMA ProposeRolloverFailsOK ==
    ASSUME IInv, NEW p \in Protocols, ProposeRolloverFails(p)
    PROVE  IInv'
<1>1. /\ UNCHANGED <<orderC, offers, chanC, protocols, positions, trades, processedC>>
      /\ UNCHANGED <<lastOutC, inC, matchCheck, orderA, chanA, posA, processedA>>
      /\ UNCHANGED <<lastOutA, inA, posting, netCA, netAC, tradeErrors, connected>>
      /\ UNCHANGED <<time, clock, disconnects, crashes>>
  BY DEF ProposeRolloverFails, coordinatorVars, appVars, netVars, boundVars
<1>2. task' \in [Protocols -> Tasks]
  BY IdleTask, TaskGoesOn DEF IInv, TypeOK, ProposeRolloverFails
<1>3. TypeOK'
  BY <1>1, <1>2 DEF IInv, TypeOK
<1>4. TasksOK'
  BY <1>1, <1>2 DEF IInv, TypeOK, TasksOK, Tasks, Idle, NoOffer, ProposeRolloverFails
<1>5. OffersOK' /\ MessagesOK' /\ TradesOK'
  BY <1>1 DEF IInv, OffersOK, MessagesOK, TradesOK
<1> QED BY <1>3, <1>4, <1>5 DEF IInv

\* start_dlc_protocol preserves the invariant.
LEMMA StartProtocolOK ==
    ASSUME IInv, NEW p \in Protocols, StartProtocol(p)
    PROVE  IInv'
<1>1. /\ UNCHANGED <<orderC, offers, chanC, positions, trades, processedC, lastOutC>>
      /\ UNCHANGED <<inC, matchCheck, orderA, chanA, posA, processedA, lastOutA>>
      /\ UNCHANGED <<inA, posting, netCA, netAC, tradeErrors, connected, time>>
      /\ UNCHANGED <<clock, disconnects, crashes>>
  BY DEF StartProtocol, coordinatorVars, appVars, netVars, boundVars
<1>2. protocols' \in [Protocols -> ProtocolStates]
  BY DEF IInv, TypeOK, StartProtocol, ProtocolStates
<1>3. task' \in [Protocols -> Tasks]
  BY IdleTask, TaskGoesOn DEF IInv, TypeOK, StartProtocol
<1>4. TypeOK'
  BY <1>1, <1>2, <1>3 DEF IInv, TypeOK
<1>5. TasksOK'
  BY <1>1, <1>3 DEF IInv, TypeOK, TasksOK, Tasks, Idle, NoOffer, StartProtocol
<1>6. OffersOK' /\ MessagesOK' /\ TradesOK'
  BY <1>1 DEF IInv, OffersOK, MessagesOK, TradesOK
<1> QED BY <1>4, <1>5, <1>6 DEF IInv

\* The position update of a trade or rollover preserves the invariant.
LEMMA UpdatePositionOK ==
    ASSUME IInv, NEW p \in Protocols, UpdatePosition(p)
    PROVE  IInv'
<1>1. /\ UNCHANGED <<orderC, offers, chanC, protocols, trades, processedC, lastOutC>>
      /\ UNCHANGED <<inC, matchCheck, orderA, chanA, posA, processedA, lastOutA>>
      /\ UNCHANGED <<inA, posting, netCA, netAC, tradeErrors, connected, time>>
      /\ UNCHANGED <<clock, disconnects, crashes>>
  BY DEF UpdatePosition, coordinatorVars, appVars, netVars, boundVars
<1>2. positions' \in [Positions -> PositionRows]
  BY PositionUpdatesType DEF IInv, UpdatePosition
<1>3. task' \in [Protocols -> Tasks]
  BY IdleTask, TaskGoesOn DEF IInv, TypeOK, UpdatePosition
<1>4. TypeOK'
  BY <1>1, <1>2, <1>3 DEF IInv, TypeOK
<1>5. TasksOK'
  BY <1>1, <1>3 DEF IInv, TypeOK, TasksOK, Tasks, Idle, NoOffer, UpdatePosition
<1>6. OffersOK' /\ MessagesOK' /\ TradesOK'
  BY <1>1 DEF IInv, OffersOK, MessagesOK, TradesOK
<1> QED BY <1>4, <1>5, <1>6 DEF IInv

\* An offer made in rust-dlc preserves the invariant.
LEMMA ProposeOK ==
    ASSUME IInv, NEW p \in Protocols, Propose(p)
    PROVE  IInv'
<1>1. /\ UNCHANGED <<orderC, protocols, positions, trades, processedC, inC, matchCheck>>
      /\ UNCHANGED <<orderA, chanA, posA, processedA, lastOutA, inA, posting>>
      /\ UNCHANGED <<netCA, netAC, tradeErrors, connected, time, clock, disconnects>>
      /\ UNCHANGED <<crashes>>
  BY DEF Propose, coordinatorVars, appVars, netVars, boundVars
<1>2. offers[p] = NoOffer /\ task[p].kind \in Kinds /\ task[p] \in Tasks
  BY DEF IInv, TypeOK, TasksOK, Propose
<1>3. [kind |-> task[p].kind, order |-> task[p].order, size |-> task[p].size,
       expiry |-> task[p].expiry] \in Offers
  BY <1>2 DEF Offers, Tasks
<1>4. offers' = [offers EXCEPT ![p] = [kind |-> task[p].kind, order |-> task[p].order,
                                         size |-> task[p].size, expiry |-> task[p].expiry]]
  BY DEF Propose
<1>5. Belongs(offers', lastOutC')
  <2>1. offers' \in [Protocols -> Offers] /\ offers'[p].kind = task[p].kind
    BY <1>3, <1>4 DEF IInv, TypeOK
  <2> QED BY <1>2, <2>1, OfferBelongs DEF Propose
<1>6. task' \in [Protocols -> Tasks]
  BY TaskGoesOn DEF IInv, TypeOK, Propose
<1>7. offers' \in [Protocols -> Offers]
  BY <1>3, <1>4 DEF IInv, TypeOK
<1>8. chanC' \in Channels
  BY DEF IInv, TypeOK, Propose, OfferedChannel, InChannel, Channels, ChannelStates
<1>9. lastOutC' \in MaybeMessage
  BY <1>5 DEF Belongs, MaybeMessage
<1>10. TypeOK'
  BY <1>1, <1>6, <1>7, <1>8, <1>9 DEF IInv, TypeOK
<1>11. TasksOK'
  BY <1>1, <1>4 DEF IInv, TypeOK, TasksOK, Tasks, Propose
<1>12. OffersOK'
  <2>1. task[p].kind # "Rollover" => task[p].order \in Orders
    BY <1>2 DEF IInv, TasksOK, Propose, Tasks
  <2> QED BY <1>3, <1>4, <2>1 DEF IInv, TypeOK, OffersOK
<1>13. MessagesOK'
  <2>1. \A m : Belongs(offers, m) => Belongs(offers', m)
    BY <1>2, <1>3, <1>4, NewOffer DEF IInv, TypeOK
  <2>2. Wire(offers', netCA) /\ Wire(offers', netAC)
    BY <1>2, <1>3, <1>4, WireNewOffer DEF IInv, TypeOK, MessagesOK
  <2>3. Slot(offers', inC) /\ Slot(offers', lastOutA) /\ Slot(offers', inA)
    BY <2>1 DEF IInv, MessagesOK, Slot
  <2>4. chanA.state \in Offering =>
            chanA.ref \in Protocols /\ offers'[chanA.ref].kind \in Kinds
    BY <1>2, <1>4 DEF IInv, TypeOK, MessagesOK, NoOffer
  <2> QED BY <1>1, <1>5, <2>2, <2>3, <2>4 DEF MessagesOK, Slot
<1>14. TradesOK'
  <2>1. \A m : Belongs(offers, m) => Belongs(offers', m)
    BY <1>2, <1>3, <1>4, NewOffer DEF IInv, TypeOK
  <2> QED BY <1>1, <2>1 DEF IInv, TradesOK, Finished
<1> QED BY <1>10, <1>11, <1>12, <1>13, <1>14 DEF IInv

\* update_order_and_match preserves the invariant.
LEMMA FinishTaskOK ==
    ASSUME IInv, NEW p \in Protocols, FinishTask(p)
    PROVE  IInv'
<1>1. /\ UNCHANGED <<offers, chanC, protocols, positions, trades, processedC, lastOutC>>
      /\ UNCHANGED <<inC, matchCheck, orderA, chanA, posA, processedA, lastOutA>>
      /\ UNCHANGED <<inA, posting, netAC, tradeErrors, connected, time, clock>>
      /\ UNCHANGED <<disconnects, crashes>>
  BY DEF FinishTask, coordinatorVars, appVars, netVars, boundVars
<1>2. Wire(offers, netCA')
  BY WireResend DEF IInv, MessagesOK, FinishTask, SendLastC
<1>3. orderC' \in [Orders -> OrderRows]
  BY DEF IInv, TypeOK, FinishTask, OrderRows, OrderStates
<1>4. task' \in [Protocols -> Tasks]
  BY IdleTask DEF IInv, TypeOK, FinishTask
<1>5. netCA' \in Seq(Messages)
  BY <1>2 DEF Wire
<1>6. TypeOK'
  BY <1>1, <1>3, <1>4, <1>5 DEF IInv, TypeOK
<1>7. TasksOK'
  BY <1>1 DEF IInv, TypeOK, TasksOK, Idle, FinishTask
<1>8. MessagesOK'
  BY <1>1, <1>2 DEF IInv, MessagesOK
<1>9. OffersOK' /\ TradesOK'
  BY <1>1 DEF IInv, OffersOK, TradesOK
<1> QED BY <1>6, <1>7, <1>8, <1>9 DEF IInv

-----------------------------------------------------------------------------
(* The invariant is preserved: the coordinator's messages *)

\* Skipping a processed message preserves the invariant.
LEMMA SkipCOK ==
    ASSUME IInv, SkipC
    PROVE  IInv'
<1>1. /\ UNCHANGED <<orderC, task, offers, chanC, protocols, positions, trades>>
      /\ UNCHANGED <<processedC, lastOutC, inC, matchCheck, orderA, chanA, posA>>
      /\ UNCHANGED <<processedA, lastOutA, inA, posting, netCA, tradeErrors, connected>>
      /\ UNCHANGED <<time, clock, disconnects, crashes>>
  BY DEF SkipC, coordinatorVars, appVars, netVars, boundVars
<1>2. Wire(offers, netAC') /\ Belongs(offers, Head(netAC))
  BY WireHead DEF IInv, MessagesOK, SkipC
<1>3. netAC' \in Seq(Messages)
  BY <1>2 DEF Wire
<1>4. TypeOK'
  BY <1>1, <1>3 DEF IInv, TypeOK
<1>5. MessagesOK'
  BY <1>1, <1>2 DEF IInv, MessagesOK
<1>6. TasksOK' /\ OffersOK' /\ TradesOK'
  BY <1>1 DEF IInv, TasksOK, OffersOK, TradesOK
<1> QED BY <1>4, <1>5, <1>6 DEF IInv

\* The first half of process_dlc_message preserves the invariant.
LEMMA ReceiveCOK ==
    ASSUME IInv, ReceiveC
    PROVE  IInv'
<1>1. /\ UNCHANGED <<orderC, task, offers, protocols, positions, trades, processedC>>
      /\ UNCHANGED <<matchCheck, orderA, chanA, posA, processedA, lastOutA, inA>>
      /\ UNCHANGED <<posting, netCA, tradeErrors, connected, time, clock, disconnects>>
      /\ UNCHANGED <<crashes>>
  BY DEF ReceiveC, coordinatorVars, appVars, netVars, boundVars
<1>2. Wire(offers, netAC') /\ Belongs(offers, Head(netAC))
  BY WireHead DEF IInv, MessagesOK, ReceiveC
<1>3. inC' = Head(netAC) /\ inC' \notin processedC /\ inC' \in Messages /\ inC'.pid \in Protocols
  BY <1>2 DEF ReceiveC, AlreadyProcessedC, Belongs, Messages
<1>4. Slot(offers, lastOutC')
  BY <1>2, CoordinatorReplies DEF IInv, TypeOK, MessagesOK, ReceiveC, Slot
<1>5. chanC' \in Channels
  <2>1. RollBack(chanC) \in Channels
    BY DEF IInv, TypeOK, RollBack, Channels
  <2>2. Coordinator(Head(netAC).type)[2] \in ChannelStates
    BY <1>2, CoordinatorReplies DEF IInv, TypeOK
  <2>3. Advance(chanC, Head(netAC), Coordinator(Head(netAC).type)) \in Channels
    BY <1>3, <2>2 DEF IInv, TypeOK, Advance, Channels
  <2> QED BY <2>1, <2>3 DEF ReceiveC
<1>6. lastOutC' \in MaybeMessage
  BY <1>4 DEF Slot, Belongs, MaybeMessage
<1>7. inC' \in MaybeMessage
  BY <1>3 DEF MaybeMessage
<1>8. netAC' \in Seq(Messages)
  BY <1>2 DEF Wire
<1>9. TypeOK'
  BY <1>1, <1>5, <1>6, <1>7, <1>8 DEF IInv, TypeOK
<1>10. MessagesOK'
  BY <1>1, <1>2, <1>3, <1>4 DEF IInv, MessagesOK, Slot
<1>11. TradesOK'
  BY <1>1, <1>3 DEF IInv, TradesOK
<1>12. TasksOK' /\ OffersOK'
  BY <1>1 DEF IInv, TasksOK, OffersOK
<1> QED BY <1>9, <1>10, <1>11, <1>12 DEF IInv

\* A message rust-dlc refuses preserves the invariant.
LEMMA RefuseCOK ==
    ASSUME IInv, RefuseC
    PROVE  IInv'
<1>1. /\ UNCHANGED <<orderC, task, offers, chanC, positions, trades, processedC>>
      /\ UNCHANGED <<lastOutC, inC, matchCheck, orderA, chanA, posA, processedA>>
      /\ UNCHANGED <<lastOutA, inA, posting, netCA, connected, time, clock>>
      /\ UNCHANGED <<disconnects, crashes>>
  BY DEF RefuseC, FailMessage, coordinatorVars, appVars, netVars, boundVars
<1>2. Wire(offers, netAC') /\ Belongs(offers, Head(netAC))
  BY WireHead DEF IInv, MessagesOK, RefuseC
<1>3. Head(netAC).pid \in Protocols /\ offers[Head(netAC).pid].kind \in Kinds
  BY <1>2, KindsOfMessages DEF IInv, TypeOK
<1>4. protocols' \in [Protocols -> ProtocolStates]
  BY <1>3 DEF IInv, TypeOK, RefuseC, FailMessage, ProtocolStates
<1>5. tradeErrors' \in SUBSET Orders
  BY <1>3 DEF IInv, TypeOK, OffersOK, RefuseC, FailMessage, Kinds, OpenKinds
<1>6. netAC' \in Seq(Messages)
  BY <1>2 DEF Wire
<1>7. TypeOK'
  BY <1>1, <1>4, <1>5, <1>6 DEF IInv, TypeOK
<1>8. MessagesOK'
  BY <1>1, <1>2 DEF IInv, MessagesOK
<1>9. TasksOK' /\ OffersOK' /\ TradesOK'
  BY <1>1 DEF IInv, TasksOK, OffersOK, TradesOK
<1> QED BY <1>7, <1>8, <1>9 DEF IInv

\* The second half of process_dlc_message preserves the invariant.
LEMMA CompleteCOK ==
    ASSUME IInv, CompleteC
    PROVE  IInv'
<1>1. /\ UNCHANGED <<orderC, task, offers, chanC, lastOutC, matchCheck, orderA>>
      /\ UNCHANGED <<chanA, posA, processedA, lastOutA, inA, posting, netAC>>
      /\ UNCHANGED <<tradeErrors, connected, time, clock, disconnects, crashes>>
  BY DEF CompleteC, coordinatorVars, appVars, netVars, boundVars
<1>2. inC # NoMessage /\ Belongs(offers, inC) /\ inC \in Messages /\ inC.pid \in Protocols
  BY DEF IInv, MessagesOK, Slot, CompleteC, NoMessage, MessageTypes, Finishing, OfferTypes, AcceptTypes,
     Belongs, Messages
<1>3. Wire(offers, netCA')
  BY WireResend DEF IInv, MessagesOK, CompleteC, SendLastC
<1>4. \/ UNCHANGED <<protocols, positions, trades>>
      \/ inC.type \in Finishing /\ finish_dlc_protocol(inC.pid)
  BY DEF CompleteC
<1>5. \/ trades' = trades
      \/ inC.type \in Finishing /\ trades' = [trades EXCEPT ![inC.pid] = @ + 1]
  BY <1>4 DEF finish_dlc_protocol
<1>6. protocols' \in [Protocols -> ProtocolStates]
  BY <1>2, <1>4 DEF IInv, TypeOK, finish_dlc_protocol, ProtocolStates
<1>7. positions' \in [Positions -> PositionRows]
  BY <1>2, <1>4, FinishedPositionsType DEF IInv, TypeOK, finish_dlc_protocol
<1>8. trades' \in [Protocols -> Nat]
  <2>1. trades \in [Protocols -> Nat]
    BY DEF IInv, TypeOK
  <2>2. trades[inC.pid] + 1 \in Nat
    BY <1>2, <2>1
  <2> QED BY <1>5, <2>1, <2>2
<1>9. processedC' \in SUBSET Messages
  BY <1>2 DEF IInv, TypeOK, CompleteC
<1>10. inC' \in MaybeMessage
  BY DEF CompleteC, MaybeMessage
<1>11. netCA' \in Seq(Messages)
  BY <1>3 DEF Wire
<1>12. TypeOK'
  BY <1>1, <1>6, <1>7, <1>8, <1>9, <1>10, <1>11 DEF IInv, TypeOK
<1>13. MessagesOK'
  BY <1>1, <1>3 DEF IInv, MessagesOK, Slot, CompleteC
<1>14. TradesOK'
  <2>1. NoMessage \notin Messages
    BY ProtocolsAssumption DEF NoMessage, Messages
  <2>2. inC' = NoMessage /\ processedC' = processedC \union {inC}
    BY DEF CompleteC
  <2>3. \A q : Finished(offers, processedC, q) => Finished(offers, processedC', q)
    BY <2>2 DEF Finished
  <2>4. CASE trades' = trades
    BY <1>1, <1>9, <2>1, <2>2, <2>3, <2>4 DEF IInv, TradesOK
  <2>5. CASE inC.type \in Finishing /\ trades' = [trades EXCEPT ![inC.pid] = @ + 1]
    <3>1. ~ Finished(offers, processedC, inC.pid)
      BY <1>2, <2>5, OneFinishing DEF IInv, TypeOK, TradesOK, Finished
    <3>2. Finished(offers, processedC', inC.pid)
      BY <1>2, <2>2, <2>5 DEF Finished
    <3>3. trades[inC.pid] = 0 /\ trades'[inC.pid] = 1
      BY <1>2, <2>5, <3>1 DEF IInv, TypeOK, TradesOK
    <3>4. \A q \in Protocols \ {inC.pid} : trades'[q] = trades[q]
      BY <2>5 DEF IInv, TypeOK
    <3> QED BY <1>1, <1>9, <2>1, <2>2, <2>3, <3>2, <3>3, <3>4 DEF IInv, TradesOK
  <2> QED BY <1>5, <2>4, <2>5
<1>15. TasksOK' /\ OffersOK'
  BY <1>1 DEF IInv, TasksOK, OffersOK
<1> QED BY <1>12, <1>13, <1>14, <1>15 DEF IInv

\* A finish that is rolled back preserves the invariant.
LEMMA CompleteCFailsOK ==
    ASSUME IInv, CompleteCFails
    PROVE  IInv'
<1>1. /\ UNCHANGED <<orderC, task, offers, chanC, positions, trades, lastOutC>>
      /\ UNCHANGED <<matchCheck, orderA, chanA, posA, processedA, lastOutA, inA>>
      /\ UNCHANGED <<posting, netCA, netAC, connected, time, clock, disconnects>>
      /\ UNCHANGED <<crashes>>
  BY DEF CompleteCFails, FailMessage, coordinatorVars, appVars, netVars, boundVars
<1>2. inC # NoMessage /\ Belongs(offers, inC) /\ inC \in Messages /\ inC.pid \in Protocols
  BY DEF IInv, MessagesOK, Slot, CompleteCFails, NoMessage, MessageTypes, Finishing, OfferTypes, AcceptTypes,
     Belongs, Messages
<1>3. offers[inC.pid].kind \in Kinds
  BY <1>2, KindsOfMessages DEF IInv, TypeOK
<1>4. protocols' \in [Protocols -> ProtocolStates]
  BY <1>2 DEF IInv, TypeOK, CompleteCFails, FailMessage, ProtocolStates
<1>5. tradeErrors' \in SUBSET Orders
  BY <1>2, <1>3 DEF IInv, TypeOK, OffersOK, CompleteCFails, FailMessage, Kinds, OpenKinds
<1>6. processedC' \in SUBSET Messages
  BY <1>2 DEF IInv, TypeOK, CompleteCFails
<1>7. inC' \in MaybeMessage
  BY DEF CompleteCFails, MaybeMessage
<1>8. TypeOK'
  BY <1>1, <1>4, <1>5, <1>6, <1>7 DEF IInv, TypeOK
<1>9. MessagesOK'
  BY <1>1 DEF IInv, MessagesOK, Slot, CompleteCFails
<1>10. TradesOK'
  <2>1. NoMessage \notin Messages
    BY ProtocolsAssumption DEF NoMessage, Messages
  <2>2. inC' = NoMessage /\ processedC' \in SUBSET Messages
    BY <1>6 DEF CompleteCFails
  <2>3. \A q : Finished(offers, processedC, q) => Finished(offers, processedC', q)
    BY DEF Finished, CompleteCFails
  <2> QED BY <1>1, <2>1, <2>2, <2>3 DEF IInv, TradesOK
<1>11. TasksOK' /\ OffersOK'
  BY <1>1 DEF IInv, TasksOK, OffersOK
<1> QED BY <1>8, <1>9, <1>10, <1>11 DEF IInv

\* The handling of a Reject preserves the invariant.
LEMMA CompleteRejectOK ==
    ASSUME IInv, CompleteReject
    PROVE  IInv'
<1>1. /\ UNCHANGED <<orderC, task, offers, chanC, trades, lastOutC, matchCheck>>
      /\ UNCHANGED <<orderA, chanA, posA, processedA, lastOutA, inA, posting>>
      /\ UNCHANGED <<netCA, netAC, connected, time, clock, disconnects, crashes>>
  BY DEF CompleteReject, FailMessage, coordinatorVars, appVars, netVars, boundVars
<1>2. inC # NoMessage /\ Belongs(offers, inC) /\ inC \in Messages /\ inC.pid \in Protocols
  BY DEF IInv, MessagesOK, Slot, CompleteReject, NoMessage, MessageTypes, Finishing, OfferTypes, AcceptTypes,
     Belongs, Messages
<1>3. offers[inC.pid].kind \in Kinds
  BY <1>2, KindsOfMessages DEF IInv, TypeOK
<1>4. protocols' \in [Protocols -> ProtocolStates]
  BY <1>2 DEF IInv, TypeOK, CompleteReject, FailMessage, ProtocolStates
<1>5. positions' \in [Positions -> PositionRows]
  <2>1. RevertedTo \in PositionStates
    BY DEF RevertedTo, PositionStates
  <2> QED BY <2>1, WithStateType DEF IInv, TypeOK, CompleteReject
<1>6. tradeErrors' \in SUBSET Orders
  BY <1>2, <1>3 DEF IInv, TypeOK, OffersOK, CompleteReject, FailMessage, Kinds, OpenKinds
<1>7. processedC' \in SUBSET Messages
  BY <1>2 DEF IInv, TypeOK, CompleteReject
<1>8. inC' \in MaybeMessage
  BY DEF CompleteReject, MaybeMessage
<1>9. TypeOK'
  BY <1>1, <1>4, <1>5, <1>6, <1>7, <1>8 DEF IInv, TypeOK
<1>10. MessagesOK'
  BY <1>1 DEF IInv, MessagesOK, Slot, CompleteReject
<1>11. TradesOK'
  <2>1. NoMessage \notin Messages
    BY ProtocolsAssumption DEF NoMessage, Messages
  <2>2. inC' = NoMessage /\ processedC' \in SUBSET Messages
    BY <1>7 DEF CompleteReject
  <2>3. \A q : Finished(offers, processedC, q) => Finished(offers, processedC', q)
    BY DEF Finished, CompleteReject
  <2> QED BY <1>1, <2>1, <2>2, <2>3 DEF IInv, TradesOK
<1>12. TasksOK' /\ OffersOK'
  BY <1>1 DEF IInv, TasksOK, OffersOK
<1> QED BY <1>9, <1>10, <1>11, <1>12 DEF IInv

-----------------------------------------------------------------------------
(* The invariant is preserved: the app *)

\* A TradeError preserves the invariant.
LEMMA OnTradeErrorOK ==
    ASSUME IInv, NEW o \in Orders, OnTradeError(o)
    PROVE  IInv'
<1>1. /\ UNCHANGED <<orderC, task, offers, chanC, protocols, positions, trades>>
      /\ UNCHANGED <<processedC, lastOutC, inC, matchCheck, chanA, processedA, lastOutA>>
      /\ UNCHANGED <<inA, posting, netCA, netAC, connected, time, clock>>
      /\ UNCHANGED <<disconnects, crashes>>
  BY DEF OnTradeError, coordinatorVars, appVars, netVars, boundVars
<1>2. tradeErrors' \in SUBSET Orders
  BY DEF IInv, TypeOK, OnTradeError
<1>3. orderA' \in [Orders -> AppOrderStates]
  BY OrderFailedTyped DEF IInv, TypeOK, OnTradeError
<1>4. posA' \in PositionRows
  BY DEF IInv, TypeOK, OnTradeError, order_failed, PositionRows, PositionStates,
         PosAInState
<1>5. TypeOK'
  BY <1>1, <1>2, <1>3, <1>4 DEF IInv, TypeOK
<1>6. TasksOK' /\ OffersOK' /\ MessagesOK' /\ TradesOK'
  BY <1>1 DEF IInv, TasksOK, OffersOK, MessagesOK, TradesOK
<1> QED BY <1>5, <1>6 DEF IInv

\* check_open_orders preserves the invariant.
LEMMA CheckOpenOrdersOK ==
    ASSUME IInv, NEW o \in Orders, CheckOpenOrders(o)
    PROVE  IInv'
<1>1. /\ UNCHANGED <<orderC, task, offers, chanC, protocols, positions, trades>>
      /\ UNCHANGED <<processedC, lastOutC, inC, matchCheck, chanA, processedA, lastOutA>>
      /\ UNCHANGED <<inA, posting, netCA, netAC, tradeErrors, connected, time>>
      /\ UNCHANGED <<clock, disconnects, crashes>>
  BY DEF CheckOpenOrders, coordinatorVars, appVars, netVars, boundVars
<1>2. orderA' \in [Orders -> AppOrderStates]
  BY OrderFailedTyped DEF IInv, CheckOpenOrders
<1>3. posA' \in PositionRows
  BY DEF IInv, TypeOK, CheckOpenOrders, order_failed, PositionRows, PositionStates,
         PosAInState
<1>4. TypeOK'
  BY <1>1, <1>2, <1>3 DEF IInv, TypeOK
<1>5. TasksOK' /\ OffersOK' /\ MessagesOK' /\ TradesOK'
  BY <1>1 DEF IInv, TasksOK, OffersOK, MessagesOK, TradesOK
<1> QED BY <1>4, <1>5 DEF IInv

\* Skipping a processed message preserves the invariant.
LEMMA SkipAOK ==
    ASSUME IInv, SkipA
    PROVE  IInv'
<1>1. /\ UNCHANGED <<orderC, task, offers, chanC, protocols, positions, trades>>
      /\ UNCHANGED <<processedC, lastOutC, inC, matchCheck, orderA, chanA, posA>>
      /\ UNCHANGED <<processedA, lastOutA, inA, posting, netAC, tradeErrors, connected>>
      /\ UNCHANGED <<time, clock, disconnects, crashes>>
  BY DEF SkipA, coordinatorVars, appVars, netVars, boundVars
<1>2. Wire(offers, netCA') /\ Belongs(offers, Head(netCA))
  BY WireHead DEF IInv, MessagesOK, SkipA
<1>3. netCA' \in Seq(Messages)
  BY <1>2 DEF Wire
<1>4. TypeOK'
  BY <1>1, <1>3 DEF IInv, TypeOK
<1>5. MessagesOK'
  BY <1>1, <1>2 DEF IInv, MessagesOK
<1>6. TasksOK' /\ OffersOK' /\ TradesOK'
  BY <1>1 DEF IInv, TasksOK, OffersOK, TradesOK
<1> QED BY <1>4, <1>5, <1>6 DEF IInv

\* The first half of the app's process_dlc_message preserves the invariant.
LEMMA ReceiveAOK ==
    ASSUME IInv, ReceiveA
    PROVE  IInv'
<1>1. /\ UNCHANGED <<orderC, task, offers, chanC, protocols, positions, trades>>
      /\ UNCHANGED <<processedC, lastOutC, inC, matchCheck, orderA, posA, processedA>>
      /\ UNCHANGED <<posting, netAC, tradeErrors, connected, time, clock, disconnects>>
      /\ UNCHANGED <<crashes>>
  BY DEF ReceiveA, coordinatorVars, appVars, netVars, boundVars
<1>2. Wire(offers, netCA') /\ Belongs(offers, Head(netCA))
  BY WireHead DEF IInv, MessagesOK, ReceiveA
<1>3. /\ inA' = Head(netCA) /\ inA' \in Messages
      /\ Head(netCA).pid \in Protocols /\ offers[Head(netCA).pid].kind \in Kinds
  BY <1>2, KindsOfMessages DEF IInv, TypeOK, ReceiveA, Belongs
<1>4. Slot(offers, lastOutA')
  BY <1>2, AppReplies DEF IInv, TypeOK, MessagesOK, ReceiveA, Slot
<1>5. App(Head(netCA).type)[2] \in ChannelStates \ Offering
  BY <1>2, AppReplies DEF IInv, TypeOK
<1>6. \/ chanA' = ReceivedChannel(Head(netCA))
      \/ chanA' = Advance(chanA, Head(netCA), App(Head(netCA).type))
  BY DEF ReceiveA
<1>7. chanA' \in Channels
  <2>1. ReceivedChannel(Head(netCA)) \in Channels
    BY <1>3 DEF IInv, TypeOK, ReceivedChannel, InChannel, Channels, ChannelStates
  <2>2. Advance(chanA, Head(netCA), App(Head(netCA).type)) \in Channels
    BY <1>3, <1>5 DEF IInv, TypeOK, Advance, Channels
  <2> QED BY <1>6, <2>1, <2>2
<1>8. lastOutA' \in MaybeMessage
  BY <1>4 DEF Slot, Belongs, MaybeMessage
<1>9. inA' \in MaybeMessage
  BY <1>3 DEF MaybeMessage
<1>10. netCA' \in Seq(Messages)
  BY <1>2 DEF Wire
<1>11. TypeOK'
  BY <1>1, <1>7, <1>8, <1>9, <1>10 DEF IInv, TypeOK
<1>12. MessagesOK'
  <2>1. chanA'.state \in Offering =>
            chanA'.ref \in Protocols /\ offers[chanA'.ref].kind \in Kinds
    <3>1. CASE chanA' = ReceivedChannel(Head(netCA))
      BY <1>3, <3>1 DEF ReceivedChannel, InChannel
    <3>2. CASE chanA' = Advance(chanA, Head(netCA), App(Head(netCA).type))
      BY <1>5, <3>2 DEF IInv, TypeOK, Channels, Advance
    <3> QED BY <1>6, <3>1, <3>2
  <2> QED BY <1>1, <1>2, <1>3, <1>4, <2>1 DEF IInv, MessagesOK, Slot
<1>13. TasksOK' /\ OffersOK' /\ TradesOK'
  BY <1>1 DEF IInv, TasksOK, OffersOK, TradesOK
<1> QED BY <1>11, <1>12, <1>13 DEF IInv

\* force_reject_offer preserves the invariant.
LEMMA ForceRejectOfferOK ==
    ASSUME IInv, ForceRejectOffer
    PROVE  IInv'
<1>1. /\ UNCHANGED <<orderC, task, offers, chanC, protocols, positions, trades>>
      /\ UNCHANGED <<processedC, lastOutC, inC, matchCheck, chanA, processedA, inA>>
      /\ UNCHANGED <<posting, tradeErrors, connected, time, disconnects, crashes>>
  BY DEF ForceRejectOffer, coordinatorVars, appVars, netVars, boundVars
<1>2. Wire(offers, netCA') /\ Belongs(offers, Head(netCA))
  BY WireHead DEF IInv, MessagesOK, ForceRejectOffer
<1>3. Head(netCA).pid \in Protocols /\ offers[Head(netCA).pid].kind \in Kinds
  BY <1>2, KindsOfMessages DEF IInv, TypeOK
<1>4. /\ Belongs(offers, lastOutA') /\ clock' \in Nat
      /\ Wire(offers, netAC')
  <2>1. PICK s \in Nat : /\ clock' = s
                        /\ lastOutA' = [type |-> "Reject", pid |-> Head(netCA).pid, ts |-> s]
                        /\ SendLastA(lastOutA')
    BY DEF IInv, TypeOK, ForceRejectOffer, SendReject
  <2>2. Belongs(offers, lastOutA')
    BY <1>3, <2>1, RejectBelongs DEF IInv, TypeOK
  <2>3. Wire(offers, netAC')
    BY <2>1, <2>2, WireResend DEF IInv, MessagesOK, SendLastA, Slot
  <2> QED BY <2>1, <2>2, <2>3
<1>5. posA' \in PositionRows
  BY DEF IInv, TypeOK, ForceRejectOffer, order_failed, PositionRows, PositionStates,
         PosAInState
<1>6. orderA' \in [Orders -> AppOrderStates]
  BY OrderFailedTyped DEF IInv, ForceRejectOffer
<1>7. clock' \in Nat
  BY <1>4
<1>8. lastOutA' \in MaybeMessage
  BY <1>4 DEF Belongs, MaybeMessage
<1>9. netAC' \in Seq(Messages)
  BY <1>4 DEF Wire
<1>10. netCA' \in Seq(Messages)
  BY <1>2 DEF Wire
<1>11. TypeOK'
  BY <1>1, <1>5, <1>6, <1>7, <1>8, <1>9, <1>10 DEF IInv, TypeOK
<1>12. MessagesOK'
  BY <1>1, <1>2, <1>4 DEF IInv, MessagesOK, Slot
<1>13. TasksOK' /\ OffersOK' /\ TradesOK'
  BY <1>1 DEF IInv, TasksOK, OffersOK, TradesOK
<1> QED BY <1>11, <1>12, <1>13 DEF IInv

\* A message rust-dlc refuses preserves the invariant.
LEMMA RefuseAOK ==
    ASSUME IInv, RefuseA
    PROVE  IInv'
<1>1. /\ UNCHANGED <<orderC, task, offers, chanC, protocols, positions, trades>>
      /\ UNCHANGED <<processedC, lastOutC, inC, matchCheck, orderA, chanA, posA>>
      /\ UNCHANGED <<processedA, lastOutA, inA, posting, netAC, tradeErrors, connected>>
      /\ UNCHANGED <<time, clock, disconnects, crashes>>
  BY DEF RefuseA, coordinatorVars, appVars, netVars, boundVars
<1>2. Wire(offers, netCA') /\ Belongs(offers, Head(netCA))
  BY WireHead DEF IInv, MessagesOK, RefuseA
<1>3. netCA' \in Seq(Messages)
  BY <1>2 DEF Wire
<1>4. TypeOK'
  BY <1>1, <1>3 DEF IInv, TypeOK
<1>5. MessagesOK'
  BY <1>1, <1>2 DEF IInv, MessagesOK
<1>6. TasksOK' /\ OffersOK' /\ TradesOK'
  BY <1>1 DEF IInv, TasksOK, OffersOK, TradesOK
<1> QED BY <1>4, <1>5, <1>6 DEF IInv

\* Accepting an offer preserves the invariant.
LEMMA AcceptOfferOK ==
    ASSUME IInv, AcceptOffer
    PROVE  IInv'
<1>1. /\ UNCHANGED <<orderC, task, offers, chanC, protocols, positions, trades>>
      /\ UNCHANGED <<processedC, lastOutC, inC, matchCheck, posting, netCA, tradeErrors>>
      /\ UNCHANGED <<connected, time, clock, disconnects, crashes>>
  BY DEF AcceptOffer, DoneA, coordinatorVars, appVars, netVars, boundVars
<1>2. /\ Belongs(offers, inA) /\ inA \in Messages
      /\ inA.pid \in Protocols /\ offers[inA.pid].kind \in Kinds
  <2>1. inA # NoMessage
    BY DEF AcceptOffer, Pending, NoMessage, OfferTypes
  <2>2. Belongs(offers, inA)
    BY <2>1 DEF IInv, MessagesOK, Slot
  <2> QED BY <2>2, KindsOfMessages DEF IInv, TypeOK, Belongs
<1>3. /\ Acceptance(inA.type)[1] \in Offering /\ Acceptance(inA.type)[2] \in ChannelStates \ Offering
      /\ Belongs(offers, Msg(Acceptance(inA.type)[3], inA.pid))
  BY <1>2, AcceptanceReplies DEF IInv, TypeOK, AcceptOffer, Pending
<1>4. Wire(offers, netAC')
  BY <1>3, WireResend DEF IInv, MessagesOK, AcceptOffer, SendLastA, Slot
<1>5. chanA' \in Channels
  BY <1>3 DEF IInv, TypeOK, AcceptOffer, Channels
<1>6. orderA' \in [Orders -> AppOrderStates]
  BY DEF IInv, TypeOK, AcceptOffer, AppOrderStates
<1>7. posA' \in PositionRows
  BY <1>2 DEF IInv, TypeOK, AcceptOffer, RollingPosition, PosAInState, PositionRows, PositionStates,
     Offers
<1>8. lastOutA' \in MaybeMessage
  BY <1>3 DEF AcceptOffer, Belongs, MaybeMessage
<1>9. netAC' \in Seq(Messages)
  BY <1>4 DEF Wire
<1>10. processedA' \in SUBSET Messages
  BY <1>2 DEF IInv, TypeOK, AcceptOffer, DoneA
<1>11. inA' \in MaybeMessage
  BY DEF AcceptOffer, DoneA, MaybeMessage
<1>12. TypeOK'
  BY <1>1, <1>5, <1>6, <1>7, <1>8, <1>9, <1>10, <1>11 DEF IInv, TypeOK
<1>13. MessagesOK'
  <2>1. chanA'.state \notin Offering
    BY <1>3 DEF IInv, TypeOK, Channels, AcceptOffer
  <2> QED BY <1>1, <1>3, <1>4, <2>1 DEF IInv, MessagesOK, Slot, AcceptOffer, DoneA
<1>14. TasksOK' /\ OffersOK' /\ TradesOK'
  BY <1>1 DEF IInv, TasksOK, OffersOK, TradesOK
<1> QED BY <1>12, <1>13, <1>14 DEF IInv

\* Rejecting an offer preserves the invariant.
LEMMA RejectOfferOK ==
    ASSUME IInv, RejectOffer
    PROVE  IInv'
<1>1. /\ UNCHANGED <<orderC, task, offers, chanC, protocols, positions, trades>>
      /\ UNCHANGED <<processedC, lastOutC, inC, matchCheck, posting, netCA, tradeErrors>>
      /\ UNCHANGED <<connected, time, disconnects, crashes>>
  BY DEF RejectOffer, DoneA, coordinatorVars, appVars, netVars, boundVars
<1>2. /\ Belongs(offers, inA) /\ inA \in Messages
      /\ inA.pid \in Protocols /\ offers[inA.pid].kind \in Kinds
  <2>1. inA # NoMessage
    BY DEF RejectOffer, Pending, NoMessage, OfferTypes
  <2>2. Belongs(offers, inA)
    BY <2>1 DEF IInv, MessagesOK, Slot
  <2> QED BY <2>2, KindsOfMessages DEF IInv, TypeOK, Belongs
<1>3. /\ Acceptance(inA.type)[1] \in Offering /\ Acceptance(inA.type)[2] \in ChannelStates \ Offering
      /\ Belongs(offers, Msg(Acceptance(inA.type)[3], inA.pid))
  BY <1>2, AcceptanceReplies DEF IInv, TypeOK, RejectOffer, Pending
<1>4. inA.pid \in Protocols /\ offers[inA.pid].kind \in Kinds
  BY <1>2
<1>5. /\ Belongs(offers, lastOutA') /\ clock' \in Nat
      /\ Wire(offers, netAC')
  <2>1. PICK s \in Nat : /\ clock' = s
                        /\ lastOutA' = [type |-> "Reject", pid |-> inA.pid, ts |-> s]
                        /\ SendLastA(lastOutA')
    BY DEF IInv, TypeOK, RejectOffer, SendReject
  <2>2. Belongs(offers, lastOutA')
    BY <1>4, <2>1, RejectBelongs DEF IInv, TypeOK
  <2>3. Wire(offers, netAC')
    BY <2>1, <2>2, WireResend DEF IInv, MessagesOK, SendLastA, Slot
  <2> QED BY <2>1, <2>2, <2>3
<1>6. chanA' \in Channels
  BY DEF IInv, TypeOK, RejectOffer, RollBack, Channels
<1>7. orderA' \in [Orders -> AppOrderStates]
  BY FailedStateTyped DEF IInv, TypeOK, RejectOffer, AppOrderStates
<1>8. posA' \in PositionRows
  BY DEF IInv, TypeOK, RejectOffer, PositionRows, PositionStates,
         PosAInState
<1>9. clock' \in Nat
  BY <1>5
<1>10. lastOutA' \in MaybeMessage
  BY <1>5 DEF Belongs, MaybeMessage
<1>11. netAC' \in Seq(Messages)
  BY <1>5 DEF Wire
<1>12. processedA' \in SUBSET Messages
  BY <1>2 DEF IInv, TypeOK, RejectOffer, DoneA
<1>13. inA' \in MaybeMessage
  BY DEF RejectOffer, DoneA, MaybeMessage
<1>14. TypeOK'
  BY <1>1, <1>6, <1>7, <1>8, <1>9, <1>10, <1>11, <1>12, <1>13 DEF IInv, TypeOK
<1>15. MessagesOK'
  <2>1. chanA.state \in Offering /\ chanA'.ref = chanA.ref
    BY <1>3 DEF IInv, TypeOK, Channels, RejectOffer, Pending, RollBack
  <2> QED BY <1>1, <1>5, <2>1 DEF IInv, MessagesOK, Slot, RejectOffer, DoneA
<1>16. TasksOK' /\ OffersOK' /\ TradesOK'
  BY <1>1 DEF IInv, TasksOK, OffersOK, TradesOK
<1> QED BY <1>14, <1>15, <1>16 DEF IInv

\* An acceptance that fails half way preserves the invariant.
LEMMA AcceptUnansweredOK ==
    ASSUME IInv, AcceptUnanswered
    PROVE  IInv'
<1>1. /\ UNCHANGED <<orderC, task, offers, chanC, protocols, positions, trades>>
      /\ UNCHANGED <<processedC, lastOutC, inC, matchCheck, orderA, posA, lastOutA>>
      /\ UNCHANGED <<posting, netCA, netAC, tradeErrors, connected, time, clock>>
      /\ UNCHANGED <<disconnects, crashes>>
  BY DEF AcceptUnanswered, DoneA, coordinatorVars, appVars, netVars, boundVars
<1>2. /\ Belongs(offers, inA) /\ inA \in Messages
      /\ inA.pid \in Protocols /\ offers[inA.pid].kind \in Kinds
  <2>1. inA # NoMessage
    BY DEF AcceptUnanswered, Pending, NoMessage, OfferTypes
  <2>2. Belongs(offers, inA)
    BY <2>1 DEF IInv, MessagesOK, Slot
  <2> QED BY <2>2, KindsOfMessages DEF IInv, TypeOK, Belongs
<1>3. /\ Acceptance(inA.type)[1] \in Offering /\ Acceptance(inA.type)[2] \in ChannelStates \ Offering
      /\ Belongs(offers, Msg(Acceptance(inA.type)[3], inA.pid))
  BY <1>2, AcceptanceReplies DEF IInv, TypeOK, AcceptUnanswered, Pending
<1>4. chanA' \in Channels
  BY <1>3 DEF IInv, TypeOK, AcceptUnanswered, Channels
<1>5. processedA' \in SUBSET Messages
  BY <1>2 DEF IInv, TypeOK, AcceptUnanswered, DoneA
<1>6. inA' \in MaybeMessage
  BY DEF AcceptUnanswered, DoneA, MaybeMessage
<1>7. TypeOK'
  BY <1>1, <1>4, <1>5, <1>6 DEF IInv, TypeOK
<1>8. MessagesOK'
  <2>1. chanA' = chanA \/ chanA'.state \notin Offering
    BY <1>3 DEF IInv, TypeOK, Channels, AcceptUnanswered
  <2> QED BY <1>1, <2>1 DEF IInv, MessagesOK, Slot, AcceptUnanswered, DoneA
<1>9. TasksOK' /\ OffersOK' /\ TradesOK'
  BY <1>1 DEF IInv, TasksOK, OffersOK, TradesOK
<1> QED BY <1>7, <1>8, <1>9 DEF IInv

\* An offer that was rejected meanwhile preserves the invariant.
LEMMA StaleOfferOK ==
    ASSUME IInv, StaleOffer
    PROVE  IInv'
<1>1. /\ UNCHANGED <<orderC, task, offers, chanC, protocols, positions, trades>>
      /\ UNCHANGED <<processedC, lastOutC, inC, matchCheck, chanA, posA, lastOutA>>
      /\ UNCHANGED <<posting, netCA, netAC, tradeErrors, connected, time, clock>>
      /\ UNCHANGED <<disconnects, crashes>>
  BY DEF StaleOffer, DoneA, coordinatorVars, appVars, netVars, boundVars
<1>2. /\ Belongs(offers, inA) /\ inA \in Messages
      /\ inA.pid \in Protocols /\ offers[inA.pid].kind \in Kinds
  <2>1. inA # NoMessage
    BY DEF StaleOffer, NoMessage, OfferTypes
  <2>2. Belongs(offers, inA)
    BY <2>1 DEF IInv, MessagesOK, Slot
  <2> QED BY <2>2, KindsOfMessages DEF IInv, TypeOK, Belongs
<1>3. orderA' \in [Orders -> AppOrderStates]
  BY DEF IInv, TypeOK, StaleOffer, AppOrderStates
<1>4. processedA' \in SUBSET Messages
  BY <1>2 DEF IInv, TypeOK, StaleOffer, DoneA
<1>5. inA' \in MaybeMessage
  BY DEF StaleOffer, DoneA, MaybeMessage
<1>6. TypeOK'
  BY <1>1, <1>3, <1>4, <1>5 DEF IInv, TypeOK
<1>7. MessagesOK'
  BY <1>1 DEF IInv, MessagesOK, Slot, StaleOffer, DoneA
<1>8. TasksOK' /\ OffersOK' /\ TradesOK'
  BY <1>1 DEF IInv, TasksOK, OffersOK, TradesOK
<1> QED BY <1>6, <1>7, <1>8 DEF IInv

\* Sign and RenewRevoke preserves the invariant.
LEMMA CompleteOpenAOK ==
    ASSUME IInv, CompleteOpenA
    PROVE  IInv'
<1>1. /\ UNCHANGED <<orderC, task, offers, chanC, protocols, positions, trades>>
      /\ UNCHANGED <<processedC, lastOutC, inC, matchCheck, chanA, lastOutA, posting>>
      /\ UNCHANGED <<netCA, netAC, tradeErrors, connected, time, clock, disconnects>>
      /\ UNCHANGED <<crashes>>
  BY DEF CompleteOpenA, DoneA, coordinatorVars, appVars, netVars, boundVars
<1>2. /\ Belongs(offers, inA) /\ inA \in Messages
      /\ inA.pid \in Protocols /\ offers[inA.pid].kind \in Kinds
  <2>1. inA # NoMessage
    BY DEF CompleteOpenA, NoMessage, OfferTypes
  <2>2. Belongs(offers, inA)
    BY <2>1 DEF IInv, MessagesOK, Slot
  <2> QED BY <2>2, KindsOfMessages DEF IInv, TypeOK, Belongs
<1>3. orderA' \in [Orders -> AppOrderStates]
  BY DEF IInv, TypeOK, CompleteOpenA, order_filled, AppOrderStates
<1>4. posA' \in PositionRows
  BY <1>2 DEF IInv, TypeOK, CompleteOpenA, PositionRows, PositionStates, Offers
<1>5. processedA' \in SUBSET Messages
  BY <1>2 DEF IInv, TypeOK, CompleteOpenA, DoneA
<1>6. inA' \in MaybeMessage
  BY DEF CompleteOpenA, DoneA, MaybeMessage
<1>7. TypeOK'
  BY <1>1, <1>3, <1>4, <1>5, <1>6 DEF IInv, TypeOK
<1>8. MessagesOK'
  BY <1>1 DEF IInv, MessagesOK, Slot, CompleteOpenA, DoneA
<1>9. TasksOK' /\ OffersOK' /\ TradesOK'
  BY <1>1 DEF IInv, TasksOK, OffersOK, TradesOK
<1> QED BY <1>7, <1>8, <1>9 DEF IInv

\* RolloverRevoke preserves the invariant.
LEMMA CompleteRolloverAOK ==
    ASSUME IInv, CompleteRolloverA
    PROVE  IInv'
<1>1. /\ UNCHANGED <<orderC, task, offers, chanC, protocols, positions, trades>>
      /\ UNCHANGED <<processedC, lastOutC, inC, matchCheck, orderA, chanA, lastOutA>>
      /\ UNCHANGED <<posting, netCA, netAC, tradeErrors, connected, time, clock>>
      /\ UNCHANGED <<disconnects, crashes>>
  BY DEF CompleteRolloverA, DoneA, coordinatorVars, appVars, netVars, boundVars
<1>2. /\ Belongs(offers, inA) /\ inA \in Messages
      /\ inA.pid \in Protocols /\ offers[inA.pid].kind \in Kinds
  <2>1. inA # NoMessage
    BY DEF CompleteRolloverA, NoMessage, OfferTypes
  <2>2. Belongs(offers, inA)
    BY <2>1 DEF IInv, MessagesOK, Slot
  <2> QED BY <2>2, KindsOfMessages DEF IInv, TypeOK, Belongs
<1>3. posA' \in PositionRows
  BY DEF IInv, TypeOK, CompleteRolloverA, PositionRows, PositionStates, PosAInState
<1>4. processedA' \in SUBSET Messages
  BY <1>2 DEF IInv, TypeOK, CompleteRolloverA, DoneA
<1>5. inA' \in MaybeMessage
  BY DEF CompleteRolloverA, DoneA, MaybeMessage
<1>6. TypeOK'
  BY <1>1, <1>3, <1>4, <1>5 DEF IInv, TypeOK
<1>7. MessagesOK'
  BY <1>1 DEF IInv, MessagesOK, Slot, CompleteRolloverA, DoneA
<1>8. TasksOK' /\ OffersOK' /\ TradesOK'
  BY <1>1 DEF IInv, TasksOK, OffersOK, TradesOK
<1> QED BY <1>6, <1>7, <1>8 DEF IInv

\* SettleConfirm preserves the invariant.
LEMMA CompleteSettleAOK ==
    ASSUME IInv, CompleteSettleA
    PROVE  IInv'
<1>1. /\ UNCHANGED <<orderC, task, offers, chanC, protocols, positions, trades>>
      /\ UNCHANGED <<processedC, lastOutC, inC, matchCheck, chanA, lastOutA, posting>>
      /\ UNCHANGED <<netCA, tradeErrors, connected, time, clock, disconnects, crashes>>
  BY DEF CompleteSettleA, DoneA, coordinatorVars, appVars, netVars, boundVars
<1>2. /\ Belongs(offers, inA) /\ inA \in Messages
      /\ inA.pid \in Protocols /\ offers[inA.pid].kind \in Kinds
  <2>1. inA # NoMessage
    BY DEF CompleteSettleA, NoMessage, OfferTypes
  <2>2. Belongs(offers, inA)
    BY <2>1 DEF IInv, MessagesOK, Slot
  <2> QED BY <2>2, KindsOfMessages DEF IInv, TypeOK, Belongs
<1>3. Wire(offers, netAC')
  BY WireResend DEF IInv, MessagesOK, CompleteSettleA, SendLastA
<1>4. orderA' \in [Orders -> AppOrderStates]
  BY DEF IInv, TypeOK, CompleteSettleA, order_filled, AppOrderStates
<1>5. posA' \in PositionRows
  BY DEF IInv, TypeOK, CompleteSettleA, PositionRows, PositionStates, PosAInState
<1>6. netAC' \in Seq(Messages)
  BY <1>3 DEF Wire
<1>7. processedA' \in SUBSET Messages
  BY <1>2 DEF IInv, TypeOK, CompleteSettleA, DoneA
<1>8. inA' \in MaybeMessage
  BY DEF CompleteSettleA, DoneA, MaybeMessage
<1>9. TypeOK'
  BY <1>1, <1>4, <1>5, <1>6, <1>7, <1>8 DEF IInv, TypeOK
<1>10. MessagesOK'
  BY <1>1, <1>3 DEF IInv, MessagesOK, Slot, CompleteSettleA, DoneA
<1>11. TasksOK' /\ OffersOK' /\ TradesOK'
  BY <1>1 DEF IInv, TasksOK, OffersOK, TradesOK
<1> QED BY <1>9, <1>10, <1>11 DEF IInv

\* RenewConfirm preserves the invariant.
LEMMA CompleteRenewConfirmAOK ==
    ASSUME IInv, CompleteRenewConfirmA
    PROVE  IInv'
<1>1. /\ UNCHANGED <<orderC, task, offers, chanC, protocols, positions, trades>>
      /\ UNCHANGED <<processedC, lastOutC, inC, matchCheck, orderA, chanA, posA>>
      /\ UNCHANGED <<lastOutA, posting, netCA, tradeErrors, connected, time, clock>>
      /\ UNCHANGED <<disconnects, crashes>>
  BY DEF CompleteRenewConfirmA, DoneA, coordinatorVars, appVars, netVars, boundVars
<1>2. /\ Belongs(offers, inA) /\ inA \in Messages
      /\ inA.pid \in Protocols /\ offers[inA.pid].kind \in Kinds
  <2>1. inA # NoMessage
    BY DEF CompleteRenewConfirmA, NoMessage, OfferTypes
  <2>2. Belongs(offers, inA)
    BY <2>1 DEF IInv, MessagesOK, Slot
  <2> QED BY <2>2, KindsOfMessages DEF IInv, TypeOK, Belongs
<1>3. Wire(offers, netAC')
  BY WireResend DEF IInv, MessagesOK, CompleteRenewConfirmA, SendLastA
<1>4. netAC' \in Seq(Messages)
  BY <1>3 DEF Wire
<1>5. processedA' \in SUBSET Messages
  BY <1>2 DEF IInv, TypeOK, CompleteRenewConfirmA, DoneA
<1>6. inA' \in MaybeMessage
  BY DEF CompleteRenewConfirmA, DoneA, MaybeMessage
<1>7. TypeOK'
  BY <1>1, <1>4, <1>5, <1>6 DEF IInv, TypeOK
<1>8. MessagesOK'
  BY <1>1, <1>3 DEF IInv, MessagesOK, Slot, CompleteRenewConfirmA, DoneA
<1>9. TasksOK' /\ OffersOK' /\ TradesOK'
  BY <1>1 DEF IInv, TasksOK, OffersOK, TradesOK
<1> QED BY <1>7, <1>8, <1>9 DEF IInv

-----------------------------------------------------------------------------
(* The invariant is preserved: connection, restarts, time *)

\* A connection loss preserves the invariant.
LEMMA DisconnectOK ==
    ASSUME IInv, Disconnect
    PROVE  IInv'
<1>1. /\ UNCHANGED <<orderC, task, offers, chanC, protocols, positions, trades>>
      /\ UNCHANGED <<processedC, lastOutC, inC, matchCheck, orderA, chanA, posA>>
      /\ UNCHANGED <<processedA, lastOutA, inA, posting, tradeErrors, time, clock>>
      /\ UNCHANGED <<crashes>>
  BY DEF Disconnect, coordinatorVars, appVars, netVars, boundVars
<1>2. Wire(offers, netCA') /\ Wire(offers, netAC')
  BY WirePrefix DEF IInv, MessagesOK, Disconnect
<1>3. netCA' \in Seq(Messages)
  BY <1>2 DEF Wire
<1>4. netAC' \in Seq(Messages)
  BY <1>2 DEF Wire
<1>5. connected' \in BOOLEAN
  BY DEF IInv, TypeOK, Disconnect
<1>6. disconnects' \in Nat
  BY DEF IInv, TypeOK, Disconnect
<1>7. TypeOK'
  BY <1>1, <1>3, <1>4, <1>5, <1>6 DEF IInv, TypeOK
<1>8. MessagesOK'
  BY <1>1, <1>2 DEF IInv, MessagesOK
<1>9. TasksOK' /\ OffersOK' /\ TradesOK'
  BY <1>1 DEF IInv, TasksOK, OffersOK, TradesOK
<1> QED BY <1>7, <1>8, <1>9 DEF IInv

\* on_connect preserves the invariant.
LEMMA ConnectAndResendOK ==
    ASSUME IInv, ConnectAndResend
    PROVE  IInv'
<1>1. /\ UNCHANGED <<orderC, task, offers, chanC, protocols, positions, trades>>
      /\ UNCHANGED <<processedC, lastOutC, inC, orderA, chanA, posA, processedA>>
      /\ UNCHANGED <<lastOutA, inA, posting, tradeErrors, time, clock, disconnects>>
      /\ UNCHANGED <<crashes>>
  BY DEF ConnectAndResend, coordinatorVars, appVars, netVars, boundVars
<1>2. Wire(offers, netCA') /\ Wire(offers, netAC')
  BY WireResend DEF IInv, MessagesOK, ConnectAndResend
<1>3. netCA' \in Seq(Messages)
  BY <1>2 DEF Wire
<1>4. netAC' \in Seq(Messages)
  BY <1>2 DEF Wire
<1>5. connected' \in BOOLEAN
  BY DEF IInv, TypeOK, ConnectAndResend
<1>6. matchCheck' \in BOOLEAN
  BY DEF IInv, TypeOK, ConnectAndResend
<1>7. TypeOK'
  BY <1>1, <1>3, <1>4, <1>5, <1>6 DEF IInv, TypeOK
<1>8. MessagesOK'
  BY <1>1, <1>2 DEF IInv, MessagesOK
<1>9. TasksOK' /\ OffersOK' /\ TradesOK'
  BY <1>1 DEF IInv, TasksOK, OffersOK, TradesOK
<1> QED BY <1>7, <1>8, <1>9 DEF IInv

\* on_connect with an unanswered offer preserves the invariant.
LEMMA ConnectAndRejectOK ==
    ASSUME IInv, ConnectAndReject
    PROVE  IInv'
<1>1. /\ UNCHANGED <<orderC, task, offers, chanC, protocols, positions, trades>>
      /\ UNCHANGED <<processedC, lastOutC, inC, processedA, inA, posting, tradeErrors>>
      /\ UNCHANGED <<time, disconnects, crashes>>
  BY DEF ConnectAndReject, coordinatorVars, appVars, netVars, boundVars
<1>2. chanA.ref \in Protocols /\ offers[chanA.ref].kind \in Kinds
  BY DEF IInv, MessagesOK, ConnectAndReject, Offering
<1>3. Belongs(offers, lastOutA') /\ clock' \in Nat
  <2>1. PICK s \in Nat : /\ clock' = s
                        /\ lastOutA' = [type |-> "Reject", pid |-> chanA.ref, ts |-> s]
    BY DEF IInv, TypeOK, ConnectAndReject
  <2> QED BY <1>2, <2>1, RejectBelongs DEF IInv, TypeOK
<1>4. Wire(offers, netCA') /\ Wire(offers, netAC')
  <2>1. Wire(offers, netCA')
    BY WireResend DEF IInv, MessagesOK, ConnectAndReject
  <2>2. Wire(offers, Resend(netAC, lastOutA)) /\ Wire(offers, netAC)
    BY WireResend DEF IInv, MessagesOK
  <2>3. lastOutA' # NoMessage
    BY <1>3, KindsOfMessages DEF IInv, TypeOK
  <2>4. netAC' = Resend(IF chanA.state = "Offered" THEN Resend(netAC, lastOutA) ELSE netAC,
                        lastOutA')
    BY <2>3 DEF ConnectAndReject, Resend
  <2> QED BY <1>3, <2>1, <2>2, <2>4, WireResend DEF Slot
<1>5. chanA' \in Channels
  BY DEF IInv, TypeOK, ConnectAndReject, RollBack, Channels
<1>6. orderA' \in [Orders -> AppOrderStates]
  BY OrderFailedTyped DEF IInv, ConnectAndReject
<1>7. posA' \in PositionRows
  BY DEF IInv, TypeOK, ConnectAndReject, order_failed, PositionRows, PositionStates,
         PosAInState
<1>8. clock' \in Nat
  BY <1>3
<1>9. lastOutA' \in MaybeMessage
  BY <1>3 DEF Belongs, MaybeMessage
<1>10. netCA' \in Seq(Messages)
  BY <1>4 DEF Wire
<1>11. netAC' \in Seq(Messages)
  BY <1>4 DEF Wire
<1>12. connected' \in BOOLEAN
  BY DEF IInv, TypeOK, ConnectAndReject
<1>13. matchCheck' \in BOOLEAN
  BY DEF IInv, TypeOK, ConnectAndReject
<1>14. TypeOK'
  BY <1>1, <1>5, <1>6, <1>7, <1>8, <1>9, <1>10, <1>11, <1>12,
     <1>13 DEF IInv, TypeOK
<1>15. MessagesOK'
  <2>1. chanA'.ref = chanA.ref
    BY DEF IInv, TypeOK, Channels, ConnectAndReject, RollBack
  <2> QED BY <1>1, <1>2, <1>3, <1>4, <2>1 DEF IInv, MessagesOK, Slot
<1>16. TasksOK' /\ OffersOK' /\ TradesOK'
  BY <1>1 DEF IInv, TasksOK, OffersOK, TradesOK
<1> QED BY <1>14, <1>15, <1>16 DEF IInv

\* A restart of the coordinator preserves the invariant.
LEMMA CrashCOK ==
    ASSUME IInv, CrashC
    PROVE  IInv'
<1>1. /\ UNCHANGED <<orderC, offers, chanC, protocols, positions, trades, lastOutC>>
      /\ UNCHANGED <<orderA, chanA, posA, processedA, lastOutA, inA, posting>>
      /\ UNCHANGED <<time, clock>>
  BY DEF CrashC, coordinatorVars, appVars, netVars, boundVars
<1>2. Wire(offers, netCA') /\ Wire(offers, netAC')
  BY WirePrefix, WireEmpty DEF IInv, MessagesOK, CrashC
<1>3. \/ processedC' = processedC
      \/ processedC' = processedC \union ({inC} \ {NoMessage})
  BY DEF CrashC
<1>4. task' \in [Protocols -> Tasks]
  BY IdleTask DEF CrashC
<1>5. processedC' \in SUBSET Messages
  BY <1>3 DEF IInv, TypeOK, MaybeMessage
<1>6. inC' \in MaybeMessage
  BY DEF CrashC, MaybeMessage
<1>7. matchCheck' \in BOOLEAN
  BY DEF IInv, TypeOK, CrashC
<1>8. netCA' \in Seq(Messages)
  BY <1>2 DEF Wire
<1>9. netAC' \in Seq(Messages)
  BY <1>2 DEF Wire
<1>10. tradeErrors' \in SUBSET Orders
  BY DEF IInv, TypeOK, CrashC
<1>11. connected' \in BOOLEAN
  BY DEF IInv, TypeOK, CrashC
<1>12. crashes' \in Nat /\ disconnects' \in Nat
  BY DEF IInv, TypeOK, CrashC
<1>13. TypeOK'
  BY <1>1, <1>4, <1>5, <1>6, <1>7, <1>8, <1>9, <1>10, <1>11,
     <1>12 DEF IInv, TypeOK
<1>14. TasksOK'
  BY <1>1 DEF TasksOK, CrashC, Idle
<1>15. MessagesOK'
  BY <1>1, <1>2 DEF IInv, MessagesOK, Slot, CrashC
<1>16. TradesOK'
  <2>1. NoMessage \notin Messages
    BY ProtocolsAssumption DEF NoMessage, Messages
  <2>2. inC' = NoMessage /\ processedC' \in SUBSET Messages
    BY <1>5 DEF CrashC
  <2>3. \A q : Finished(offers, processedC, q) => Finished(offers, processedC', q)
    BY <1>3 DEF Finished
  <2> QED BY <1>1, <2>1, <2>2, <2>3 DEF IInv, TradesOK
<1>17. OffersOK'
  BY <1>1 DEF IInv, OffersOK
<1> QED BY <1>13, <1>14, <1>15, <1>16, <1>17 DEF IInv

\* A restart of the app preserves the invariant.
LEMMA CrashAOK ==
    ASSUME IInv, CrashA
    PROVE  IInv'
<1>1. /\ UNCHANGED <<orderC, task, offers, chanC, protocols, positions, trades>>
      /\ UNCHANGED <<processedC, lastOutC, inC, matchCheck, orderA, chanA, posA>>
      /\ UNCHANGED <<lastOutA, time, clock>>
  BY DEF CrashA, coordinatorVars, appVars, netVars, boundVars
<1>2. Wire(offers, netCA') /\ Wire(offers, netAC')
  BY WirePrefix, WireEmpty DEF IInv, MessagesOK, CrashA
<1>3. \/ processedA' = processedA
      \/ processedA' = processedA \union ({inA} \ {NoMessage})
  BY DEF CrashA
<1>4. processedA' \in SUBSET Messages
  BY <1>3 DEF IInv, TypeOK, MaybeMessage
<1>5. inA' \in MaybeMessage
  BY DEF CrashA, MaybeMessage
<1>6. posting' \in SUBSET TraderOrders
  BY DEF IInv, TypeOK, CrashA
<1>7. netCA' \in Seq(Messages)
  BY <1>2 DEF Wire
<1>8. netAC' \in Seq(Messages)
  BY <1>2 DEF Wire
<1>9. tradeErrors' \in SUBSET Orders
  BY DEF IInv, TypeOK, CrashA
<1>10. connected' \in BOOLEAN
  BY DEF IInv, TypeOK, CrashA
<1>11. crashes' \in Nat /\ disconnects' \in Nat
  BY DEF IInv, TypeOK, CrashA
<1>12. TypeOK'
  BY <1>1, <1>4, <1>5, <1>6, <1>7, <1>8, <1>9, <1>10, <1>11 DEF IInv, TypeOK
<1>13. MessagesOK'
  BY <1>1, <1>2 DEF IInv, MessagesOK, Slot, CrashA
<1>14. TasksOK' /\ OffersOK' /\ TradesOK'
  BY <1>1 DEF IInv, TasksOK, OffersOK, TradesOK
<1> QED BY <1>12, <1>13, <1>14 DEF IInv

\* Time preserves the invariant.
LEMMA TickOK ==
    ASSUME IInv, Tick
    PROVE  IInv'
<1>1. /\ UNCHANGED <<orderC, task, offers, chanC, protocols, positions, trades>>
      /\ UNCHANGED <<processedC, lastOutC, inC, matchCheck, orderA, chanA, posA>>
      /\ UNCHANGED <<processedA, lastOutA, inA, posting, netCA, netAC, tradeErrors>>
      /\ UNCHANGED <<connected, clock, disconnects, crashes>>
  BY DEF Tick, coordinatorVars, appVars, netVars, boundVars
<1>2. time' \in Nat
  BY DEF IInv, TypeOK, Tick
<1>3. TypeOK'
  BY <1>1, <1>2 DEF IInv, TypeOK
<1>4. TasksOK' /\ OffersOK' /\ MessagesOK' /\ TradesOK'
  BY <1>1 DEF IInv, TasksOK, OffersOK, MessagesOK, TradesOK
<1> QED BY <1>3, <1>4 DEF IInv

-----------------------------------------------------------------------------
(* The theorems *)

\* The invariant holds initially.
LEMMA InitOK ==
    ASSUME Init
    PROVE  IInv
<1>1. TypeOK
  <2>1. /\ orderC \in [Orders -> OrderRows] /\ orderA \in [Orders -> AppOrderStates]
        /\ protocols \in [Protocols -> ProtocolStates] /\ trades \in [Protocols -> Nat]
    BY DEF Init, OrderRows, OrderStates, AppOrderStates, ProtocolStates
  <2>2. task \in [Protocols -> Tasks] /\ offers \in [Protocols -> Offers]
    BY IdleTask DEF Init, Offers, NoOffer
  <2>3. chanC \in Channels /\ chanA \in Channels
    BY DEF Init, Channels, ChannelStates, InChannel
  <2>4. positions \in [Positions -> PositionRows] /\ posA \in PositionRows
    BY DEF Init, PositionRows, PositionStates
  <2>5. {lastOutC, inC, lastOutA, inA} \subseteq MaybeMessage
    BY DEF Init, MaybeMessage
  <2>6. netCA \in Seq(Messages) /\ netAC \in Seq(Messages)
    BY DEF Init
  <2>7. /\ processedC \subseteq Messages /\ processedA \subseteq Messages
        /\ tradeErrors \subseteq Orders /\ posting \subseteq TraderOrders
        /\ {time, clock, disconnects, crashes} \subseteq Nat
    BY DEF Init
  <2>8. matchCheck \in BOOLEAN /\ connected \in BOOLEAN
    BY DEF Init
  <2> QED BY <2>1, <2>2, <2>3, <2>4, <2>5, <2>6, <2>7, <2>8 DEF TypeOK
<1>2. TasksOK /\ OffersOK
  BY DEF Init, TasksOK, OffersOK, Idle, NoOffer
<1>3. MessagesOK
  BY WireEmpty DEF Init, MessagesOK, Slot, InChannel, Offering
<1>4. TradesOK
  BY DEF Init, TradesOK
<1> QED BY <1>1, <1>2, <1>3, <1>4 DEF IInv

\* Every step preserves the invariant.
LEMMA NextOK ==
    ASSUME IInv, [Next]_vars
    PROVE  IInv'
<1>1. CASE UNCHANGED vars
  <2>1. /\ UNCHANGED <<orderC, task, offers, chanC, protocols, positions, trades>>
        /\ UNCHANGED <<processedC, lastOutC, inC, matchCheck, orderA, chanA, posA>>
        /\ UNCHANGED <<processedA, lastOutA, inA, posting, netCA, netAC, tradeErrors>>
        /\ UNCHANGED <<connected, time, clock, disconnects, crashes>>
    BY <1>1 DEF vars
  <2> QED BY <2>1 DEF IInv, TypeOK, TasksOK, OffersOK, MessagesOK, TradesOK
<1>2. ASSUME NEW p \in Protocols, NewOrder(p) PROVE IInv'
  BY <1>2, SubmitOrderOK, CloseByCoordinatorOK DEF NewOrder
<1>3. ASSUME NEW p \in Protocols, ProcessOrder(p) PROVE IInv'
  BY <1>3, CheckOrderOK, MatchOrderOK, NoMatchOK, ProcessPendingMatchOK, BeginTradeOK,
     BeginTradeFailsOK, SkipTradeOK DEF ProcessOrder
<1>4. ASSUME NEW p \in Protocols, RunProtocol(p) PROVE IInv'
  BY <1>4, ProposeOK, ProposeFailsOK, ProposeRolloverFailsOK, StartProtocolOK,
     UpdatePositionOK, FinishTaskOK DEF RunProtocol
<1>5. ASSUME NEW p \in Protocols, BeginRollover(p) PROVE IInv'
  BY <1>5, BeginRolloverOK
<1>6. ASSUME NEW o \in TraderOrders, SubmitInVain(o) \/ OrderPosted(o) \/ OrderNotPosted(o)
       PROVE  IInv'
  BY <1>6, SubmitInVainOK, OrderPostedOK, OrderNotPostedOK
<1>7. ASSUME NEW o \in Orders, GiveUp(o) \/ OnTradeError(o) \/ CheckOpenOrders(o) PROVE IInv'
  BY <1>7, GiveUpOK, OnTradeErrorOK, CheckOpenOrdersOK
<1>8. CASE HandlerC
  BY <1>8, SkipCOK, ReceiveCOK, RefuseCOK, CompleteCOK, CompleteCFailsOK, CompleteRejectOK
     DEF HandlerC
<1>9. CASE HandlerA
  BY <1>9, SkipAOK, ReceiveAOK, ForceRejectOfferOK, RefuseAOK, AcceptOfferOK, RejectOfferOK,
     AcceptUnansweredOK, StaleOfferOK, CompleteOpenAOK, CompleteRolloverAOK, CompleteSettleAOK,
     CompleteRenewConfirmAOK DEF HandlerA
<1>10. CASE Connect
  BY <1>10, ConnectAndResendOK, ConnectAndRejectOK DEF Connect
<1>11. CASE Disconnect \/ CrashC \/ CrashA \/ Tick \/ SubmitRefused
  BY <1>11, DisconnectOK, CrashCOK, CrashAOK, TickOK, SubmitRefusedOK
<1> QED BY <1>1, <1>2, <1>3, <1>4, <1>5, <1>6, <1>7, <1>8, <1>9, <1>10,
     <1>11 DEF Next

\* The inductive invariant holds in every reachable state.
THEOREM Invariance == Spec => []IInv
<1>1. Init => IInv
  BY InitOK
<1>2. IInv /\ [Next]_vars => IInv'
  BY NextOK
<1> QED BY <1>1, <1>2, PTL DEF Spec

\* Every variable keeps its type; in particular every TradeError names an order
\* and only messages of real offers are ever on the wire.
THEOREM TypeCorrect == Spec => []TypeOK
<1>1. IInv => TypeOK
  BY DEF IInv
<1> QED BY <1>1, Invariance, PTL

\* finish_dlc_protocol inserts at most one trade for a protocol, for any number
\* of orders, protocols, connection losses and restarts.
THEOREM TradeAtMostOnce == Spec => []TradeOncePerProtocol
<1>1. IInv => TradeOncePerProtocol
  BY DEF IInv, TradesOK, TradeOncePerProtocol
<1> QED BY <1>1, Invariance, PTL

-----------------------------------------------------------------------------
(***************************************************************************)
(* TradeProtocol implements TradeLedger, and ContractsAgree and            *)
(* ClosedOnlyBySettlement hold: RInv and CInv, beside IInv.                *)
(***************************************************************************)

(* Queues *)

\* Taking the head of a queue.
LEMMA QueueHead ==
    ASSUME NEW q \in Seq(Messages), q # <<>>, NEW last
    PROVE  /\ Head(q) \in On(q) /\ Head(q) \in Messages /\ On(Tail(q)) \subseteq On(q)
           /\ Ordered(q, last) => /\ Ordered(Tail(q), last)
                                  /\ \A n \in On(Tail(q)) \union {last} : Last(Head(q), n)
<1>1. /\ Tail(q) \in Seq(Messages) /\ Len(Tail(q)) = Len(q) - 1 /\ Len(q) \in Nat /\ Len(q) > 0
      /\ Head(q) = q[1] /\ 1 \in 1 .. Len(q) /\ Head(q) \in Messages
  OBVIOUS
<1>2. \A k \in 1 .. Len(Tail(q)) : Tail(q)[k] = q[k + 1] /\ k + 1 \in 1 .. Len(q) /\ 1 < k + 1
  BY <1>1
<1>3. Head(q) \in On(q) /\ On(Tail(q)) \subseteq On(q)
  BY <1>1, <1>2 DEF On
<1>4. ASSUME Ordered(q, last) PROVE Ordered(Tail(q), last)
  <2>1. \A k, l \in 1 .. Len(Tail(q)) : k < l => k + 1 < l + 1
    BY <1>1
  <2> QED BY <1>2, <1>4, <2>1 DEF Ordered
<1>5. ASSUME Ordered(q, last) PROVE \A n \in On(Tail(q)) \union {last} : Last(Head(q), n)
  BY <1>1, <1>2, <1>5 DEF Ordered, On
<1> QED BY <1>1, <1>3, <1>4, <1>5

\* Adding a message to a queue.
LEMMA QueueAppend ==
    ASSUME NEW q \in Seq(Messages), NEW m \in Messages
    PROVE  /\ On(Append(q, m)) = On(q) \union {m}
           /\ Ordered(q, m) => Ordered(Append(q, m), m)
<1>1. Append(q, m) \in Seq(Messages) /\ Len(Append(q, m)) = Len(q) + 1 /\ Len(q) \in Nat
  OBVIOUS
<1>2. \A k \in 1 .. Len(q) + 1 : Append(q, m)[k] = IF k = Len(q) + 1 THEN m ELSE q[k]
  OBVIOUS
<1>3. /\ 1 .. Len(q) + 1 = (1 .. Len(q)) \union {Len(q) + 1}
      /\ \A k \in 1 .. Len(q) : k # Len(q) + 1
  BY <1>1
<1>4. \A k, l \in 1 .. Len(q) + 1 : k < l => k \in 1 .. Len(q)
  BY <1>1
<1>5. On(Append(q, m)) = On(q) \union {m}
  BY <1>1, <1>2, <1>3 DEF On
<1>6. ASSUME Ordered(q, m) PROVE Ordered(Append(q, m), m)
  <2>1. Last(m, m)
    BY DEF Last
  <2> QED BY <1>1, <1>2, <1>3, <1>4, <1>6, <2>1 DEF Ordered
<1> QED BY <1>5, <1>6

\* Resending the last message.
LEMMA QueueResend ==
    ASSUME NEW q \in Seq(Messages), NEW m \in MaybeMessage, Ordered(q, m)
    PROVE  On(Resend(q, m)) \subseteq On(q) \union {m} /\ Ordered(Resend(q, m), m)
BY QueueAppend DEF Resend, MaybeMessage

\* What a lost connection leaves of a queue.
LEMMA QueuePrefix ==
    ASSUME NEW q \in Seq(Messages), NEW r \in Prefixes(q), NEW last
    PROVE  On(r) \subseteq On(q) /\ (Ordered(q, last) => Ordered(r, last))
<1>1. PICK n \in 0 .. Len(q) : r = SubSeq(q, 1, n)
  BY DEF Prefixes
<1>2. r \in Seq(Messages) /\ Len(r) = n /\ Len(q) \in Nat
  BY <1>1
<1>3. \A k \in 1 .. n : r[k] = q[k] /\ k \in 1 .. Len(q)
  BY <1>1, <1>2
<1> QED BY <1>2, <1>3 DEF On, Ordered

\* A queue that was lost.
LEMMA QueueEmpty ==
    ASSUME NEW last
    PROVE  On(<<>>) = {} /\ Ordered(<<>>, last)
BY DEF On, Ordered

-----------------------------------------------------------------------------
(* Messages *)

\* No message is none of the messages that matter.
LEMMA Nothing ==
    /\ NoMessage \notin Messages /\ NoMessage.type \notin Finishing
    /\ NoMessage.type = "None" /\ NoMessage.pid = NoProtocol /\ NoMessage.pid \notin Protocols
BY ProtocolsAssumption DEF NoMessage, Messages, Finishing

\* Of the messages of a protocol, one is the offer.
LEMMA OneOffer ==
    ASSUME NEW off \in [Protocols -> Offers], NEW m, NEW n, Belongs(off, m), Belongs(off, n),
           m.pid = n.pid, m.type \in OfferTypes, n.type \in OfferTypes
    PROVE  m = n
<1>1. m.type = n.type
  BY DEF Belongs, Messages, TypesOf, OfferTypes, RenewKinds
<1>2. m.ts = 0 /\ n.ts = 0
  BY DEF Belongs, OfferTypes
<1> QED BY <1>1, <1>2 DEF Belongs, Messages

\* The app knows the offers it has processed, and no offer is forgotten.
LEMMA StillOpened ==
    ASSUME NEW p, Opened(offers, processedA, p), processedA \subseteq processedA', UNCHANGED offers
    PROVE  Opened(offers', processedA', p)
BY DEF Opened

\* The messages that belong to a protocol, wherever they are.
LEMMA AllBelong ==
    ASSUME IInv, RInv
    PROVE  \A m \in Arrived \union Coming : m = NoMessage \/ Belongs(offers, m)
BY DEF IInv, RInv, MessagesOK, RejectsOK, Arrived, Coming, On, Slot, Wire

-----------------------------------------------------------------------------
(* What the steps of one side leave alone *)

\* Outcomes that are not written.
LEMMA RecordsKept ==
    ASSUME RecordsOK, UNCHANGED <<offers, protocols>>, processedC \subseteq processedC',
           \A p \in Protocols : task'[p].pc = "start" => task[p].pc = "start"
    PROVE  RecordsOK'
BY DEF RecordsOK, Finished

\* The channel of the coordinator does not move.
LEMMA RejectsKept ==
    ASSUME IInv, RejectsOK, UNCHANGED <<offers, chanC>>, inC' = inC \/ inC' = NoMessage,
           processedC' \subseteq processedC \union ({inC} \ {NoMessage})
    PROVE  RejectsOK'
<1>1. \A m \in processedC' : Belongs(offers, m)
  BY DEF RejectsOK, IInv, MessagesOK, Slot
<1>2. Arrived' \subseteq Arrived \union {NoMessage}
  BY DEF Arrived
<1>3. inC'.type \in Finishing => inC' = inC
  BY Nothing
<1>4. NoMessage.type # "Reject"
  BY Nothing
<1> QED BY <1>1, <1>2, <1>3, <1>4 DEF RejectsOK

\* The app does not move, and messages are only lost or handled.
LEMMA AnswersKept ==
    ASSUME AnswersOK, UNCHANGED <<offers, chanA, processedA, inA>>,
           Arrived' \union Coming' \subseteq Arrived \union Coming \union {NoMessage}
    PROVE  AnswersOK'
<1>1. \A p : Opened(offers', processedA', p) = Opened(offers, processedA, p)
  BY DEF Opened
<1>2. NoMessage.type = "None"
  BY Nothing
<1> QED BY <1>1, <1>2 DEF AnswersOK

\* Messages are lost or handled.
LEMMA OrderKept ==
    ASSUME IInv, RInv, UNCHANGED lastOutA, Ordered(netAC', lastOutA), On(netAC') \subseteq On(netAC),
           inC' = inC \/ inC' = NoMessage, processedC \subseteq processedC',
           processedC' \subseteq processedC \union ({inC} \ {NoMessage}),
           inC' = inC => processedC' = processedC
    PROVE  OrderOK' /\ Arrived' \subseteq Arrived \union {NoMessage} /\ Coming' \subseteq Coming
<1>1. Arrived' \subseteq Arrived \union {NoMessage} /\ Coming' \subseteq Coming
  BY DEF Arrived, Coming
<1>2. \A n : Last(NoMessage, n)
  BY Nothing DEF Last
<1>3. \A m \in processedC' : m.type \in Finishing => inC'.pid # m.pid
  <2>1. CASE inC' = inC
    BY <2>1 DEF RInv, OrderOK
  <2>2. CASE inC' = NoMessage
    <3>1. \A m \in processedC' : m \in Messages
      BY DEF IInv, TypeOK, MaybeMessage
    <3> QED BY <2>2, <3>1, Nothing DEF Messages
  <2> QED BY <2>1, <2>2
<1> QED BY <1>1, <1>2, <1>3 DEF RInv, OrderOK

\* Steps that change nothing but tasks, orders, positions and the messages to the app.
LEMMA Aside ==
    ASSUME IInv, RInv,
           UNCHANGED <<offers, protocols, chanC, processedC, inC, chanA, processedA>>,
           UNCHANGED <<lastOutA, inA, netAC>>,
           \A p \in Protocols : task'[p].pc = "start" => task[p].pc = "start"
    PROVE  RInv'
<1>1. RecordsOK' /\ RejectsOK'
  BY RecordsKept, RejectsKept DEF RInv
<1>2. OrderOK' /\ Arrived' \subseteq Arrived \union {NoMessage} /\ Coming' \subseteq Coming
  BY OrderKept DEF RInv, OrderOK
<1>3. AnswersOK'
  BY <1>2, AnswersKept DEF RInv
<1> QED BY <1>1, <1>2, <1>3 DEF RInv

-----------------------------------------------------------------------------
(* Orders, tasks and the app's own tables *)

\* Processing an order: no protocol is recorded yet.
LEMMA OrdersR ==
    ASSUME IInv, RInv, NEW p \in Protocols, NewOrder(p) \/ ProcessOrder(p) \/ BeginRollover(p)
    PROVE  RInv'
<1> USE DEF coordinatorVars, appVars, netVars, boundVars
<1>1. /\ UNCHANGED <<offers, protocols, chanC, processedC, inC, chanA, processedA>>
      /\ UNCHANGED <<lastOutA, inA, netAC>>
  <2>1. CASE NewOrder(p)
    BY <2>1 DEF NewOrder, SubmitOrder, CloseByCoordinator, PostOrder
  <2>2. CASE ProcessOrder(p)
    BY <2>2 DEF ProcessOrder, CheckOrder, MatchOrder, NoMatch, ProcessPendingMatch, BeginTrade,
       BeginTradeFails, SkipTrade, FailTrade
  <2>3. CASE BeginRollover(p)
    BY <2>3 DEF BeginRollover
  <2> QED BY <2>1, <2>2, <2>3
<1>2. task \in [Protocols -> Tasks]
  BY DEF IInv, TypeOK
<1>3. \/ task'[p].pc # "start" /\ \A r \in Protocols : r # p => task'[r] = task[r]
      \/ task' = task
  <2>1. CASE NewOrder(p)
    <3>1. PICK o, c : PostOrder(o, p, c)
      BY <2>1 DEF NewOrder, SubmitOrder, CloseByCoordinator
    <3> QED BY <1>2, <3>1 DEF PostOrder, Idle
  <2>2. CASE ProcessOrder(p)
    <3>1. CASE CheckOrder(p) \/ MatchOrder(p) \/ NoMatch(p)
      BY <1>2, <3>1 DEF CheckOrder, MatchOrder, NoMatch, Idle, Tasks
    <3>2. CASE ProcessPendingMatch(p)
      BY <1>2, <3>2 DEF ProcessPendingMatch, Idle
    <3>3. CASE BeginTrade(p)
      BY <1>2, <3>3 DEF BeginTrade, Tasks
    <3>4. CASE BeginTradeFails(p) \/ SkipTrade(p)
      BY <1>2, <3>4 DEF BeginTradeFails, SkipTrade, FailTrade, Idle
    <3> QED BY <2>2, <3>1, <3>2, <3>3, <3>4 DEF ProcessOrder
  <2>3. CASE BeginRollover(p)
    BY <1>2, <2>3 DEF BeginRollover
  <2> QED BY <2>1, <2>2, <2>3
<1>4. \A r \in Protocols : task'[r].pc = "start" => task[r].pc = "start"
  BY <1>2, <1>3
<1> QED BY <1>1, <1>4, Aside

\* Running a task, but for its offer and its record.
LEMMA TasksR ==
    ASSUME IInv, RInv, NEW p \in Protocols,
           ProposeFails(p) \/ ProposeRolloverFails(p) \/ UpdatePosition(p) \/ FinishTask(p)
    PROVE  RInv'
<1> USE DEF coordinatorVars, appVars, netVars, boundVars
<1>1. /\ UNCHANGED <<offers, protocols, chanC, processedC, inC, chanA, processedA>>
      /\ UNCHANGED <<lastOutA, inA, netAC>>
  BY DEF ProposeFails, ProposeRolloverFails, UpdatePosition, FinishTask, FailTrade
<1>2. task \in [Protocols -> Tasks]
  BY DEF IInv, TypeOK
<1>3. task'[p].pc # "start" /\ \A r \in Protocols : r # p => task'[r] = task[r]
  <2>1. CASE ProposeFails(p) \/ ProposeRolloverFails(p) \/ FinishTask(p)
    BY <1>2, <2>1 DEF ProposeFails, ProposeRolloverFails, FinishTask, FailTrade, Idle
  <2>2. CASE UpdatePosition(p)
    BY <1>2, <2>2 DEF UpdatePosition, Idle, Tasks
  <2> QED BY <2>1, <2>2
<1>4. \A r \in Protocols : task'[r].pc = "start" => task[r].pc = "start"
  BY <1>2, <1>3
<1> QED BY <1>1, <1>4, Aside

\* The trader's orders, errors, time, and messages the app drops.
LEMMA OtherR ==
    ASSUME IInv, RInv,
           \/ \E o \in TraderOrders : SubmitInVain(o) \/ OrderPosted(o) \/ OrderNotPosted(o)
           \/ SubmitRefused
           \/ \E o \in Orders : GiveUp(o) \/ OnTradeError(o) \/ CheckOpenOrders(o)
           \/ SkipA \/ RefuseA \/ Tick
    PROVE  RInv'
<1>1. /\ UNCHANGED <<offers, protocols, chanC, processedC, inC, chanA, processedA>>
      /\ UNCHANGED <<lastOutA, inA, netAC, task>>
  BY DEF SubmitInVain, OrderPosted, OrderNotPosted, SubmitRefused, GiveUp, OnTradeError,
     CheckOpenOrders, SkipA, RefuseA, Tick, coordinatorVars, appVars, netVars, boundVars
<1> QED BY <1>1, Aside

-----------------------------------------------------------------------------
(* The coordinator *)

\* The offer of a protocol: its identifier is new.
LEMMA ProposeR ==
    ASSUME IInv, RInv, NEW p \in Protocols, Propose(p)
    PROVE  RInv'
<1>0. /\ task \in [Protocols -> Tasks] /\ offers \in [Protocols -> Offers] /\ chanC \in Channels
      /\ RecordsOK /\ RejectsOK /\ AnswersOK /\ OrderOK
  BY DEF IInv, TypeOK, RInv
<1>1. /\ UNCHANGED <<protocols, processedC, inC, chanA, processedA>>
      /\ UNCHANGED <<lastOutA, inA, netAC>>
      /\ chanC' = OfferedChannel(p, task[p].kind) /\ CanOffer(task[p].kind)
  BY DEF Propose, appVars, netVars
<1>2. /\ offers[p] = NoOffer /\ task[p].kind \in Kinds
  BY DEF IInv, TasksOK, Propose
<1>3. PICK x \in Offers : offers' = [offers EXCEPT ![p] = x] /\ x.kind = task[p].kind
  <2>1. [kind |-> task[p].kind, order |-> task[p].order, size |-> task[p].size,
         expiry |-> task[p].expiry] \in Offers
    BY <1>0 DEF Tasks, Offers
  <2> QED BY <2>1 DEF Propose
<1>4. /\ \A r \in Protocols : r # p => offers'[r] = offers[r]
      /\ offers'[p] # NoOffer
  BY <1>0, <1>2, <1>3 DEF NoOffer, Kinds, OpenKinds
<1>5. \A m : Belongs(offers, m) => Belongs(offers', m)
  BY <1>0, <1>2, <1>3, NewOffer
<1>6. \A m : Belongs(offers, m) => m.pid # p
  BY <1>0, <1>2, KindsOfMessages DEF NoOffer, Kinds, OpenKinds
<1>7. RecordsOK'
  <2>1. \A r \in Protocols : task'[r].pc = "start" => r = p \/ task[r].pc = "start"
    BY <1>0 DEF Propose
  <2>2. protocols[p] = "None"
    BY <1>0, <1>2 DEF RecordsOK
  <2>3. \A r : Finished(offers, processedC, r) => Finished(offers', processedC, r)
    BY <1>5 DEF Finished
  <2> QED BY <1>0, <1>1, <1>4, <2>1, <2>2, <2>3 DEF RecordsOK
<1>8. \A m \in Arrived : m.pid # p /\ (m = NoMessage \/ Belongs(offers, m))
  BY <1>6, AllBelong, Nothing
<1>9. chanC'.ref = p /\ chanC'.back \notin Awaiting
  BY <1>0, <1>1, <1>2 DEF OfferedChannel, CanOffer, InChannel, Awaiting, Kinds, OpenKinds
<1>10. RejectsOK'
  <2>1. Arrived' = Arrived
    BY <1>1 DEF Arrived
  <2> QED BY <1>0, <1>1, <1>5, <1>8, <1>9, <2>1 DEF RejectsOK
<1>11. Arrived' = Arrived /\ Coming' = Coming
  BY <1>1 DEF Arrived, Coming
<1>12. \A r : Opened(offers, processedA, r) => Opened(offers', processedA', r)
  BY <1>1, <1>5 DEF Opened
<1>13. AnswersOK'
  BY <1>0, <1>1, <1>11, <1>12 DEF AnswersOK
<1>14. OrderOK'
  BY <1>0, <1>1, <1>11 DEF OrderOK
<1> QED BY <1>7, <1>10, <1>13, <1>14 DEF RInv

\* The record of a protocol.
LEMMA StartR ==
    ASSUME IInv, RInv, NEW p \in Protocols, StartProtocol(p)
    PROVE  RInv'
<1>0. /\ task \in [Protocols -> Tasks] /\ protocols \in [Protocols -> ProtocolStates]
      /\ RecordsOK /\ RejectsOK /\ AnswersOK /\ OrderOK
  BY DEF IInv, TypeOK, RInv
<1>1. /\ UNCHANGED <<offers, chanC, processedC, inC, chanA, processedA>>
      /\ UNCHANGED <<lastOutA, inA, netAC>>
      /\ task[p].pc = "start"
      /\ protocols' = [protocols EXCEPT ![p] = "Pending"]
      /\ task' = [task EXCEPT ![p].pc = "position"]
  BY DEF StartProtocol, appVars, netVars
<1>2. task'[p].pc # "start" /\ \A r \in Protocols : r # p => task'[r] = task[r]
  BY <1>0, <1>1 DEF Tasks
<1>3. RecordsOK'
  BY <1>0, <1>1, <1>2 DEF RecordsOK
<1>4. Arrived' = Arrived /\ Coming' = Coming
  BY <1>1 DEF Arrived, Coming
<1>5. \A r : Opened(offers', processedA', r) = Opened(offers, processedA, r)
  BY <1>1 DEF Opened
<1> QED BY <1>0, <1>1, <1>3, <1>4, <1>5 DEF RInv, RejectsOK, AnswersOK, OrderOK

\* A message that is skipped or refused.
LEMMA DroppedR ==
    ASSUME IInv, RInv, SkipC \/ RefuseC
    PROVE  RInv'
<1>0. netAC \in Seq(Messages) /\ protocols \in [Protocols -> ProtocolStates] /\ RInv
  BY DEF IInv, TypeOK
<1>1. /\ UNCHANGED <<offers, chanC, processedC, inC, chanA, processedA, task>>
      /\ UNCHANGED <<lastOutA, inA>>
      /\ netAC # <<>> /\ netAC' = Tail(netAC)
  BY DEF SkipC, RefuseC, coordinatorVars, appVars, netVars, boundVars
<1>2. /\ Ordered(netAC', lastOutA) /\ On(netAC') \subseteq On(netAC)
      /\ Head(netAC) \in Messages
  BY <1>0, <1>1, QueueHead DEF RInv, OrderOK
<1>3. OrderOK' /\ Arrived' \subseteq Arrived \union {NoMessage} /\ Coming' \subseteq Coming
  BY <1>1, <1>2, OrderKept
<1>4. AnswersOK'
  BY <1>1, <1>3, AnswersKept DEF RInv
<1>5. RejectsOK'
  BY <1>1, RejectsKept DEF RInv
<1>6. RecordsOK'
  <2>1. CASE SkipC
    BY <1>1, <2>1, RecordsKept DEF RInv, SkipC, coordinatorVars
  <2>2. CASE RefuseC
    <3>1. /\ \A r \in Protocols : protocols'[r] # "None" => protocols[r] # "None"
          /\ \A r \in Protocols : protocols[r] = "None" => protocols'[r] = "None"
          /\ \A r \in Protocols : protocols'[r] = "Success" => protocols[r] = "Success"
      BY <1>0, <1>2, <2>2 DEF RefuseC, FailMessage, Messages
    <3> QED BY <1>1, <3>1 DEF RInv, RecordsOK
  <2> QED BY <2>1, <2>2
<1> QED BY <1>3, <1>4, <1>5, <1>6 DEF RInv

\* The first half of the handler: rust-dlc takes the message.
LEMMA ReceiveCR ==
    ASSUME IInv, RInv, ReceiveC
    PROVE  RInv'
<1>0. /\ netAC \in Seq(Messages) /\ offers \in [Protocols -> Offers] /\ chanC \in Channels
      /\ RecordsOK /\ RejectsOK /\ AnswersOK /\ OrderOK /\ processedC \subseteq Messages
  BY DEF IInv, TypeOK, RInv
<1>1. /\ UNCHANGED <<offers, protocols, processedC, chanA, processedA, task>>
      /\ UNCHANGED <<lastOutA, inA>>
      /\ inC = NoMessage /\ netAC # <<>> /\ netAC' = Tail(netAC)
  BY DEF ReceiveC, appVars, netVars
<1>2. PICK m \in Messages :
          /\ m = Head(netAC) /\ m \in On(netAC) /\ m \notin processedC
          /\ inC' = m /\ AcceptableC(m)
          /\ chanC' = IF m.type = "Reject" THEN RollBack(chanC)
                      ELSE Advance(chanC, m, Coordinator(m.type))
  BY <1>0, <1>1, QueueHead DEF ReceiveC, AlreadyProcessedC
<1>3. Belongs(offers, m) /\ m.pid \in Protocols
  <2>1. Belongs(offers, m)
    BY <1>1, <1>2, WireHead DEF IInv, MessagesOK
  <2> QED BY <2>1 DEF Belongs, Messages
<1>4. /\ On(netAC') \subseteq On(netAC) /\ Ordered(netAC', lastOutA)
      /\ \A n \in On(netAC') \union {lastOutA} : Last(m, n)
  BY <1>0, <1>1, <1>2, QueueHead DEF OrderOK
<1>5. Arrived' = processedC \union {m} /\ Coming' \subseteq Coming /\ m \in Coming
  BY <1>1, <1>2, <1>4 DEF Arrived, Coming
<1>6. RecordsOK'
  BY <1>0, <1>1, RecordsKept
<1>7. OrderOK'
  <2>1. \A n \in processedC : n.type \in Finishing => m.pid # n.pid
    <3> SUFFICES ASSUME NEW n \in processedC, n.type \in Finishing, m.pid = n.pid PROVE FALSE
      OBVIOUS
    <3>1. Last(n, m) /\ Belongs(offers, n)
      BY <1>0, <1>5 DEF OrderOK, Arrived, RejectsOK
    <3>2. m = n
      BY <1>0, <1>3, <3>1, OneFinishing DEF Last
    <3> QED BY <1>2, <3>2
  <2>2. \A x \in Arrived', n \in Coming' : Last(x, n)
    BY <1>0, <1>1, <1>4, <1>5 DEF OrderOK, Arrived, Coming
  <2> QED BY <1>1, <1>2, <1>4, <2>1, <2>2 DEF OrderOK
<1>8. AnswersOK'
  <2>1. Arrived' \union Coming' \subseteq Arrived \union Coming
    BY <1>5 DEF Arrived
  <2> QED BY <1>0, <1>1, <2>1, AnswersKept
<1>9. RejectsOK'
  <2>1. CASE m.type = "Reject"
    <3>1. chanC.state \in {"Offered", "SettledOffered", "RenewOffered"}
      BY <1>2, <2>1 DEF AcceptableC, ExpectsReject
    <3>2. chanC'.state \notin Awaiting
      BY <1>0, <1>2, <2>1, <3>1 DEF RejectsOK, RollBack, Channels
    <3>3. chanC'.state \notin {"Offered", "SettledOffered", "RenewOffered"}
      BY <3>2 DEF Awaiting
    <3>4. inC'.type \notin Finishing
      BY <1>2, <2>1 DEF Finishing
    <3> QED BY <1>0, <1>1, <3>2, <3>3, <3>4 DEF RejectsOK
  <2>2. CASE m.type # "Reject"
    <3>1. Expects(chanC, m, Coordinator(m.type)) /\ chanC' = Advance(chanC, m, Coordinator(m.type))
      BY <1>2, <2>2 DEF AcceptableC
    <3>2. chanC.ref = m.pid /\ chanC.state \in Awaiting
      BY <1>0, <3>1 DEF Expects, Coordinator, Awaiting, Channels, ChannelStates
    <3>3. chanC'.ref = m.pid
      BY <1>0, <3>1, <3>2 DEF Advance, Channels
    <3>4. chanC'.state \notin {"Offered", "SettledOffered", "RenewOffered"}
      BY <1>0, <3>1 DEF Advance, Channels, Coordinator, Expects
    <3>5. \A x \in Arrived' : x.type = "Reject" => x \in Arrived
      BY <1>5, <2>2 DEF Arrived
    <3> QED BY <1>0, <1>1, <1>2, <3>2, <3>3, <3>4, <3>5 DEF RejectsOK
  <2> QED BY <2>1, <2>2
<1> QED BY <1>6, <1>7, <1>8, <1>9 DEF RInv

\* The second half of the handler.
LEMMA CompleteR ==
    ASSUME IInv, RInv, CompleteC \/ CompleteCFails \/ CompleteReject
    PROVE  RInv'
<1>0. /\ protocols \in [Protocols -> ProtocolStates] /\ offers \in [Protocols -> Offers]
      /\ RecordsOK /\ RejectsOK /\ AnswersOK /\ OrderOK
  BY DEF IInv, TypeOK, RInv
<1>1. /\ UNCHANGED <<offers, chanC, chanA, processedA, task, lastOutA, inA, netAC>>
      /\ inC' = NoMessage /\ processedC' = processedC \union {inC} /\ inC.type \in MessageTypes
  BY DEF CompleteC, CompleteCFails, CompleteReject, appVars, netVars, Finishing, MessageTypes,
     OfferTypes, AcceptTypes
<1>2. inC # NoMessage /\ Belongs(offers, inC) /\ inC.pid \in Protocols
  <2>1. inC # NoMessage
    BY <1>1 DEF NoMessage, MessageTypes, OfferTypes, AcceptTypes
  <2>2. Belongs(offers, inC)
    BY <2>1 DEF IInv, MessagesOK, Slot
  <2> QED BY <2>1, <2>2 DEF Belongs, Messages
<1>3. processedC' \subseteq processedC \union ({inC} \ {NoMessage})
  BY <1>1, <1>2
<1>4. OrderOK' /\ Arrived' \subseteq Arrived \union {NoMessage} /\ Coming' \subseteq Coming
  BY <1>0, <1>1, <1>2, <1>3, OrderKept DEF OrderOK
<1>5. AnswersOK'
  BY <1>0, <1>1, <1>4, AnswersKept
<1>6. RejectsOK'
  BY <1>0, <1>1, <1>3, RejectsKept
<1>7. \A r : Finished(offers, processedC, r) => Finished(offers, processedC', r)
  BY <1>1 DEF Finished
<1>8. CASE protocols' = protocols
  BY <1>0, <1>1, <1>4, <1>5, <1>6, <1>8, RecordsKept DEF RInv
<1>9. CASE protocols' = [protocols EXCEPT ![inC.pid] = "Failed"] /\ protocols[inC.pid] # "None"
  <2>1. RecordsOK'
    BY <1>0, <1>1, <1>2, <1>7, <1>9 DEF RecordsOK
  <2> QED BY <1>4, <1>5, <1>6, <2>1 DEF RInv
<1>10. CASE CompleteC /\ inC.type \in Finishing
  <2>1. protocols' = [protocols EXCEPT ![inC.pid] = "Success"] /\ protocols[inC.pid] # "None"
    BY <1>10 DEF CompleteC, finish_dlc_protocol, FinishPossible
  <2>2. Finished(offers, processedC', inC.pid)
    BY <1>1, <1>2, <1>10 DEF Finished
  <2>3. RecordsOK'
    BY <1>0, <1>1, <1>2, <1>7, <2>1, <2>2 DEF RecordsOK
  <2> QED BY <1>4, <1>5, <1>6, <2>3 DEF RInv
<1> QED BY <1>8, <1>9, <1>10 DEF CompleteC, CompleteCFails, CompleteReject, FailMessage

\* A restart of the coordinator.
LEMMA CrashCR ==
    ASSUME IInv, RInv, CrashC
    PROVE  RInv'
<1>0. RecordsOK /\ RejectsOK /\ AnswersOK /\ OrderOK
  BY DEF RInv
<1>1. /\ UNCHANGED <<offers, protocols, chanC, chanA, processedA, lastOutA, inA>>
      /\ inC' = NoMessage /\ netAC' = <<>> /\ processedC \subseteq processedC'
      /\ processedC' \subseteq processedC \union ({inC} \ {NoMessage})
      /\ \A p \in Protocols : task'[p].pc # "start"
  BY DEF CrashC, appVars, Idle
<1>2. On(netAC') = {} /\ Ordered(netAC', lastOutA)
  BY <1>1, QueueEmpty
<1>30. inC' = inC => processedC' = processedC
  BY <1>1
<1>3. OrderOK' /\ Arrived' \subseteq Arrived \union {NoMessage} /\ Coming' \subseteq Coming
  BY <1>0, <1>1, <1>2, <1>30, OrderKept
<1>4. AnswersOK'
  BY <1>0, <1>1, <1>3, AnswersKept
<1>5. RejectsOK'
  BY <1>0, <1>1, RejectsKept
<1>6. RecordsOK'
  BY <1>0, <1>1, RecordsKept
<1> QED BY <1>3, <1>4, <1>5, <1>6 DEF RInv

-----------------------------------------------------------------------------
(* The app *)

\* A step of the app, whatever it sends: the coordinator's side of the invariant.
LEMMA Sends ==
    ASSUME IInv, RInv, UNCHANGED <<offers, protocols, chanC, processedC, inC, task>>,
           Ordered(netAC', lastOutA'), On(netAC') \subseteq Coming \union {lastOutA'},
           \A m \in Arrived : Last(m, lastOutA')
    PROVE  /\ RecordsOK' /\ RejectsOK' /\ OrderOK'
           /\ Arrived' = Arrived /\ Coming' \subseteq Coming \union {lastOutA'}
<1>1. Arrived' = Arrived /\ Coming' \subseteq Coming \union {lastOutA'}
  BY DEF Arrived, Coming
<1>2. RecordsOK'
  BY RecordsKept DEF RInv
<1>3. RejectsOK'
  BY RejectsKept DEF RInv
<1>4. OrderOK'
  BY <1>1 DEF RInv, OrderOK
<1> QED BY <1>1, <1>2, <1>3, <1>4

\* The app's side: what it sends is a rejection, a repetition or the answer to an
\* offer it has processed.
LEMMA Answers ==
    ASSUME RInv, TypeOK', UNCHANGED offers, processedA \subseteq processedA',
           \/ inA' = NoMessage
           \/ inA' = inA /\ processedA' = processedA,
           \/ chanA' = chanA
           \/ /\ chanA'.state \notin Offering
              /\ chanA'.state \in {"SettledAccepted", "RenewAccepted"} => Opened(offers', processedA', chanA'.ref),
           Arrived' = Arrived, Coming' \subseteq Coming \union {lastOutA'},
           \/ lastOutA'.type \in {"None", "Reject"}
           \/ lastOutA' = lastOutA
           \/ Opened(offers', processedA', lastOutA'.pid) /\ chanA'.state \notin Offering
    PROVE  AnswersOK'
<1>1. AnswersOK /\ lastOutA \in Coming
  BY DEF RInv, Coming
<1>2. \A p : Opened(offers, processedA, p) => Opened(offers', processedA', p)
  BY StillOpened
<1>3. inA' \notin processedA'
  BY <1>1, Nothing DEF AnswersOK, TypeOK
<1>4. NoMessage.type \notin OfferTypes
  BY Nothing DEF OfferTypes
<1>5. \A m \in Arrived' \union Coming' : m.type \notin {"None", "Reject"} =>
          /\ Opened(offers', processedA', m.pid)
          /\ ~ (chanA'.state \in Offering /\ chanA'.ref = m.pid)
  <2> SUFFICES ASSUME NEW m \in Arrived' \union Coming', m.type \notin {"None", "Reject"}
               PROVE  /\ Opened(offers', processedA', m.pid)
                      /\ ~ (chanA'.state \in Offering /\ chanA'.ref = m.pid)
    OBVIOUS
  <2>1. CASE m \in Arrived \union Coming
    <3>1. Opened(offers, processedA, m.pid) /\ ~ (chanA.state \in Offering /\ chanA.ref = m.pid)
      BY <1>1, <2>1 DEF AnswersOK
    <3> QED BY <1>2, <3>1
  <2>2. CASE m = lastOutA' /\ m \notin Arrived \union Coming
    BY <1>1, <2>2
  <2> QED BY <2>1, <2>2
<1> QED BY <1>1, <1>2, <1>3, <1>4, <1>5 DEF AnswersOK

\* An offer that was not answered yet: nothing of its protocol finishes it.
LEMMA NotAnswered ==
    ASSUME IInv, RInv, NEW m,
           \/ chanA.state \in Offering /\ chanA.ref = m.pid
           \/ Belongs(offers, m) /\ m.type \in OfferTypes /\ m \notin processedA
    PROVE  \A x \in Arrived \union Coming : \A n : n.pid = m.pid => Last(x, n)
<1>1. offers \in [Protocols -> Offers] /\ AnswersOK
  BY DEF IInv, TypeOK, RInv
<1>2. ASSUME NEW x \in Arrived \union Coming, x.type \in Finishing, x.pid = m.pid PROVE FALSE
  <2>1. Opened(offers, processedA, m.pid) /\ ~ (chanA.state \in Offering /\ chanA.ref = m.pid)
    BY <1>1, <1>2 DEF AnswersOK, Finishing
  <2>2. PICK y \in processedA : Belongs(offers, y) /\ y.pid = m.pid /\ y.type \in OfferTypes
    BY <2>1 DEF Opened
  <2> QED BY <1>1, <2>1, <2>2, OneOffer
<1> QED BY <1>2 DEF Last

\* A message the app sends now, or will when it is connected.
LEMMA SentNow ==
    ASSUME IInv, RInv, NEW n \in MaybeMessage, lastOutA' = n, SendLastA(n),
           \A x \in Arrived \union Coming : Last(x, n)
    PROVE  /\ Ordered(netAC', lastOutA') /\ On(netAC') \subseteq Coming \union {lastOutA'}
           /\ \A m \in Arrived : Last(m, lastOutA')
<1>1. netAC \in Seq(Messages) /\ Ordered(netAC, n)
  BY DEF IInv, TypeOK, RInv, OrderOK, Ordered, Coming, On
<1>2. netAC' = Resend(netAC, n) \/ netAC' = netAC
  BY DEF SendLastA
<1>3. On(Resend(netAC, n)) \subseteq On(netAC) \union {n} /\ Ordered(Resend(netAC, n), n)
  BY <1>1, QueueResend
<1> QED BY <1>1, <1>2, <1>3 DEF Coming

\* The app sends its last message again, or nothing.
LEMMA SentAgain ==
    ASSUME IInv, RInv, lastOutA' = lastOutA, SendLastA(lastOutA) \/ netAC' = netAC
    PROVE  /\ Ordered(netAC', lastOutA') /\ On(netAC') \subseteq Coming \union {lastOutA'}
           /\ \A m \in Arrived : Last(m, lastOutA')
<1>1. /\ netAC \in Seq(Messages) /\ lastOutA \in MaybeMessage /\ Ordered(netAC, lastOutA)
      /\ \A m \in Arrived : Last(m, lastOutA)
  BY DEF IInv, TypeOK, RInv, OrderOK, Coming
<1>2. netAC' = Resend(netAC, lastOutA) \/ netAC' = netAC
  BY DEF SendLastA
<1>3. On(Resend(netAC, lastOutA)) \subseteq On(netAC) \union {lastOutA} /\ Ordered(Resend(netAC, lastOutA), lastOutA)
  BY <1>1, QueueResend
<1> QED BY <1>1, <1>2, <1>3 DEF Coming

\* The handler of the app starts on an offer.
LEMMA ReceiveOfferR ==
    ASSUME IInv, RInv, ReceiveA, Head(netCA).type \in OfferTypes
    PROVE  RInv'
<1>0. AnswersOK /\ offers \in [Protocols -> Offers] /\ chanA \in Channels
  BY DEF IInv, TypeOK, RInv
<1>1. /\ UNCHANGED <<offers, protocols, chanC, processedC, inC, task, processedA, netAC>>
      /\ netCA # <<>>
  BY DEF ReceiveA, coordinatorVars
<1>2. PICK m : /\ m = Head(netCA) /\ Belongs(offers, m) /\ m.type \in OfferTypes /\ m \notin processedA
               /\ CanReceive(m.type) /\ chanA' = ReceivedChannel(m) /\ inA' = m
  BY <1>1, WireHead DEF ReceiveA, IInv, MessagesOK
<1>3. lastOutA' = lastOutA
  BY DEF ReceiveA, App, OfferTypes
<1>4. /\ RecordsOK' /\ RejectsOK' /\ OrderOK'
      /\ Arrived' = Arrived /\ Coming' \subseteq Coming \union {lastOutA'}
  BY <1>1, <1>3, SentAgain, Sends
<1>5. Coming' \subseteq Coming
  BY <1>3, <1>4 DEF Coming
<1>6. /\ chanA'.ref = m.pid /\ chanA'.state \in Offering
      /\ chanA'.back \in {"Cancelled", "Established", "Settled"}
  BY <1>0, <1>2 DEF CanReceive, ReceivedChannel, InChannel, Offering, OfferTypes
<1>7. \A p : Opened(offers', processedA', p) = Opened(offers, processedA, p)
  BY <1>1 DEF Opened
<1>8. ASSUME NEW x \in Arrived \union Coming, x.type \notin {"None", "Reject"}
      PROVE  Opened(offers, processedA, x.pid) /\ x.pid # m.pid
  <2>1. PICK y \in processedA : Belongs(offers, y) /\ y.pid = x.pid /\ y.type \in OfferTypes
    BY <1>0, <1>8 DEF AnswersOK, Opened
  <2> QED BY <1>0, <1>2, <1>8, <2>1, OneOffer DEF AnswersOK
<1>9. AnswersOK'
  <2>1. chanA'.state \notin {"SettledAccepted", "RenewAccepted"}
    BY <1>6 DEF Offering
  <2> QED BY <1>1, <1>2, <1>4, <1>5, <1>6, <1>7, <1>8, <2>1 DEF AnswersOK
<1> QED BY <1>4, <1>9 DEF RInv

\* The handler of the app starts on any other message.
LEMMA ReceiveOtherR ==
    ASSUME IInv, RInv, ReceiveA, Head(netCA).type \notin OfferTypes
    PROVE  RInv'
<1>0. AnswersOK /\ offers \in [Protocols -> Offers] /\ chanA \in Channels /\ TypeOK'
  <2>1. TypeOK'
    BY ReceiveAOK DEF IInv
  <2> QED BY <2>1 DEF IInv, TypeOK, RInv
<1>1. /\ UNCHANGED <<offers, protocols, chanC, processedC, inC, task, processedA, netAC>>
      /\ netCA # <<>>
  BY DEF ReceiveA, coordinatorVars
<1>2. PICK m : /\ m = Head(netCA) /\ Belongs(offers, m) /\ m.type \notin OfferTypes /\ m \notin processedA
               /\ Expects(chanA, m, App(m.type)) /\ chanA' = Advance(chanA, m, App(m.type)) /\ inA' = m
               /\ lastOutA' = IF App(m.type)[3] = "None" THEN lastOutA ELSE Msg(App(m.type)[3], m.pid)
  BY <1>1, WireHead DEF ReceiveA, IInv, MessagesOK
<1>3. /\ chanA'.state \notin Offering \union {"SettledAccepted", "RenewAccepted"}
  BY <1>0, <1>2 DEF Expects, App, Advance, Channels, ChannelStates, Offering
<1>4. \/ lastOutA' = lastOutA
      \/ lastOutA'.type \in Finishing /\ Opened(offers', processedA', lastOutA'.pid)
  <2>1. CASE App(m.type)[3] = "None"
    BY <1>2, <2>1
  <2>2. CASE App(m.type)[3] # "None"
    <3>1. App(m.type)[3] \in Finishing /\ chanA.state \in {"SettledAccepted", "RenewAccepted"} /\ chanA.ref = m.pid
      BY <1>0, <1>2, <2>2 DEF App, Expects, Finishing, Channels, ChannelStates
    <3>2. Opened(offers, processedA, m.pid)
      BY <1>0, <3>1 DEF AnswersOK
    <3>3. Opened(offers', processedA', m.pid)
      BY <1>1, <3>2 DEF Opened
    <3>4. lastOutA'.type = App(m.type)[3] /\ lastOutA'.pid = m.pid
      BY <1>2, <2>2 DEF Msg
    <3> QED BY <3>1, <3>3, <3>4
  <2> QED BY <2>1, <2>2
<1>5. /\ Ordered(netAC', lastOutA') /\ On(netAC') \subseteq Coming \union {lastOutA'}
      /\ \A x \in Arrived : Last(x, lastOutA')
  <2>1. CASE lastOutA' = lastOutA
    BY <1>1, <2>1, SentAgain
  <2>2. CASE lastOutA'.type \in Finishing
    <3>1. \A x : Last(x, lastOutA')
      BY <2>2 DEF Last
    <3> QED BY <1>1, <3>1 DEF RInv, OrderOK, Ordered, Coming
  <2> QED BY <1>4, <2>1, <2>2
<1>6. /\ RecordsOK' /\ RejectsOK' /\ OrderOK'
      /\ Arrived' = Arrived /\ Coming' \subseteq Coming \union {lastOutA'}
  BY <1>1, <1>5, Sends
<1>7. AnswersOK'
  <2>1. inA' \notin processedA'
    BY <1>1, <1>2
  <2>2. \A p : Opened(offers', processedA', p) = Opened(offers, processedA, p)
    BY <1>1 DEF Opened
  <2>3. \A x \in Arrived' \union Coming' : x.type \notin {"None", "Reject"} => Opened(offers', processedA', x.pid)
    <3>1. lastOutA \in Coming
      BY DEF Coming
    <3> QED BY <1>0, <1>4, <1>6, <2>2, <3>1 DEF AnswersOK
  <2> QED BY <1>3, <2>1, <2>3 DEF AnswersOK
<1> QED BY <1>6, <1>7 DEF RInv

\* What the app knows of the offer it is working on.
LEMMA OnOffer ==
    ASSUME IInv, RInv, Pending
    PROVE  /\ Belongs(offers, inA) /\ inA.type \in OfferTypes /\ inA.pid \in Protocols
           /\ chanA.state \in Offering /\ chanA.ref = inA.pid
<1>1. inA.type \in OfferTypes /\ chanA.state = Acceptance(inA.type)[1]
  BY DEF Pending
<1>2. Belongs(offers, inA)
  BY <1>1, Nothing DEF IInv, MessagesOK, Slot, OfferTypes
<1>3. chanA.state \in Offering
  BY <1>1 DEF Acceptance, OfferTypes, Offering
<1> QED BY <1>1, <1>2, <1>3 DEF RInv, AnswersOK, Belongs, Messages

\* The offer is accepted.
LEMMA AcceptOfferR ==
    ASSUME IInv, RInv, AcceptOffer
    PROVE  RInv'
<1>0. TypeOK' /\ offers \in [Protocols -> Offers] /\ chanA \in Channels
  <2>1. TypeOK'
    BY AcceptOfferOK DEF IInv
  <2> QED BY <2>1 DEF IInv, TypeOK
<1>1. /\ UNCHANGED <<offers, protocols, chanC, processedC, inC, task>>
      /\ processedA' = processedA \union {inA} /\ inA' = NoMessage
      /\ chanA' = [chanA EXCEPT !.state = Acceptance(inA.type)[2]]
  BY DEF AcceptOffer, coordinatorVars, DoneA
<1>2. /\ Belongs(offers, inA) /\ inA.type \in OfferTypes /\ inA.pid \in Protocols
      /\ chanA.state \in Offering /\ chanA.ref = inA.pid
  BY OnOffer DEF AcceptOffer
<1>3. PICK n \in MaybeMessage : /\ n.pid = inA.pid /\ lastOutA' = n /\ SendLastA(n)
  <2>1. Belongs(offers, Msg(Acceptance(inA.type)[3], inA.pid))
    BY <1>0, <1>2, AcceptanceReplies
  <2> QED BY <2>1 DEF AcceptOffer, Belongs, MaybeMessage, Msg
<1>4. \A x \in Arrived \union Coming : Last(x, n)
  BY <1>2, <1>3, NotAnswered
<1>5. /\ Ordered(netAC', lastOutA') /\ On(netAC') \subseteq Coming \union {lastOutA'}
      /\ \A m \in Arrived : Last(m, lastOutA')
  BY <1>3, <1>4, SentNow
<1>6. /\ RecordsOK' /\ RejectsOK' /\ OrderOK'
      /\ Arrived' = Arrived /\ Coming' \subseteq Coming \union {lastOutA'}
  BY <1>1, <1>5, Sends
<1>7. Opened(offers', processedA', inA.pid)
  BY <1>1, <1>2 DEF Opened
<1>8. chanA'.state \notin Offering /\ chanA'.ref = inA.pid
  BY <1>0, <1>1, <1>2, AcceptanceReplies DEF Channels
<1>9. AnswersOK'
  BY <1>0, <1>1, <1>3, <1>6, <1>7, <1>8, Answers
<1> QED BY <1>6, <1>9 DEF RInv

\* A rejection that is sent for a protocol that was not answered.
LEMMA Rejects ==
    ASSUME IInv, RInv, NEW p \in Protocols, SendReject(p), TypeOK', NEW m, m.pid = p,
           \/ chanA.state \in Offering /\ chanA.ref = m.pid
           \/ Belongs(offers, m) /\ m.type \in OfferTypes /\ m \notin processedA
    PROVE  /\ Ordered(netAC', lastOutA') /\ On(netAC') \subseteq Coming \union {lastOutA'}
           /\ \A x \in Arrived : Last(x, lastOutA')
           /\ lastOutA'.type = "Reject"
<1>1. PICK n \in MaybeMessage : n.pid = p /\ n.type = "Reject" /\ lastOutA' = n /\ SendLastA(n)
  <2>1. PICK s : /\ lastOutA' = [type |-> "Reject", pid |-> p, ts |-> s]
                 /\ SendLastA([type |-> "Reject", pid |-> p, ts |-> s])
    BY DEF SendReject
  <2>2. lastOutA' \in MaybeMessage
    BY DEF TypeOK
  <2> QED BY <2>1, <2>2
<1>2. \A x \in Arrived \union Coming : Last(x, n)
  BY <1>1, NotAnswered
<1> QED BY <1>1, <1>2, SentNow

\* The offer is rejected.
LEMMA RejectOfferR ==
    ASSUME IInv, RInv, RejectOffer
    PROVE  RInv'
<1>0. TypeOK' /\ offers \in [Protocols -> Offers] /\ chanA \in Channels
  <2>1. TypeOK'
    BY RejectOfferOK DEF IInv
  <2> QED BY <2>1 DEF IInv, TypeOK
<1>1. /\ UNCHANGED <<offers, protocols, chanC, processedC, inC, task>>
      /\ processedA' = processedA \union {inA} /\ inA' = NoMessage
      /\ chanA' = RollBack(chanA) /\ SendReject(inA.pid)
  BY DEF RejectOffer, coordinatorVars, DoneA
<1>2. /\ Belongs(offers, inA) /\ inA.type \in OfferTypes /\ inA.pid \in Protocols
      /\ chanA.state \in Offering /\ chanA.ref = inA.pid
  BY OnOffer DEF RejectOffer
<1>3. /\ Ordered(netAC', lastOutA') /\ On(netAC') \subseteq Coming \union {lastOutA'}
      /\ \A m \in Arrived : Last(m, lastOutA')
      /\ lastOutA'.type = "Reject"
  BY <1>0, <1>1, <1>2, Rejects
<1>4. /\ RecordsOK' /\ RejectsOK' /\ OrderOK'
      /\ Arrived' = Arrived /\ Coming' \subseteq Coming \union {lastOutA'}
  BY <1>1, <1>3, Sends
<1>5. chanA'.state \in {"Cancelled", "Established", "Settled"}
  BY <1>0, <1>1, <1>2 DEF RInv, AnswersOK, RollBack, Channels
<1>6. chanA'.state \notin Offering /\ chanA'.state \notin {"SettledAccepted", "RenewAccepted"}
  BY <1>5 DEF Offering
<1>7. AnswersOK'
  BY <1>0, <1>1, <1>3, <1>4, <1>6, Answers
<1> QED BY <1>4, <1>7 DEF RInv

\* The offer cannot be handled at all, and is rejected.
LEMMA ForceRejectR ==
    ASSUME IInv, RInv, ForceRejectOffer
    PROVE  RInv'
<1>0. TypeOK'
  BY ForceRejectOfferOK DEF IInv
<1>1. /\ UNCHANGED <<offers, protocols, chanC, processedC, inC, task, chanA, processedA, inA>>
      /\ netCA # <<>>
  BY DEF ForceRejectOffer, coordinatorVars
<1>2. PICK m : /\ Belongs(offers, m) /\ m.type \in OfferTypes /\ m \notin processedA
               /\ m.pid \in Protocols /\ SendReject(m.pid)
  BY <1>1, WireHead DEF ForceRejectOffer, IInv, MessagesOK, Belongs, Messages
<1>3. /\ Ordered(netAC', lastOutA') /\ On(netAC') \subseteq Coming \union {lastOutA'}
      /\ \A x \in Arrived : Last(x, lastOutA')
      /\ lastOutA'.type = "Reject"
  BY <1>0, <1>2, Rejects
<1>4. /\ RecordsOK' /\ RejectsOK' /\ OrderOK'
      /\ Arrived' = Arrived /\ Coming' \subseteq Coming \union {lastOutA'}
  BY <1>1, <1>3, Sends
<1>5. AnswersOK'
  BY <1>0, <1>1, <1>3, <1>4, Answers
<1> QED BY <1>4, <1>5 DEF RInv

\* The handler ends without a new message.
LEMMA DoneR ==
    ASSUME IInv, RInv,
           \/ AcceptUnanswered \/ StaleOffer
           \/ CompleteOpenA \/ CompleteRolloverA \/ CompleteSettleA \/ CompleteRenewConfirmA
    PROVE  RInv'
<1>0. TypeOK' /\ offers \in [Protocols -> Offers] /\ chanA \in Channels
  <2>1. TypeOK'
    BY AcceptUnansweredOK, StaleOfferOK, CompleteOpenAOK, CompleteRolloverAOK, CompleteSettleAOK,
       CompleteRenewConfirmAOK DEF IInv
  <2> QED BY <2>1 DEF IInv, TypeOK
<1>1. /\ UNCHANGED <<offers, protocols, chanC, processedC, inC, task, lastOutA>>
      /\ processedA' = processedA \union {inA} /\ inA' = NoMessage
      /\ SendLastA(lastOutA) \/ netAC' = netAC
  BY DEF AcceptUnanswered, StaleOffer, CompleteOpenA, CompleteRolloverA, CompleteSettleA,
     CompleteRenewConfirmA, coordinatorVars, netVars, DoneA
<1>2. \/ chanA' = chanA
      \/ /\ chanA'.state \notin Offering
         /\ chanA'.state \in {"SettledAccepted", "RenewAccepted"} =>
                Opened(offers', processedA', chanA'.ref)
  <2>1. CASE AcceptUnanswered
    <3>1. /\ Belongs(offers, inA) /\ inA.type \in OfferTypes /\ inA.pid \in Protocols
          /\ chanA.state \in Offering /\ chanA.ref = inA.pid
      BY <2>1, OnOffer DEF AcceptUnanswered
    <3>2. CASE chanA' = [chanA EXCEPT !.state = Acceptance(inA.type)[2]]
      <4>1. chanA'.state \notin Offering /\ chanA'.ref = inA.pid
        BY <1>0, <3>1, <3>2, AcceptanceReplies DEF Channels
      <4>2. Opened(offers', processedA', inA.pid)
        BY <1>1, <3>1 DEF Opened
      <4> QED BY <4>1, <4>2
    <3> QED BY <2>1, <3>2 DEF AcceptUnanswered
  <2>2. CASE StaleOffer \/ CompleteOpenA \/ CompleteRolloverA \/ CompleteSettleA \/ CompleteRenewConfirmA
    BY <2>2 DEF StaleOffer, CompleteOpenA, CompleteRolloverA, CompleteSettleA, CompleteRenewConfirmA
  <2> QED BY <2>1, <2>2
<1>3. /\ RecordsOK' /\ RejectsOK' /\ OrderOK'
      /\ Arrived' = Arrived /\ Coming' \subseteq Coming \union {lastOutA'}
  BY <1>1, SentAgain, Sends
<1>4. AnswersOK'
  BY <1>0, <1>1, <1>2, <1>3, Answers
<1> QED BY <1>3, <1>4 DEF RInv

-----------------------------------------------------------------------------
(* Connection and restarts *)

\* The connection is lost, or the app restarts.
LEMMA LossR ==
    ASSUME IInv, RInv, Disconnect \/ CrashA
    PROVE  RInv'
<1>0. TypeOK' /\ netAC \in Seq(Messages) /\ RInv
  <2>1. TypeOK'
    BY DisconnectOK, CrashAOK DEF IInv
  <2> QED BY <2>1 DEF IInv, TypeOK
<1>1. /\ UNCHANGED <<offers, protocols, chanC, processedC, inC, task, chanA, lastOutA>>
      /\ netAC' \in Prefixes(netAC)
      /\ processedA \subseteq processedA'
      /\ inA' = NoMessage \/ (inA' = inA /\ processedA' = processedA)
  BY DEF Disconnect, CrashA, coordinatorVars, appVars
<1>2. On(netAC') \subseteq On(netAC) /\ Ordered(netAC', lastOutA')
  BY <1>0, <1>1, QueuePrefix DEF RInv, OrderOK
<1>3. \A m \in Arrived : Last(m, lastOutA')
  BY <1>1 DEF RInv, OrderOK, Coming
<1>4. /\ RecordsOK' /\ RejectsOK' /\ OrderOK'
      /\ Arrived' = Arrived /\ Coming' \subseteq Coming \union {lastOutA'}
  BY <1>1, <1>2, <1>3, Sends DEF Coming
<1>5. AnswersOK'
  BY <1>0, <1>1, <1>4, Answers
<1> QED BY <1>4, <1>5 DEF RInv

\* On connect the app resends its last message.
LEMMA ResendR ==
    ASSUME IInv, RInv, ConnectAndResend
    PROVE  RInv'
<1>0. TypeOK' /\ netAC \in Seq(Messages) /\ lastOutA \in MaybeMessage
  <2>1. TypeOK'
    BY ConnectAndResendOK DEF IInv
  <2> QED BY <2>1 DEF IInv, TypeOK
<1>1. /\ UNCHANGED <<offers, protocols, chanC, processedC, inC, task, chanA, lastOutA, processedA, inA>>
      /\ netAC' = Resend(netAC, lastOutA)
  BY DEF ConnectAndResend, appVars
<1>2. On(netAC') \subseteq Coming \union {lastOutA'} /\ Ordered(netAC', lastOutA')
  BY <1>0, <1>1, QueueResend DEF RInv, OrderOK, Coming
<1>3. \A m \in Arrived : Last(m, lastOutA')
  BY <1>1 DEF RInv, OrderOK, Coming
<1>4. /\ RecordsOK' /\ RejectsOK' /\ OrderOK'
      /\ Arrived' = Arrived /\ Coming' \subseteq Coming \union {lastOutA'}
  BY <1>1, <1>2, <1>3, Sends
<1>5. AnswersOK'
  BY <1>0, <1>1, <1>4, Answers
<1> QED BY <1>4, <1>5 DEF RInv

\* On connect the app rejects the offer it has not accepted.
LEMMA ConnectRejectR ==
    ASSUME IInv, RInv, ConnectAndReject
    PROVE  RInv'
<1>0. /\ TypeOK' /\ netAC \in Seq(Messages) /\ lastOutA \in MaybeMessage /\ chanA \in Channels
      /\ offers \in [Protocols -> Offers]
  <2>1. TypeOK'
    BY ConnectAndRejectOK DEF IInv
  <2> QED BY <2>1 DEF IInv, TypeOK
<1>1. /\ UNCHANGED <<offers, protocols, chanC, processedC, inC, task, processedA, inA>>
      /\ chanA.state \in Offering /\ chanA' = RollBack(chanA)
  BY DEF ConnectAndReject, Offering
<1>2. PICK n \in Messages : /\ lastOutA' = n /\ n.pid = chanA.ref /\ n.type = "Reject"
                            /\ netAC' = Append(IF chanA.state = "Offered" THEN Resend(netAC, lastOutA)
                                               ELSE netAC, n)
  <2>1. PICK r : /\ lastOutA' = [type |-> "Reject", pid |-> chanA.ref, ts |-> r]
    BY DEF ConnectAndReject
  <2>2. netAC' = Append(IF chanA.state = "Offered" THEN Resend(netAC, lastOutA) ELSE netAC, lastOutA')
    BY DEF ConnectAndReject
  <2>3. lastOutA' # NoMessage /\ lastOutA' \in MaybeMessage
    BY <1>0, <2>1 DEF TypeOK, NoMessage
  <2> QED BY <2>1, <2>2, <2>3 DEF MaybeMessage
<1>3. \A x \in Arrived \union Coming : Last(x, n)
  BY <1>1, <1>2, NotAnswered
<1>4. PICK q \in Seq(Messages) :
          /\ netAC' = Append(q, n) /\ Ordered(q, lastOutA) /\ On(q) \subseteq Coming
  <2>1. Ordered(netAC, lastOutA)
    BY DEF RInv, OrderOK
  <2>2. On(Resend(netAC, lastOutA)) \subseteq Coming /\ Ordered(Resend(netAC, lastOutA), lastOutA)
    BY <1>0, <2>1, QueueResend DEF Coming
  <2>3. Resend(netAC, lastOutA) \in Seq(Messages)
    BY <1>0 DEF Resend, MaybeMessage
  <2> QED BY <1>0, <1>2, <2>1, <2>2, <2>3 DEF Coming
<1>5. Ordered(q, n)
  BY <1>3, <1>4 DEF Ordered, On
<1>6. Ordered(netAC', lastOutA') /\ On(netAC') \subseteq Coming \union {lastOutA'}
  BY <1>2, <1>4, <1>5, QueueAppend
<1>7. /\ RecordsOK' /\ RejectsOK' /\ OrderOK'
      /\ Arrived' = Arrived /\ Coming' \subseteq Coming \union {lastOutA'}
  BY <1>1, <1>2, <1>3, <1>6, Sends
<1>8. chanA'.state \in {"Cancelled", "Established", "Settled"}
  BY <1>0, <1>1 DEF RInv, AnswersOK, RollBack, Channels
<1>9. chanA'.state \notin Offering /\ chanA'.state \notin {"SettledAccepted", "RenewAccepted"}
  BY <1>8 DEF Offering
<1>10. AnswersOK'
  BY <1>0, <1>1, <1>2, <1>7, <1>9, Answers
<1> QED BY <1>7, <1>10 DEF RInv

-----------------------------------------------------------------------------
(* The invariant *)

\* The invariant holds initially.
LEMMA InitR ==
    ASSUME Init
    PROVE  RInv
<1>1. RecordsOK
  BY DEF Init, RecordsOK, Idle
<1>2. RejectsOK
  BY Nothing DEF Init, RejectsOK, InChannel, Arrived
<1>3. Coming = {NoMessage} /\ Arrived = {NoMessage}
  BY QueueEmpty DEF Init, Coming, Arrived
<1>4. AnswersOK
  BY <1>3, Nothing DEF Init, AnswersOK, InChannel, Offering
<1>5. OrderOK
  BY <1>3, Nothing, QueueEmpty DEF Init, OrderOK, Last
<1> QED BY <1>1, <1>2, <1>4, <1>5 DEF RInv

\* Every step preserves the invariant.
LEMMA NextR ==
    ASSUME IInv, RInv, [Next]_vars
    PROVE  RInv'
<1>1. CASE UNCHANGED vars
  BY <1>1, Aside DEF vars
<1>2. ASSUME NEW p \in Protocols, NewOrder(p) \/ ProcessOrder(p) \/ BeginRollover(p) PROVE RInv'
  BY <1>2, OrdersR
<1>3. ASSUME NEW p \in Protocols, RunProtocol(p) PROVE RInv'
  BY <1>3, ProposeR, StartR, TasksR DEF RunProtocol
<1>4. CASE \/ \E o \in TraderOrders : SubmitInVain(o) \/ OrderPosted(o) \/ OrderNotPosted(o)
           \/ SubmitRefused
           \/ \E o \in Orders : GiveUp(o) \/ OnTradeError(o) \/ CheckOpenOrders(o)
           \/ Tick
  BY <1>4, OtherR
<1>5. CASE HandlerC
  BY <1>5, DroppedR, ReceiveCR, CompleteR DEF HandlerC
<1>6. CASE HandlerA
  BY <1>6, OtherR, ReceiveOfferR, ReceiveOtherR, ForceRejectR, AcceptOfferR, RejectOfferR, DoneR
     DEF HandlerA
<1>7. CASE Connect
  BY <1>7, ResendR, ConnectRejectR DEF Connect
<1>8. CASE Disconnect \/ CrashC \/ CrashA
  BY <1>8, LossR, CrashCR
<1> QED BY <1>1, <1>2, <1>3, <1>4, <1>5, <1>6, <1>7, <1>8 DEF Next

\* The invariant holds in every reachable state.
THEOREM LedgerInvariance == Spec => [](IInv /\ RInv)
<1>1. Init => IInv /\ RInv
  BY InitOK, InitR
<1>2. IInv /\ RInv /\ [Next]_vars => (IInv /\ RInv)'
  BY NextOK, NextR
<1> QED BY <1>1, <1>2, PTL DEF Spec

-----------------------------------------------------------------------------
(* The refinement *)

\* The protocols whose rejection was processed, as TradeProtocol hands them to TradeLedger
RejectedIn(done) == {m.pid : m \in {r \in done : r.type = "Reject"}}

\* Nothing that arrives for a protocol that has succeeded is new.
LEMMA SuccessIsFinal ==
    ASSUME IInv, RInv, NEW p \in Protocols, protocols[p] = "Success"
    PROVE  /\ inC.pid # p
           /\ \A m \in On(netAC) : m.pid = p => m \in processedC
<1>1. PICK n \in processedC : Belongs(offers, n) /\ n.pid = p /\ n.type \in Finishing
  BY DEF RInv, RecordsOK, Finished
<1>2. inC.pid # p
  BY <1>1 DEF RInv, OrderOK
<1>3. ASSUME NEW m \in On(netAC), m.pid = p PROVE m = n
  <2>1. m \in Coming /\ n \in Arrived
    BY <1>1, <1>3 DEF Coming, Arrived
  <2>2. m.type \in Finishing
    BY <1>1, <1>3, <2>1 DEF RInv, OrderOK, Last
  <2>3. Belongs(offers, m)
    BY <2>1, <2>2, AllBelong, Nothing
  <2> QED BY <1>1, <1>3, <2>2, <2>3, OneFinishing DEF IInv, TypeOK
<1> QED BY <1>1, <1>2, <1>3

\* A step that changes none of the ledger's tables.
LEMMA LedgerKept ==
    ASSUME UNCHANGED <<protocols, trades, processedC>>
    PROVE  UNCHANGED Ledger!ledger
BY DEF Ledger!ledger

\* Nor does a step that stores messages other than rejections.
LEMMA RejectedKept ==
    ASSUME NEW done, NEW m, m.type # "Reject"
    PROVE  RejectedIn(done \union {m}) = RejectedIn(done)
BY DEF RejectedIn

\* A rejection that is stored as processed.
LEMMA RejectedAdded ==
    ASSUME NEW done, NEW m, m.type = "Reject"
    PROVE  RejectedIn(done \union {m}) = RejectedIn(done) \union {m.pid}
BY DEF RejectedIn

\* What an error makes of the outcome.
LEMMA FailedOutcome ==
    ASSUME IInv, NEW m \in Messages, FailMessage(m), protocols[m.pid] # "Success"
    PROVE  /\ protocols' = protocols \/ protocols' = [protocols EXCEPT ![m.pid] = "Failed"]
           /\ \/ protocols' = protocols
              \/ /\ protocols[m.pid] = "Pending"
                 /\ protocols' = [protocols EXCEPT ![m.pid] = "Failed"]
           /\ protocols' = [protocols EXCEPT ![m.pid] = IF @ = "None" THEN @ ELSE "Failed"]
<1>1. protocols \in [Protocols -> ProtocolStates] /\ m.pid \in Protocols
  BY DEF IInv, TypeOK, Messages
<1>2. CASE protocols[m.pid] = "None"
  BY <1>1, <1>2 DEF FailMessage
<1>3. CASE protocols[m.pid] = "Failed"
  BY <1>1, <1>3 DEF FailMessage
<1>4. CASE protocols[m.pid] = "Pending"
  BY <1>1, <1>4 DEF FailMessage
<1> QED BY <1>1, <1>2, <1>3, <1>4 DEF ProtocolStates

\* A task records its protocol: Start.
LEMMA StartLedger ==
    ASSUME IInv, RInv, NEW p \in Protocols, StartProtocol(p)
    PROVE  Ledger!Start(p)
<1>1. protocols[p] = "None"
  BY DEF RInv, RecordsOK, StartProtocol
<1> QED BY <1>1 DEF StartProtocol, Ledger!Start

\* A message that cannot be handled: Fail, unless the failure is on record.
LEMMA RefuseLedger ==
    ASSUME IInv, RInv, RefuseC
    PROVE  [Ledger!Next]_(Ledger!ledger)
<1>1. PICK m \in Messages : /\ m \in On(netAC) /\ m \notin processedC /\ FailMessage(m)
  BY QueueHead DEF RefuseC, AlreadyProcessedC, IInv, TypeOK
<1>2. m.pid \in Protocols /\ UNCHANGED <<trades, processedC>>
  BY <1>1 DEF Messages, RefuseC
<1>3. protocols[m.pid] # "Success"
  BY <1>1, <1>2, SuccessIsFinal
<1>4. protocols' = protocols \/ Ledger!Fail(m.pid)
  BY <1>1, <1>2, <1>3, FailedOutcome DEF Ledger!Fail
<1> QED BY <1>2, <1>4, LedgerKept DEF Ledger!Next

\* The second half of the handler: Succeed, Fail, Reject, or nothing.
LEMMA CompleteLedger ==
    ASSUME IInv, RInv, CompleteC \/ CompleteCFails \/ CompleteReject
    PROVE  [Ledger!Next]_(Ledger!ledger)
<1>0. protocols \in [Protocols -> ProtocolStates] /\ trades \in [Protocols -> Nat]
  BY DEF IInv, TypeOK
<1>1. processedC' = processedC \union {inC} /\ inC.type # "None"
  BY DEF CompleteC, CompleteCFails, CompleteReject, Finishing, MessageTypes, OfferTypes, AcceptTypes
<1>2. inC \in Messages /\ inC.pid \in Protocols /\ inC \in Arrived
  BY <1>1, Nothing DEF IInv, TypeOK, MaybeMessage, Messages, Arrived
<1>3. protocols[inC.pid] # "Success"
  BY <1>2, SuccessIsFinal
<1>4. CASE CompleteReject
  <2>1. inC.type = "Reject" /\ FailMessage(inC) /\ UNCHANGED trades
    BY <1>4 DEF CompleteReject
  <2>2. RejectedIn(processedC') = RejectedIn(processedC) \union {inC.pid}
    BY <1>1, <2>1, RejectedAdded
  <2>3. protocols' = [protocols EXCEPT ![inC.pid] = IF @ = "None" THEN @ ELSE "Failed"]
    BY <1>2, <1>3, <2>1, FailedOutcome
  <2>4. PICK p \in Protocols : p = inC.pid
    BY <1>2
  <2>5. Ledger!Reject(p)
    BY <1>3, <2>1, <2>2, <2>3, <2>4 DEF Ledger!Reject, RejectedIn
  <2> QED BY <2>5 DEF Ledger!Next
<1>5. CASE CompleteCFails
  <2>1. inC.type # "Reject" /\ FailMessage(inC) /\ UNCHANGED trades
    BY <1>5 DEF CompleteCFails, Finishing
  <2>2. RejectedIn(processedC') = RejectedIn(processedC)
    BY <1>1, <2>1, RejectedKept
  <2>3. CASE protocols' = protocols
    BY <2>1, <2>2, <2>3 DEF Ledger!ledger, RejectedIn
  <2>4. CASE protocols[inC.pid] = "Pending" /\ protocols' = [protocols EXCEPT ![inC.pid] = "Failed"]
    <3>1. Ledger!Fail(inC.pid)
      BY <2>1, <2>2, <2>4 DEF Ledger!Fail, RejectedIn
    <3> QED BY <1>2, <3>1 DEF Ledger!Next
  <2> QED BY <1>2, <1>3, <2>1, <2>3, <2>4, FailedOutcome
<1>6. CASE CompleteC
  <2>1. inC.type # "Reject"
    BY <1>6 DEF CompleteC
  <2>2. RejectedIn(processedC') = RejectedIn(processedC)
    BY <1>1, <2>1, RejectedKept
  <2>3. CASE inC.type \notin Finishing
    <3>1. UNCHANGED <<protocols, trades>>
      BY <1>6, <2>3 DEF CompleteC
    <3> QED BY <2>2, <3>1 DEF Ledger!ledger, RejectedIn
  <2>4. CASE inC.type \in Finishing
    <3>1. FinishPossible(inC.pid) /\ finish_dlc_protocol(inC.pid)
      BY <1>6, <2>4 DEF CompleteC
    <3>2. protocols[inC.pid] \in {"Pending", "Failed"}
      BY <1>0, <1>2, <1>3, <3>1 DEF FinishPossible, ProtocolStates
    <3>3. inC.pid \notin RejectedIn(processedC)
      BY <2>4 DEF RInv, RejectsOK, RejectedIn, Arrived
    <3>4. protocols' = [protocols EXCEPT ![inC.pid] = "Success"]
      BY <3>1 DEF finish_dlc_protocol
    <3>5. \E n \in {0, 1} : trades' = [trades EXCEPT ![inC.pid] = @ + n]
      <4>1. CASE offers[inC.pid].kind = "Rollover"
        <5>1. trades' = [trades EXCEPT ![inC.pid] = @ + 0]
          BY <1>0, <1>2, <3>1, <4>1 DEF finish_dlc_protocol
        <5> QED BY <5>1
      <4>2. CASE offers[inC.pid].kind # "Rollover"
        BY <3>1, <4>2 DEF finish_dlc_protocol
      <4> QED BY <4>1, <4>2
    <3>6. Ledger!Succeed(inC.pid)
      BY <2>2, <3>2, <3>3, <3>4, <3>5 DEF Ledger!Succeed, RejectedIn
    <3> QED BY <1>2, <3>6 DEF Ledger!Next
  <2> QED BY <2>3, <2>4
<1> QED BY <1>4, <1>5, <1>6

\* The coordinator restarts while a handler is half way through: the message may be
\* stored as processed although its outcome is not.
LEMMA CrashLedger ==
    ASSUME IInv, RInv, CrashC
    PROVE  [Ledger!Next]_(Ledger!ledger)
<1>1. UNCHANGED <<protocols, trades>>
  BY DEF CrashC
<1>2. CASE processedC' = processedC
  BY <1>1, <1>2, LedgerKept
<1>3. CASE processedC' # processedC
  <2>1. processedC' = processedC \union {inC} /\ inC # NoMessage
    BY <1>3 DEF CrashC
  <2>2. inC.pid \in Protocols
    BY <2>1 DEF IInv, TypeOK, MaybeMessage, Messages
  <2>3. CASE inC.type = "Reject"
    <3>1. RejectedIn(processedC') = RejectedIn(processedC) \union {inC.pid}
      BY <2>1, <2>3, RejectedAdded
    <3>2. protocols[inC.pid] # "Success"
      BY <2>2, SuccessIsFinal
    <3>3. PICK p \in Protocols : p = inC.pid
      BY <2>2
    <3>4. Ledger!Reject(p)
      BY <1>1, <3>1, <3>2, <3>3 DEF Ledger!Reject, RejectedIn
    <3> QED BY <3>4 DEF Ledger!Next
  <2>4. CASE inC.type # "Reject"
    <3>1. RejectedIn(processedC') = RejectedIn(processedC)
      BY <2>1, <2>4, RejectedKept
    <3> QED BY <1>1, <3>1 DEF Ledger!ledger, RejectedIn
  <2> QED BY <2>3, <2>4
<1> QED BY <1>2, <1>3

\* Every step of TradeProtocol is a step of TradeLedger, or leaves the ledger alone.
LEMMA NextLedger ==
    ASSUME IInv, RInv, [Next]_vars
    PROVE  [Ledger!Next]_(Ledger!ledger)
<1> USE DEF coordinatorVars, appVars, netVars, boundVars
<1>1. CASE UNCHANGED vars
  BY <1>1, LedgerKept DEF vars
<1>2. ASSUME NEW p \in Protocols, NewOrder(p) \/ ProcessOrder(p) \/ BeginRollover(p)
      PROVE  [Ledger!Next]_(Ledger!ledger)
  <2>1. UNCHANGED <<protocols, trades, processedC>>
    BY <1>2 DEF NewOrder, SubmitOrder, CloseByCoordinator, PostOrder, ProcessOrder, CheckOrder,
       MatchOrder, NoMatch, ProcessPendingMatch, BeginTrade, BeginTradeFails, SkipTrade, FailTrade,
       BeginRollover
  <2> QED BY <2>1, LedgerKept
<1>3. ASSUME NEW p \in Protocols, RunProtocol(p) PROVE [Ledger!Next]_(Ledger!ledger)
  <2>1. CASE StartProtocol(p)
    BY <2>1, StartLedger DEF Ledger!Next
  <2>2. CASE ~ StartProtocol(p)
    <3>1. UNCHANGED <<protocols, trades, processedC>>
      BY <1>3, <2>2 DEF RunProtocol, Propose, ProposeFails, ProposeRolloverFails, UpdatePosition,
         FinishTask, FailTrade
    <3> QED BY <3>1, LedgerKept
  <2> QED BY <2>1, <2>2
<1>4. CASE \/ \E o \in TraderOrders : SubmitInVain(o) \/ OrderPosted(o) \/ OrderNotPosted(o)
           \/ SubmitRefused
           \/ \E o \in Orders : GiveUp(o) \/ OnTradeError(o) \/ CheckOpenOrders(o)
           \/ Tick
  <2>1. UNCHANGED <<protocols, trades, processedC>>
    BY <1>4 DEF SubmitInVain, OrderPosted, OrderNotPosted, SubmitRefused, GiveUp, OnTradeError,
       CheckOpenOrders, Tick
  <2> QED BY <2>1, LedgerKept
<1>5. CASE HandlerC
  <2>1. CASE SkipC \/ ReceiveC
    <3>1. UNCHANGED <<protocols, trades, processedC>>
      BY <2>1 DEF SkipC, ReceiveC
    <3> QED BY <3>1, LedgerKept
  <2> QED BY <1>5, <2>1, RefuseLedger, CompleteLedger DEF HandlerC
<1>6. CASE HandlerA \/ Connect \/ Disconnect \/ CrashA
  <2>1. UNCHANGED <<protocols, trades, processedC>>
    BY <1>6 DEF HandlerA, SkipA, ReceiveA, ForceRejectOffer, RefuseA, AcceptOffer, RejectOffer,
       AcceptUnanswered, StaleOffer, CompleteOpenA, CompleteRolloverA, CompleteSettleA,
       CompleteRenewConfirmA, Connect, ConnectAndResend, ConnectAndReject, Disconnect, CrashA
  <2> QED BY <2>1, LedgerKept
<1>7. CASE CrashC
  BY <1>7, CrashLedger
<1> QED BY <1>1, <1>2, <1>3, <1>4, <1>5, <1>6, <1>7 DEF Next

\* The ledger starts empty.
LEMMA InitLedger ==
    ASSUME Init
    PROVE  Ledger!Init
BY DEF Init, Ledger!Init

\* TradeProtocol implements TradeLedger: however messages are resent, lost, delayed or
\* refused and wherever either side restarts, the coordinator's tables decide the outcome
\* of a protocol once, record its trade with its success, and never make a success of an
\* offer whose rejection was processed.
THEOREM ImplementsLedgerAlways == Spec => ImplementsLedger
<1>1. Init => Ledger!Init
  BY InitLedger
<1>2. IInv /\ RInv /\ [Next]_vars => [Ledger!Next]_(Ledger!ledger)
  BY NextLedger
<1>3. Spec => Ledger!Spec
  BY <1>1, <1>2, LedgerInvariance, PTL DEF Spec, Ledger!Spec
<1> QED BY <1>3 DEF ImplementsLedger

-----------------------------------------------------------------------------
(* What most steps leave alone *)

\* Resending the last message brings nothing new.
LEMMA OnResend ==
    ASSUME NEW q \in Seq(Messages), NEW m \in MaybeMessage
    PROVE  On(Resend(q, m)) \subseteq On(q) \union {m}
BY QueueAppend DEF Resend, MaybeMessage

\* The sides of both channels, typed.
LEMMA Typed ==
    ASSUME IInv
    PROVE  /\ chanC \in Channels /\ chanA \in Channels /\ offers \in [Protocols -> Offers]
           /\ netCA \in Seq(Messages) /\ netAC \in Seq(Messages)
           /\ lastOutC \in MaybeMessage /\ lastOutA \in MaybeMessage
BY DEF IInv, TypeOK

\* What the coordinator sends when it sends its last message.
LEMMA SendLastCOn ==
    ASSUME IInv, SendLastC(lastOutC)
    PROVE  On(netCA') \subseteq ToApp
<1>1. On(Resend(netCA, lastOutC)) \subseteq On(netCA) \union {lastOutC}
  BY Typed, OnResend
<1> QED BY <1>1 DEF SendLastC, ToApp

\* What the app sends when it sends message m.
LEMMA SendLastAOn ==
    ASSUME IInv, NEW m \in MaybeMessage, SendLastA(m)
    PROVE  On(netAC') \subseteq On(netAC) \union {m}
<1>1. On(Resend(netAC, m)) \subseteq On(netAC) \union {m}
  BY Typed, OnResend
<1> QED BY <1>1 DEF SendLastA

\* A step that leaves both channels alone and sends nothing but rejects.
LEMMA Kept ==
    ASSUME CInv, UNCHANGED <<offers, chanC, chanA>>, processedA \subseteq processedA',
           ToApp' \subseteq ToApp,
           \A m \in Coming' : m \in Coming \/ m.type = "Reject"
    PROVE  CInv'
<1>1. ChannelsOK'
  BY StillOpened DEF CInv, ChannelsOK, Made
<1>2. AgreementOK'
  <2>1. \A m \in Coming' : AppSays(chanC, chanA, m)
    BY DEF CInv, AgreementOK, AppSays
  <2> QED BY <2>1 DEF CInv, AgreementOK
<1> QED BY <1>1, <1>2 DEF CInv

\* Orders and tasks.
LEMMA OrdersC ==
    ASSUME IInv, RInv, CInv, NEW p \in Protocols,
           \/ NewOrder(p) \/ ProcessOrder(p) \/ BeginRollover(p)
           \/ ProposeFails(p) \/ ProposeRolloverFails(p) \/ StartProtocol(p) \/ UpdatePosition(p)
    PROVE  CInv'
<1> USE DEF coordinatorVars, appVars, netVars, boundVars
<1>1. UNCHANGED <<offers, chanC, chanA, processedA, lastOutC, lastOutA, netCA, netAC>>
  <2>1. CASE NewOrder(p)
    BY <2>1 DEF NewOrder, SubmitOrder, CloseByCoordinator, PostOrder
  <2>2. CASE ProcessOrder(p)
    BY <2>2 DEF ProcessOrder, CheckOrder, MatchOrder, NoMatch, ProcessPendingMatch, BeginTrade,
       BeginTradeFails, SkipTrade, FailTrade
  <2>3. CASE BeginRollover(p)
    BY <2>3 DEF BeginRollover
  <2>4. CASE ProposeFails(p) \/ ProposeRolloverFails(p) \/ StartProtocol(p) \/ UpdatePosition(p)
    BY <2>4 DEF ProposeFails, ProposeRolloverFails, StartProtocol, UpdatePosition, FailTrade
  <2> QED BY <2>1, <2>2, <2>3, <2>4
<1>2. ToApp' = ToApp /\ Coming' = Coming
  BY <1>1 DEF ToApp, Coming
<1> QED BY <1>1, <1>2, Kept

\* The trader's orders, errors, time, and the second half of the coordinator's handler.
LEMMA OtherC ==
    ASSUME IInv, RInv, CInv,
           \/ \E o \in TraderOrders : SubmitInVain(o) \/ OrderPosted(o) \/ OrderNotPosted(o)
           \/ SubmitRefused
           \/ \E o \in Orders : GiveUp(o) \/ OnTradeError(o) \/ CheckOpenOrders(o)
           \/ CompleteCFails \/ CompleteReject \/ Tick
    PROVE  CInv'
<1>1. UNCHANGED <<offers, chanC, chanA, processedA, lastOutC, lastOutA, netCA, netAC>>
  BY DEF SubmitInVain, OrderPosted, OrderNotPosted, SubmitRefused, GiveUp, OnTradeError,
     CheckOpenOrders, CompleteCFails, CompleteReject, Tick, coordinatorVars, appVars, netVars, boundVars
<1>2. ToApp' = ToApp /\ Coming' = Coming
  BY <1>1 DEF ToApp, Coming
<1> QED BY <1>1, <1>2, Kept

\* The last message of the coordinator is sent (FinishTask, CompleteC).
LEMMA SendC ==
    ASSUME IInv, RInv, CInv, CompleteC \/ \E p \in Protocols : FinishTask(p)
    PROVE  CInv'
<1>1. UNCHANGED <<offers, chanC, chanA, processedA, lastOutC, lastOutA, netAC>>
  BY DEF CompleteC, FinishTask, coordinatorVars, appVars, netVars, boundVars
<1>2. netCA' = netCA \/ SendLastC(lastOutC)
  BY DEF CompleteC, FinishTask
<1>3. ToApp' \subseteq ToApp /\ Coming' = Coming
  BY <1>1, <1>2, SendLastCOn DEF ToApp, Coming
<1> QED BY <1>1, <1>3, Kept

\* A message is skipped or refused.
LEMMA DropC ==
    ASSUME IInv, RInv, CInv, SkipC \/ RefuseC \/ SkipA \/ RefuseA
    PROVE  CInv'
<1>1. UNCHANGED <<offers, chanC, chanA, processedA, lastOutC, lastOutA>>
  BY DEF SkipC, RefuseC, SkipA, RefuseA, coordinatorVars, appVars, netVars, boundVars
<1>2. \/ netCA' = netCA /\ netAC' = Tail(netAC) /\ netAC # <<>>
      \/ netAC' = netAC /\ netCA' = Tail(netCA) /\ netCA # <<>>
  BY DEF SkipC, RefuseC, SkipA, RefuseA, coordinatorVars, appVars, netVars, boundVars
<1>3. On(netCA') \subseteq On(netCA) /\ On(netAC') \subseteq On(netAC)
  BY <1>2, Typed, QueueHead
<1>4. ToApp' \subseteq ToApp /\ Coming' \subseteq Coming
  BY <1>1, <1>3 DEF ToApp, Coming
<1> QED BY <1>1, <1>4, Kept

\* The second half of the app's handler, but for an offer it can still answer.
LEMMA CompleteA ==
    ASSUME IInv, RInv, CInv,
           StaleOffer \/ CompleteOpenA \/ CompleteRolloverA \/ CompleteSettleA \/ CompleteRenewConfirmA
    PROVE  CInv'
<1>1. UNCHANGED <<offers, chanC, chanA, lastOutC, lastOutA, netCA>> /\ processedA \subseteq processedA'
  BY DEF StaleOffer, CompleteOpenA, CompleteRolloverA, CompleteSettleA, CompleteRenewConfirmA, DoneA,
     coordinatorVars, appVars, netVars, boundVars
<1>2. netAC' = netAC \/ SendLastA(lastOutA)
  BY DEF StaleOffer, CompleteOpenA, CompleteRolloverA, CompleteSettleA, CompleteRenewConfirmA,
     coordinatorVars, appVars, netVars, boundVars
<1>3. ToApp' \subseteq ToApp /\ Coming' \subseteq Coming
  BY <1>1, <1>2, SendLastAOn, Typed DEF ToApp, Coming
<1> QED BY <1>1, <1>3, Kept

\* Connection losses, restarts, and a connection that resends.
LEMMA ConnectionC ==
    ASSUME IInv, RInv, CInv, Disconnect \/ ConnectAndResend \/ CrashC \/ CrashA
    PROVE  CInv'
<1>1. UNCHANGED <<offers, chanC, chanA, lastOutC, lastOutA>> /\ processedA \subseteq processedA'
  BY DEF Disconnect, ConnectAndResend, CrashC, CrashA, coordinatorVars, appVars, netVars, boundVars
<1>2. /\ netCA' \in Prefixes(netCA) \/ netCA' = <<>> \/ netCA' = Resend(netCA, lastOutC)
      /\ netAC' \in Prefixes(netAC) \/ netAC' = <<>> \/ netAC' = Resend(netAC, lastOutA)
  BY DEF Disconnect, ConnectAndResend, CrashC, CrashA
<1>3. On(netCA') \subseteq ToApp
  BY <1>2, Typed, OnResend, QueuePrefix, QueueEmpty DEF ToApp
<1>4. On(netAC') \subseteq Coming
  BY <1>2, Typed, OnResend, QueuePrefix, QueueEmpty DEF Coming
<1>5. ToApp' \subseteq ToApp /\ Coming' \subseteq Coming
  BY <1>1, <1>3, <1>4 DEF ToApp, Coming
<1> QED BY <1>1, <1>5, Kept

\* force_reject_offer sends a reject and leaves the channel.
LEMMA ForceRejectC ==
    ASSUME IInv, RInv, CInv, ForceRejectOffer
    PROVE  CInv'
<1>1. UNCHANGED <<offers, chanC, chanA, processedA, lastOutC>> /\ netCA # <<>> /\ netCA' = Tail(netCA)
  BY DEF ForceRejectOffer, coordinatorVars
<1>2. PICK s \in {clock, clock + 1} :
        /\ lastOutA' = [type |-> "Reject", pid |-> Head(netCA).pid, ts |-> s]
        /\ SendLastA([type |-> "Reject", pid |-> Head(netCA).pid, ts |-> s])
  BY DEF ForceRejectOffer, SendReject
<1>3. lastOutA' \in Messages /\ lastOutA'.type = "Reject"
  <2>1. Head(netCA) \in Messages /\ s \in Nat
    BY <1>1, Typed, QueueHead DEF IInv, TypeOK
  <2> QED BY <1>2, <2>1 DEF Messages, MessageTypes
<1>4. On(netAC') \subseteq On(netAC) \union {lastOutA'}
  <2>1. PICK r \in MaybeMessage : r = lastOutA' /\ SendLastA(r)
    BY <1>2, <1>3 DEF MaybeMessage
  <2> QED BY <2>1, SendLastAOn
<1>5. ToApp' \subseteq ToApp
  BY <1>1, Typed, QueueHead DEF ToApp
<1>6. \A m \in Coming' : m \in Coming \/ m.type = "Reject"
  BY <1>3, <1>4 DEF Coming
<1> QED BY <1>1, <1>5, <1>6, Kept

-----------------------------------------------------------------------------
(* The coordinator moves *)

\* Messages on their way belong to protocols whose offers were made.
LEMMA OnTheWay ==
    ASSUME IInv, RInv, NEW m \in Coming \union ToApp
    PROVE  m = NoMessage \/ (Belongs(offers, m) /\ m.pid \in Protocols /\ offers[m.pid] # NoOffer)
<1>1. m = NoMessage \/ Belongs(offers, m)
  BY DEF IInv, MessagesOK, Coming, ToApp, On, Slot, Wire
<1>2. Belongs(offers, m) => offers[m.pid].kind \in Kinds /\ m.pid \in Protocols
  BY Typed, KindsOfMessages
<1>3. NoOffer.kind \notin Kinds
  BY DEF NoOffer, Kinds, OpenKinds
<1> QED BY <1>1, <1>2, <1>3

\* The offer of a protocol whose identifier is new.
LEMMA ProposeC ==
    ASSUME IInv, RInv, CInv, NEW p \in Protocols, Propose(p)
    PROVE  CInv'
<1>0. /\ chanC \in Channels /\ chanA \in Channels /\ offers \in [Protocols -> Offers]
      /\ task \in [Protocols -> Tasks] /\ ChannelsOK /\ AgreementOK
  BY Typed DEF IInv, TypeOK, CInv
<1>1. /\ UNCHANGED <<chanA, processedA, lastOutA, netCA, netAC>> /\ task[p].pc = "propose"
      /\ chanC' = OfferedChannel(p, task[p].kind) /\ CanOffer(task[p].kind)
      /\ lastOutC' = Msg(OfferType(task[p].kind), p)
  BY DEF Propose, appVars, netVars, boundVars
<1>2. offers[p] = NoOffer /\ task[p].kind \in Kinds
  BY <1>1 DEF IInv, TasksOK
<1>3. PICK x \in Offers : x = [kind |-> task[p].kind, order |-> task[p].order,
                               size |-> task[p].size, expiry |-> task[p].expiry]
  BY <1>0, <1>2 DEF Tasks, Offers
<1>4. /\ offers' = [offers EXCEPT ![p] = x] /\ offers'[p] # NoOffer
      /\ \A q \in Protocols \ {p} : offers'[q] = offers[q]
  BY <1>0, <1>2, <1>3 DEF Propose, NoOffer, Kinds, OpenKinds
<1>5. chanC.state \in {"None", "Cancelled", "Established", "Settled"}
  BY <1>1 DEF CanOffer
<1>6. /\ chanC'.ref = p /\ chanC'.contract = chanC.contract
      /\ chanC'.state \in {"Offered", "SettledOffered", "RenewOffered"}
      /\ Sound(chanC')
  <2>1. CASE task[p].kind = "OpenChannel"
    BY <1>0, <1>1, <2>1 DEF CanOffer, OfferedChannel, InChannel, ChannelsOK, Sound, Awaiting, Offering
  <2>2. CASE task[p].kind = "Settle"
    BY <1>0, <1>1, <2>2 DEF CanOffer, OfferedChannel, InChannel, ChannelsOK, Sound, Awaiting, Offering
  <2>3. CASE task[p].kind \notin {"OpenChannel", "Settle"}
    <3>1. /\ chanC' = InChannel("RenewOffered", p, chanC.state, chanC.contract)
          /\ chanC.state \in {"Established", "Settled"}
      BY <1>1, <2>3 DEF CanOffer, OfferedChannel
    <3>2. chanC.state = IF chanC.contract = NoProtocol THEN "Settled" ELSE "Established"
      BY <1>0, <3>1, ProtocolsAssumption DEF ChannelsOK, Sound
    <3> QED BY <3>1, <3>2 DEF InChannel, Sound, Awaiting, Offering
  <2> QED BY <2>1, <2>2, <2>3
<1>7. chanC.contract # p /\ chanA.contract # p /\ chanA.ref # p
  BY <1>0, <1>2, ProtocolsAssumption DEF ChannelsOK, Made
<1>8. Made(chanC)' /\ Made(chanA)'
  <2>1. chanC.contract \in Protocols \union {NoProtocol} /\ chanA.contract \in Protocols \union {NoProtocol}
        /\ chanA.ref \in Protocols \union {NoProtocol}
    BY <1>0 DEF Channels
  <2> QED BY <1>0, <1>1, <1>4, <1>6, <1>7, <2>1 DEF ChannelsOK, Made
<1>9. ToApp' \subseteq ToApp \union {lastOutC'} /\ Coming' = Coming
  BY <1>1 DEF ToApp, Coming
<1>10. lastOutC'.type \in OfferTypes
  BY <1>1 DEF Msg, OfferType, OfferTypes
<1>11. \A q : Opened(offers, processedA, q) => Opened(offers', processedA', q)
  BY <1>0, <1>1, <1>2, <1>4, NewOffer DEF Opened
<1>12. ChannelsOK'
  BY <1>0, <1>1, <1>6, <1>7, <1>8, <1>9, <1>10, <1>11 DEF ChannelsOK
<1>13. \A m \in Coming : m.pid # p
  BY <1>2, OnTheWay, Nothing
<1>14. \A m \in Coming : AppSays(chanC', chanA, m)
  BY <1>0, <1>6, <1>13 DEF AgreementOK, AppSays, In
<1>15. \A m \in ToApp : CoordinatorSays(chanC', chanA, m)
  BY <1>0, <1>5, <1>6 DEF AgreementOK, CoordinatorSays, In
<1>16. CoordinatorSays(chanC', chanA, lastOutC')
  BY <1>10 DEF CoordinatorSays, OfferTypes
<1>17. InStep(chanC', chanA) /\ Agreed(chanC', chanA)
  BY <1>0, <1>5, <1>6 DEF AgreementOK, InStep, Agreed
<1> QED BY <1>1, <1>9, <1>12, <1>14, <1>15, <1>16, <1>17 DEF CInv, AgreementOK

\* A reject puts the offered channel back.
LEMMA ReceiveRejectC ==
    ASSUME IInv, RInv, CInv, ReceiveC, Head(netAC).type = "Reject"
    PROVE  CInv'
<1>0. /\ chanC \in Channels /\ chanA \in Channels /\ ChannelsOK /\ AgreementOK
      /\ netAC \in Seq(Messages)
  BY Typed DEF CInv
<1>1. /\ UNCHANGED <<offers, chanA, processedA, lastOutA, netCA>> /\ netAC # <<>> /\ netAC' = Tail(netAC)
      /\ chanC' = RollBack(chanC) /\ AcceptableC(Head(netAC)) /\ lastOutC' = lastOutC
  BY DEF ReceiveC, Coordinator, appVars, netVars, boundVars
<1>2. chanC.state \in {"Offered", "SettledOffered", "RenewOffered"}
  BY <1>1 DEF AcceptableC, ExpectsReject
<1>3. /\ chanC'.state = chanC.back /\ chanC'.ref = chanC.ref /\ chanC'.contract = chanC.contract
  BY <1>0, <1>1 DEF RollBack, Channels
<1>4. chanC'.state \in {"Cancelled", "Established", "Settled"} /\ Sound(chanC')
  <2>1. chanC.contract \in Protocols \union {NoProtocol}
    BY <1>0 DEF Channels
  <2> QED BY <1>0, <1>2, <1>3, <2>1 DEF ChannelsOK, Sound, Awaiting, Offering
<1>5. ToApp' = ToApp /\ Coming' \subseteq Coming
  BY <1>0, <1>1, QueueHead DEF ToApp, Coming
<1>6. ChannelsOK'
  <2>1. Made(chanC)' /\ Made(chanA)'
    BY <1>0, <1>1, <1>3 DEF ChannelsOK, Made
  <2>2. chanC'.state \notin Awaiting
    BY <1>4 DEF Awaiting
  <2> QED BY <1>0, <1>1, <1>4, <1>5, <2>1, <2>2 DEF ChannelsOK
<1>7. \A m \in Coming : AppSays(chanC', chanA, m)
  BY <1>0, <1>4 DEF AgreementOK, AppSays, In
<1>8. \A m \in ToApp : CoordinatorSays(chanC', chanA, m)
  BY <1>0, <1>2, <1>3 DEF AgreementOK, CoordinatorSays, In
<1>9. InStep(chanC', chanA) /\ Agreed(chanC', chanA)
  BY <1>0, <1>2, <1>3, <1>4 DEF AgreementOK, InStep, Agreed
<1> QED BY <1>1, <1>5, <1>6, <1>7, <1>8, <1>9 DEF CInv, AgreementOK

\* An answer that rust-dlc accepts moves the coordinator's channel on.
LEMMA ReceiveAnswerC ==
    ASSUME IInv, RInv, CInv, ReceiveC, Head(netAC).type # "Reject"
    PROVE  CInv'
<1>0. /\ chanC \in Channels /\ chanA \in Channels /\ ChannelsOK /\ AgreementOK
      /\ netAC \in Seq(Messages)
  BY Typed DEF CInv
<1>1. PICK m \in Messages : m = Head(netAC) /\ m \in Coming
  BY <1>0, QueueHead DEF ReceiveC, Coming
<1>2. PICK p \in Protocols : p = m.pid
  BY DEF Messages
<1>3. /\ UNCHANGED <<offers, chanA, processedA, lastOutA, netCA>> /\ netAC # <<>> /\ netAC' = Tail(netAC)
      /\ chanC.state = Coordinator(m.type)[1] /\ chanC.ref = p
      /\ chanC' = Advance(chanC, m, Coordinator(m.type))
      /\ lastOutC' = IF Coordinator(m.type)[3] = "None" THEN lastOutC ELSE Msg(Coordinator(m.type)[3], p)
  BY <1>1, <1>2 DEF ReceiveC, AcceptableC, Expects, appVars, netVars, boundVars
<1>4. m.type \in {"Accept", "SettleAccept", "SettleFinalize", "RenewAccept", "RenewFinalize"}
  <2>1. chanC.state # "Never"
    BY <1>0 DEF Channels, ChannelStates
  <2> QED BY <1>3, <2>1 DEF Coordinator
<1>5. AppSays(chanC, chanA, m) /\ chanC.contract # p
  BY <1>0, <1>1, <1>3, <1>4 DEF AgreementOK, ChannelsOK, Coordinator, Awaiting
<1>6. Opened(offers, processedA, p)
  BY <1>1, <1>2, <1>4 DEF RInv, AnswersOK
<1>7. Coming' \subseteq Coming
  BY <1>0, <1>3, QueueHead DEF Coming
<1>8. offers[p] # NoOffer
  BY <1>1, <1>2, OnTheWay, Nothing
<1>9. chanC'.ref = p
  BY <1>0, <1>3 DEF Advance, Channels
<1>10. CASE m.type = "Accept"
  <2>1. In(chanC, "Offered", p) /\ In(chanA, "Accepted", p)
    BY <1>2, <1>3, <1>5, <1>10 DEF Coordinator, AppSays, In
  <2>2. chanC'.state = "Established" /\ chanC'.contract = p
    BY <1>0, <1>2, <1>3, <1>10 DEF Coordinator, Advance, Channels
  <2>3. lastOutC' = Msg("Sign", p)
    BY <1>3, <1>10 DEF Coordinator
  <2>4. lastOutC'.type = "Sign" /\ lastOutC'.pid = p /\ ToApp' \subseteq ToApp \union {lastOutC'}
    BY <1>3, <2>3 DEF Msg, ToApp
  <2>5. ChannelsOK'
    <3>1. Sound(chanC') /\ Made(chanC)' /\ Made(chanA)' /\ chanC'.state \notin Awaiting
      BY <1>0, <1>3, <1>8, <1>9, <2>2 DEF ChannelsOK, Sound, Made, Awaiting, Offering
    <3> QED BY <1>0, <1>3, <1>6, <2>4, <3>1 DEF ChannelsOK
  <2>6. \A n \in Coming : AppSays(chanC', chanA, n)
    BY <1>0, <2>1, <2>2 DEF AgreementOK, AppSays, In
  <2>7. \A n \in ToApp \union {lastOutC'} : CoordinatorSays(chanC', chanA, n)
    BY <1>0, <2>1, <2>2, <2>4 DEF AgreementOK, CoordinatorSays, In
  <2>8. InStep(chanC', chanA) /\ Agreed(chanC', chanA)
    BY <2>1, <2>2 DEF InStep, Agreed, In
  <2> QED BY <1>3, <1>7, <2>4, <2>5, <2>6, <2>7, <2>8 DEF CInv, AgreementOK
<1>11. CASE m.type = "SettleAccept"
  <2>1. In(chanC, "SettledOffered", p) /\ In(chanA, "SettledAccepted", p)
    BY <1>2, <1>3, <1>5, <1>11 DEF Coordinator, AppSays, In
  <2>2. chanC'.state = "SettledConfirmed" /\ chanC'.contract = chanC.contract
    BY <1>0, <1>2, <1>3, <1>11 DEF Coordinator, Advance, Channels
  <2>3. lastOutC' = Msg("SettleConfirm", p)
    BY <1>3, <1>11 DEF Coordinator
  <2>4. lastOutC'.type = "SettleConfirm" /\ lastOutC'.pid = p /\ ToApp' \subseteq ToApp \union {lastOutC'}
    BY <1>3, <2>3 DEF Msg, ToApp
  <2>5. ChannelsOK'
    <3>1. Sound(chanC') /\ Made(chanC)' /\ Made(chanA)' /\ chanC'.contract # chanC'.ref
      BY <1>0, <1>3, <1>5, <1>8, <1>9, <1>11, <2>2 DEF ChannelsOK, Sound, Made
    <3> QED BY <1>0, <1>3, <1>6, <2>4, <3>1 DEF ChannelsOK
  <2>6. \A n \in Coming : AppSays(chanC', chanA, n)
    BY <1>0, <2>1, <2>2 DEF AgreementOK, AppSays, In
  <2>7. \A n \in ToApp \union {lastOutC'} : CoordinatorSays(chanC', chanA, n)
    BY <1>0, <1>9, <2>1, <2>2, <2>4 DEF AgreementOK, CoordinatorSays, In
  <2>8. InStep(chanC', chanA) /\ Agreed(chanC', chanA)
    BY <1>0, <1>9, <2>1, <2>2 DEF AgreementOK, InStep, Agreed, In
  <2> QED BY <1>3, <1>7, <2>4, <2>5, <2>6, <2>7, <2>8 DEF CInv, AgreementOK
<1>12. CASE m.type = "SettleFinalize"
  <2>1. In(chanC, "SettledConfirmed", p)
    BY <1>2, <1>3, <1>12 DEF Coordinator, In
  <2>2. chanA.state \in {"Settled", "RenewOffered", "RenewAccepted"} /\ chanA.contract = NoProtocol
    BY <1>0, <1>2, <1>5, <1>12, <2>1 DEF AgreementOK, InStep, AppSays, In
  <2>3. chanC'.state = "Settled" /\ chanC'.contract = NoProtocol
    BY <1>0, <1>2, <1>3, <1>12 DEF Coordinator, Advance, Channels
  <2>4. lastOutC' = lastOutC /\ ToApp' = ToApp
    BY <1>3, <1>12 DEF Coordinator, ToApp
  <2>5. ChannelsOK'
    <3>1. Sound(chanC') /\ Made(chanC)' /\ Made(chanA)' /\ chanC'.state \notin Awaiting
      BY <1>0, <1>3, <1>8, <1>9, <2>3 DEF ChannelsOK, Sound, Made, Awaiting, Offering
    <3> QED BY <1>0, <1>3, <2>4, <3>1 DEF ChannelsOK
  <2>6. \A n \in Coming : AppSays(chanC', chanA, n)
    BY <1>0, <2>3 DEF AgreementOK, AppSays, In
  <2>7. \A n \in ToApp : CoordinatorSays(chanC', chanA, n)
    BY <1>0, <2>1, <2>2, <2>3 DEF AgreementOK, CoordinatorSays, In
  <2>8. InStep(chanC', chanA) /\ Agreed(chanC', chanA)
    BY <2>2, <2>3 DEF InStep, Agreed
  <2> QED BY <1>3, <1>7, <2>4, <2>5, <2>6, <2>7, <2>8 DEF CInv, AgreementOK
<1>13. CASE m.type = "RenewAccept"
  <2>1. In(chanC, "RenewOffered", p) /\ In(chanA, "RenewAccepted", p)
    BY <1>2, <1>3, <1>5, <1>13 DEF Coordinator, AppSays, In
  <2>2. chanC'.state = "RenewConfirmed" /\ chanC'.contract = chanC.contract
    BY <1>0, <1>2, <1>3, <1>13 DEF Coordinator, Advance, Channels
  <2>3. lastOutC' = Msg("RenewConfirm", p)
    BY <1>3, <1>13 DEF Coordinator
  <2>4. lastOutC'.type = "RenewConfirm" /\ lastOutC'.pid = p /\ ToApp' \subseteq ToApp \union {lastOutC'}
    BY <1>3, <2>3 DEF Msg, ToApp
  <2>5. ChannelsOK'
    <3>1. Sound(chanC') /\ Made(chanC)' /\ Made(chanA)' /\ chanC'.contract # chanC'.ref
      BY <1>0, <1>3, <1>5, <1>8, <1>9, <1>13, <2>2 DEF ChannelsOK, Sound, Made
    <3> QED BY <1>0, <1>3, <1>6, <2>4, <3>1 DEF ChannelsOK
  <2>6. \A n \in Coming : AppSays(chanC', chanA, n)
    BY <1>0, <2>1, <2>2 DEF AgreementOK, AppSays, In
  <2>7. \A n \in ToApp \union {lastOutC'} : CoordinatorSays(chanC', chanA, n)
    BY <1>0, <1>9, <2>1, <2>2, <2>4 DEF AgreementOK, CoordinatorSays, In
  <2>8. InStep(chanC', chanA) /\ Agreed(chanC', chanA)
    BY <1>0, <1>9, <2>1, <2>2 DEF AgreementOK, InStep, Agreed, In
  <2> QED BY <1>3, <1>7, <2>4, <2>5, <2>6, <2>7, <2>8 DEF CInv, AgreementOK
<1>14. CASE m.type = "RenewFinalize"
  <2>1. In(chanC, "RenewConfirmed", p)
    BY <1>2, <1>3, <1>14 DEF Coordinator, In
  <2>2. In(chanA, "RenewFinalized", p)
    BY <1>0, <1>2, <1>5, <1>14, <2>1 DEF AgreementOK, InStep, AppSays, In
  <2>3. chanC'.state = "Established" /\ chanC'.contract = p
    BY <1>0, <1>2, <1>3, <1>14 DEF Coordinator, Advance, Channels
  <2>4. lastOutC' = Msg("RenewRevoke", p)
    BY <1>3, <1>14 DEF Coordinator
  <2>5. lastOutC'.type = "RenewRevoke" /\ lastOutC'.pid = p /\ ToApp' \subseteq ToApp \union {lastOutC'}
    BY <1>3, <2>4 DEF Msg, ToApp
  <2>6. ChannelsOK'
    <3>1. Sound(chanC') /\ Made(chanC)' /\ Made(chanA)' /\ chanC'.state \notin Awaiting
      BY <1>0, <1>3, <1>8, <1>9, <2>3 DEF ChannelsOK, Sound, Made, Awaiting, Offering
    <3> QED BY <1>0, <1>3, <1>6, <2>5, <3>1 DEF ChannelsOK
  <2>7. \A n \in Coming : AppSays(chanC', chanA, n)
    BY <1>0, <2>2, <2>3 DEF AgreementOK, AppSays, In
  <2>8. \A n \in ToApp \union {lastOutC'} : CoordinatorSays(chanC', chanA, n)
    BY <1>0, <2>2, <2>3, <2>5 DEF AgreementOK, CoordinatorSays, In
  <2>9. InStep(chanC', chanA) /\ Agreed(chanC', chanA)
    BY <2>2, <2>3 DEF InStep, Agreed, In
  <2> QED BY <1>3, <1>7, <2>5, <2>6, <2>7, <2>8, <2>9 DEF CInv, AgreementOK
<1> QED BY <1>4, <1>10, <1>11, <1>12, <1>13, <1>14

-----------------------------------------------------------------------------
(* The app moves *)

\* An offer that rust-dlc takes.
LEMMA ReceiveOfferA ==
    ASSUME IInv, RInv, CInv, ReceiveA, Head(netCA).type \in OfferTypes
    PROVE  CInv'
<1>0. /\ chanC \in Channels /\ chanA \in Channels /\ ChannelsOK /\ AgreementOK
      /\ netCA \in Seq(Messages)
  BY Typed DEF CInv
<1>1. PICK m \in Messages : m = Head(netCA) /\ m \in ToApp
  BY <1>0, QueueHead DEF ReceiveA, ToApp
<1>2. PICK p \in Protocols : p = m.pid
  BY DEF Messages
<1>3. /\ UNCHANGED <<offers, chanC, processedA, lastOutC, netAC>> /\ netCA # <<>> /\ netCA' = Tail(netCA)
      /\ CanReceive(m.type) /\ chanA' = ReceivedChannel(m)
      /\ lastOutA' = lastOutA
  BY <1>1, <1>2 DEF ReceiveA, App, OfferTypes, coordinatorVars, netVars, boundVars
<1>4. /\ chanA.state \in {"None", "Cancelled", "Established", "Settled"}
      /\ chanA'.ref = p /\ chanA'.contract = chanA.contract /\ Sound(chanA')
      /\ chanA'.state \in {"Offered", "SettledReceived", "RenewOffered"}
      /\ chanA.state = "Settled" => chanA'.state = "RenewOffered"
  <2>1. CASE m.type = "Offer"
    BY <1>0, <1>2, <1>3, <2>1 DEF CanReceive, ReceivedChannel, InChannel, ChannelsOK, Sound, Awaiting, Offering
  <2>2. CASE m.type = "SettleOffer"
    BY <1>0, <1>2, <1>3, <2>2 DEF CanReceive, ReceivedChannel, InChannel, ChannelsOK, Sound, Awaiting, Offering
  <2>3. CASE m.type = "RenewOffer"
    <3>1. /\ chanA' = InChannel("RenewOffered", p, chanA.state, chanA.contract)
          /\ chanA.state \in {"Established", "Settled"}
      BY <1>2, <1>3, <2>3 DEF CanReceive, ReceivedChannel
    <3>2. chanA.state = IF chanA.contract = NoProtocol THEN "Settled" ELSE "Established"
      BY <1>0, <3>1, ProtocolsAssumption DEF ChannelsOK, Sound
    <3> QED BY <3>1, <3>2 DEF InChannel, Sound, Awaiting, Offering
  <2> QED BY <1>1, <2>1, <2>2, <2>3 DEF OfferTypes
<1>5. offers[p] # NoOffer
  BY <1>1, <1>2, OnTheWay, Nothing
<1>6. ToApp' \subseteq ToApp /\ Coming' = Coming
  BY <1>0, <1>3, QueueHead DEF ToApp, Coming
<1>7. ChannelsOK'
  <2>1. Made(chanC)' /\ Made(chanA)'
    BY <1>0, <1>3, <1>4, <1>5 DEF ChannelsOK, Made
  <2> QED BY <1>0, <1>3, <1>4, <1>6, <2>1 DEF ChannelsOK
<1>8. \A n \in Coming : AppSays(chanC, chanA', n)
  BY <1>0, <1>4 DEF AgreementOK, AppSays, In
<1>9. \A n \in ToApp : CoordinatorSays(chanC, chanA', n)
  BY <1>0, <1>4 DEF AgreementOK, CoordinatorSays, In
<1>10. InStep(chanC, chanA') /\ Agreed(chanC, chanA')
  BY <1>0, <1>4 DEF AgreementOK, InStep, Agreed, In
<1> QED BY <1>3, <1>6, <1>7, <1>8, <1>9, <1>10 DEF CInv, AgreementOK

\* An answer that rust-dlc accepts moves the app's channel on.
LEMMA ReceiveAnswerA ==
    ASSUME IInv, RInv, CInv, ReceiveA, Head(netCA).type \notin OfferTypes
    PROVE  CInv'
<1>0. /\ chanC \in Channels /\ chanA \in Channels /\ ChannelsOK /\ AgreementOK
      /\ netCA \in Seq(Messages)
  BY Typed DEF CInv
<1>1. PICK m \in Messages : m = Head(netCA) /\ m \in ToApp
  BY <1>0, QueueHead DEF ReceiveA, ToApp
<1>2. PICK p \in Protocols : p = m.pid
  BY DEF Messages
<1>3. /\ UNCHANGED <<offers, chanC, processedA, lastOutC, netAC>> /\ netCA # <<>> /\ netCA' = Tail(netCA)
      /\ chanA.state = App(m.type)[1] /\ chanA.ref = p
      /\ chanA' = Advance(chanA, m, App(m.type))
      /\ lastOutA' = IF App(m.type)[3] = "None" THEN lastOutA ELSE Msg(App(m.type)[3], p)
  BY <1>1, <1>2 DEF ReceiveA, Expects, coordinatorVars, netVars, boundVars
<1>4. m.type \in {"Sign", "SettleConfirm", "RenewConfirm", "RenewRevoke"}
  <2>1. chanA.state # "Never"
    BY <1>0 DEF Channels, ChannelStates
  <2> QED BY <1>3, <2>1 DEF App
<1>5. CoordinatorSays(chanC, chanA, m)
  BY <1>0, <1>1 DEF AgreementOK
<1>6. offers[p] # NoOffer
  BY <1>1, <1>2, OnTheWay, Nothing
<1>7. ToApp' \subseteq ToApp
  BY <1>0, <1>3, QueueHead DEF ToApp
<1>8. chanA'.ref = p
  BY <1>0, <1>3 DEF Advance, Channels
<1>9. CASE m.type \in {"Sign", "RenewRevoke"}
  <2>1. In(chanA, "Accepted", p) \/ In(chanA, "RenewFinalized", p)
    BY <1>3, <1>9 DEF App, In
  <2>2. chanC.contract = p
    BY <1>2, <1>3, <1>5, <1>9 DEF App, In, CoordinatorSays
  <2>3. chanA'.state = "Established" /\ chanA'.contract = p
    BY <1>0, <1>2, <1>3, <1>9 DEF App, Advance, Channels
  <2>4. lastOutA' = lastOutA /\ Coming' = Coming
    BY <1>3, <1>9 DEF App, Coming
  <2>5. ChannelsOK'
    <3>1. Sound(chanA') /\ Made(chanC)' /\ Made(chanA)'
      BY <1>0, <1>3, <1>6, <1>8, <2>3 DEF ChannelsOK, Sound, Made, Awaiting, Offering
    <3> QED BY <1>0, <1>3, <1>7, <3>1 DEF ChannelsOK
  <2>6. chanC.state # "Offered"
    BY <1>0, <2>2, ProtocolsAssumption DEF ChannelsOK, Sound
  <2>7. \A n \in Coming : AppSays(chanC, chanA', n)
    BY <1>0, <2>1, <2>3, <2>6 DEF AgreementOK, AppSays, In
  <2>8. \A n \in ToApp : CoordinatorSays(chanC, chanA', n)
    BY <2>3 DEF CoordinatorSays, In
  <2>9. chanC.state \notin {"SettledConfirmed", "RenewConfirmed"}
    <3>1. chanC.state # "SettledConfirmed"
      BY <1>0, <2>1 DEF AgreementOK, InStep, In
    <3>2. chanC.state = "RenewConfirmed" => chanC.ref = p
      BY <1>0, <2>1 DEF AgreementOK, InStep, In
    <3>3. chanC.state = "RenewConfirmed" => chanC.contract # chanC.ref
      BY <1>0 DEF ChannelsOK, Awaiting
    <3> QED BY <2>2, <3>1, <3>2, <3>3
  <2>10. InStep(chanC, chanA') /\ Agreed(chanC, chanA')
    BY <2>2, <2>3, <2>9 DEF InStep, Agreed
  <2> QED BY <1>3, <1>7, <2>4, <2>5, <2>7, <2>8, <2>10 DEF CInv, AgreementOK
<1>10. CASE m.type = "SettleConfirm"
  <2>1. In(chanA, "SettledAccepted", p) /\ In(chanC, "SettledConfirmed", p)
    BY <1>2, <1>3, <1>5, <1>10 DEF App, In, CoordinatorSays
  <2>2. chanA'.state = "Settled" /\ chanA'.contract = NoProtocol
    BY <1>0, <1>2, <1>3, <1>10 DEF App, Advance, Channels
  <2>3. lastOutA' = Msg("SettleFinalize", p)
    BY <1>3, <1>10 DEF App
  <2>4. lastOutA'.type = "SettleFinalize" /\ Coming' \subseteq Coming \union {lastOutA'}
    BY <1>3, <2>3 DEF Msg, Coming
  <2>5. ChannelsOK'
    <3>1. Sound(chanA') /\ Made(chanC)' /\ Made(chanA)'
      BY <1>0, <1>3, <1>6, <1>8, <2>2 DEF ChannelsOK, Sound, Made, Awaiting, Offering
    <3> QED BY <1>0, <1>3, <1>7, <3>1 DEF ChannelsOK
  <2>6. \A n \in Coming \union {lastOutA'} : AppSays(chanC, chanA', n)
    BY <1>0, <2>1, <2>2, <2>4 DEF AgreementOK, AppSays, In
  <2>7. \A n \in ToApp : CoordinatorSays(chanC, chanA', n)
    BY <2>2 DEF CoordinatorSays, In
  <2>8. InStep(chanC, chanA') /\ Agreed(chanC, chanA')
    BY <2>1, <2>2 DEF InStep, Agreed, In
  <2> QED BY <1>3, <1>7, <2>4, <2>5, <2>6, <2>7, <2>8 DEF CInv, AgreementOK
<1>11. CASE m.type = "RenewConfirm"
  <2>1. In(chanA, "RenewAccepted", p) /\ In(chanC, "RenewConfirmed", p)
    BY <1>2, <1>3, <1>5, <1>11 DEF App, In, CoordinatorSays
  <2>2. chanA'.state = "RenewFinalized" /\ chanA'.contract = chanA.contract
    BY <1>0, <1>2, <1>3, <1>11 DEF App, Advance, Channels
  <2>3. lastOutA' = Msg("RenewFinalize", p)
    BY <1>3, <1>11 DEF App
  <2>4. lastOutA'.type = "RenewFinalize" /\ Coming' \subseteq Coming \union {lastOutA'}
    BY <1>3, <2>3 DEF Msg, Coming
  <2>5. ChannelsOK'
    <3>1. Sound(chanA') /\ Made(chanC)' /\ Made(chanA)'
      BY <1>0, <1>3, <1>6, <1>8, <2>2 DEF ChannelsOK, Sound, Made, Awaiting, Offering
    <3> QED BY <1>0, <1>3, <1>7, <3>1 DEF ChannelsOK
  <2>6. \A n \in Coming \union {lastOutA'} : AppSays(chanC, chanA', n)
    BY <1>0, <2>1, <2>2, <2>4 DEF AgreementOK, AppSays, In
  <2>7. \A n \in ToApp : CoordinatorSays(chanC, chanA', n)
    BY <1>0, <1>8, <2>1, <2>2 DEF AgreementOK, CoordinatorSays, In
  <2>8. InStep(chanC, chanA') /\ Agreed(chanC, chanA')
    BY <1>0, <1>8, <2>1, <2>2 DEF AgreementOK, InStep, Agreed, In
  <2> QED BY <1>3, <1>7, <2>4, <2>5, <2>6, <2>7, <2>8 DEF CInv, AgreementOK
<1> QED BY <1>4, <1>9, <1>10, <1>11

\* The app puts an offered channel back and sends nothing but rejects.
LEMMA AppRollsBack ==
    ASSUME IInv, RInv, CInv, UNCHANGED <<offers, chanC>>, processedA \subseteq processedA',
           chanA.state \in Offering, chanA' = RollBack(chanA), ToApp' \subseteq ToApp,
           \A m \in Coming' : m \in Coming \/ m.type = "Reject"
    PROVE  CInv'
<1>0. /\ chanC \in Channels /\ chanA \in Channels /\ ChannelsOK /\ AgreementOK
      /\ chanA.contract \in Protocols \union {NoProtocol}
  BY Typed DEF CInv, Channels
<1>1. chanA'.state = chanA.back /\ chanA'.ref = chanA.ref /\ chanA'.contract = chanA.contract
  BY <1>0 DEF RollBack, Channels
<1>2. chanA'.state \in {"Cancelled", "Established", "Settled"} /\ Sound(chanA')
  BY <1>0, <1>1 DEF ChannelsOK, Sound, Awaiting, Offering
<1>3. chanA.state = "RenewOffered" /\ chanA.contract = NoProtocol => chanA'.state = "Settled"
  BY <1>0, <1>1 DEF ChannelsOK, Sound
<1>4. ChannelsOK'
  <2>1. Made(chanC)' /\ Made(chanA)'
    BY <1>0, <1>1 DEF ChannelsOK, Made
  <2> QED BY <1>0, <1>2, <2>1, StillOpened DEF ChannelsOK
<1>5. \A n \in Coming' : AppSays(chanC, chanA', n)
  <2>1. \A n \in Coming : AppSays(chanC, chanA', n)
    BY <1>0, <1>2 DEF AgreementOK, AppSays, In, Offering
  <2> QED BY <2>1 DEF AppSays
<1>6. \A n \in ToApp : CoordinatorSays(chanC, chanA', n)
  BY <1>2 DEF CoordinatorSays, In
<1>7. InStep(chanC, chanA') /\ Agreed(chanC, chanA')
  BY <1>0, <1>1, <1>3 DEF AgreementOK, InStep, Agreed, In, Offering
<1> QED BY <1>4, <1>5, <1>6, <1>7 DEF CInv, AgreementOK

\* The app accepts an offer in rust-dlc; it may send the answer.
LEMMA AppAccepts ==
    ASSUME IInv, RInv, CInv, UNCHANGED <<offers, chanC>>, processedA \subseteq processedA', Pending,
           chanA' = [chanA EXCEPT !.state = Acceptance(inA.type)[2]], ToApp' \subseteq ToApp,
           Coming' \subseteq Coming \union {Msg(Acceptance(inA.type)[3], inA.pid)}
    PROVE  CInv'
<1>0. /\ chanC \in Channels /\ chanA \in Channels /\ ChannelsOK /\ AgreementOK /\ AnswersOK
      /\ offers \in [Protocols -> Offers]
  BY Typed DEF CInv, RInv
<1>1. PICK p : p = inA.pid
  OBVIOUS
<1>2. inA.type \in OfferTypes /\ chanA.state = Acceptance(inA.type)[1] /\ chanA.state \in Offering
  BY DEF Pending, Acceptance, OfferTypes, Offering
<1>3. chanA.ref = p /\ inA \notin processedA /\ p \in Protocols
  BY <1>0, <1>1, <1>2 DEF AnswersOK, ChannelsOK, Sound
<1>4. Belongs(offers, inA)
  <2>1. inA # NoMessage
    BY <1>2, Nothing DEF OfferTypes
  <2> QED BY <2>1 DEF IInv, MessagesOK, Slot
<1>5. \A m \in Coming : m.type \notin {"None", "Reject"} => m.pid # p
  BY <1>0, <1>2, <1>3 DEF AnswersOK
<1>6. ~ Opened(offers, processedA, p)
  BY <1>0, <1>1, <1>2, <1>3, <1>4, OneOffer DEF Opened
<1>7. \A m \in ToApp : m.type \notin OfferTypes \union {"None"} => m.pid # p
  BY <1>0, <1>6 DEF ChannelsOK
<1>8. /\ chanA'.ref = p /\ chanA'.contract = chanA.contract
      /\ chanA'.state = Acceptance(inA.type)[2]
  BY <1>0, <1>3 DEF Channels
<1>9. \/ chanA.state = "Offered" /\ chanA'.state = "Accepted" /\ Acceptance(inA.type)[3] = "Accept"
      \/ /\ chanA.state = "SettledReceived" /\ chanA'.state = "SettledAccepted"
         /\ Acceptance(inA.type)[3] = "SettleAccept"
      \/ /\ chanA.state = "RenewOffered" /\ chanA'.state = "RenewAccepted"
         /\ Acceptance(inA.type)[3] = "RenewAccept"
  BY <1>2, <1>8 DEF Acceptance
<1>10. ChannelsOK'
  <2>1. Made(chanC)' /\ Made(chanA)'
    BY <1>0, <1>3, <1>8 DEF ChannelsOK, Made
  <2>2. Sound(chanA')
    BY <1>0, <1>3, <1>8, <1>9 DEF ChannelsOK, Sound, Awaiting, Offering
  <2> QED BY <1>0, <2>1, <2>2, StillOpened DEF ChannelsOK
<1>11. \A n \in Coming : AppSays(chanC, chanA', n)
  BY <1>0, <1>5, <1>8, <1>9 DEF AgreementOK, AppSays, In
<1>12. AppSays(chanC, chanA', Msg(Acceptance(inA.type)[3], inA.pid))
  <2>1. PICK m : m = Msg(Acceptance(inA.type)[3], inA.pid)
    OBVIOUS
  <2>2. m.type = Acceptance(inA.type)[3] /\ m.pid = p
    BY <1>1, <2>1 DEF Msg
  <2>3. AppSays(chanC, chanA', m)
    BY <1>0, <1>3, <1>8, <1>9, <2>2 DEF AppSays, In, ChannelsOK, Sound
  <2> QED BY <2>1, <2>3
<1>13. \A n \in ToApp : CoordinatorSays(chanC, chanA', n)
  BY <1>7, <1>8, <1>9 DEF CoordinatorSays, In, OfferTypes
<1>14. InStep(chanC, chanA') /\ Agreed(chanC, chanA')
  BY <1>0, <1>8, <1>9 DEF AgreementOK, InStep, Agreed, In
<1> QED BY <1>10, <1>11, <1>12, <1>13, <1>14 DEF CInv, AgreementOK

\* The app accepts the offer and answers.
LEMMA AcceptOfferA ==
    ASSUME IInv, RInv, CInv, AcceptOffer
    PROVE  CInv'
<1>1. /\ UNCHANGED <<offers, chanC, lastOutC, netCA>> /\ processedA \subseteq processedA' /\ Pending
      /\ chanA' = [chanA EXCEPT !.state = Acceptance(inA.type)[2]]
      /\ lastOutA' = Msg(Acceptance(inA.type)[3], inA.pid)
      /\ SendLastA(Msg(Acceptance(inA.type)[3], inA.pid))
  BY DEF AcceptOffer, DoneA, coordinatorVars
<1>2. lastOutA' \in MaybeMessage
  <2>1. TypeOK'
    BY AcceptOfferOK DEF IInv
  <2> QED BY <2>1 DEF TypeOK
<1>3. PICK n \in MaybeMessage : n = Msg(Acceptance(inA.type)[3], inA.pid)
  BY <1>1, <1>2
<1>4. On(netAC') \subseteq On(netAC) \union {n}
  BY <1>1, <1>3, SendLastAOn
<1>5. ToApp' = ToApp /\ Coming' \subseteq Coming \union {Msg(Acceptance(inA.type)[3], inA.pid)}
  BY <1>1, <1>3, <1>4 DEF ToApp, Coming
<1> QED BY <1>1, <1>5, AppAccepts

\* The handler of the offer fails half way and no answer is sent.
LEMMA AcceptUnansweredA ==
    ASSUME IInv, RInv, CInv, AcceptUnanswered
    PROVE  CInv'
<1>1. /\ UNCHANGED <<offers, chanC, lastOutC, lastOutA, netCA, netAC>>
      /\ processedA \subseteq processedA' /\ Pending
      /\ chanA' = chanA \/ chanA' = [chanA EXCEPT !.state = Acceptance(inA.type)[2]]
  BY DEF AcceptUnanswered, DoneA, coordinatorVars, netVars
<1>2. ToApp' = ToApp /\ Coming' = Coming
  BY <1>1 DEF ToApp, Coming
<1>3. CASE chanA' = chanA
  BY <1>1, <1>2, <1>3, Kept
<1>4. CASE chanA' = [chanA EXCEPT !.state = Acceptance(inA.type)[2]]
  BY <1>1, <1>2, <1>4, AppAccepts
<1> QED BY <1>1, <1>3, <1>4

\* The app rejects the offer.
LEMMA RejectOfferA ==
    ASSUME IInv, RInv, CInv, RejectOffer
    PROVE  CInv'
<1>1. /\ UNCHANGED <<offers, chanC, lastOutC, netCA>> /\ processedA \subseteq processedA' /\ Pending
      /\ chanA' = RollBack(chanA)
  BY DEF RejectOffer, DoneA, coordinatorVars
<1>2. PICK s : /\ lastOutA' = [type |-> "Reject", pid |-> inA.pid, ts |-> s]
               /\ SendLastA([type |-> "Reject", pid |-> inA.pid, ts |-> s])
  BY DEF RejectOffer, SendReject
<1>3. lastOutA' \in MaybeMessage
  <2>1. TypeOK'
    BY RejectOfferOK DEF IInv
  <2> QED BY <2>1 DEF TypeOK
<1>4. PICK n \in MaybeMessage : n = lastOutA' /\ n.type = "Reject" /\ SendLastA(n)
  BY <1>2, <1>3
<1>5. On(netAC') \subseteq On(netAC) \union {n}
  BY <1>4, SendLastAOn
<1>6. ToApp' = ToApp
  BY <1>1 DEF ToApp
<1>7. \A m \in Coming' : m \in Coming \/ m.type = "Reject"
  BY <1>4, <1>5 DEF Coming
<1>8. chanA.state \in Offering
  BY <1>1 DEF Pending, Acceptance, OfferTypes, Offering
<1> QED BY <1>1, <1>6, <1>7, <1>8, AppRollsBack

\* On connect the app rejects the offer it has not accepted.
LEMMA ConnectAndRejectA ==
    ASSUME IInv, RInv, CInv, ConnectAndReject
    PROVE  CInv'
<1>1. /\ UNCHANGED <<offers, chanC, lastOutC, processedA>> /\ netCA' = Resend(netCA, lastOutC)
      /\ chanA' = RollBack(chanA) /\ chanA.state \in Offering
      /\ netAC' = Append(IF chanA.state = "Offered" THEN Resend(netAC, lastOutA) ELSE netAC, lastOutA')
  BY DEF ConnectAndReject, Offering
<1>2. PICK n \in Messages : n = lastOutA' /\ n.type = "Reject"
  <2>1. TypeOK'
    BY ConnectAndRejectOK DEF IInv
  <2>2. lastOutA'.type = "Reject"
    BY DEF ConnectAndReject
  <2> QED BY <2>1, <2>2, Nothing DEF TypeOK, MaybeMessage
<1>3. ToApp' \subseteq ToApp
  BY <1>1, Typed, OnResend DEF ToApp
<1>4. PICK q \in Seq(Messages) : On(q) \subseteq Coming /\ netAC' = Append(q, n)
  <2>1. On(Resend(netAC, lastOutA)) \subseteq Coming
    BY Typed, OnResend DEF Coming
  <2>2. Resend(netAC, lastOutA) \in Seq(Messages)
    BY Typed DEF Resend, MaybeMessage
  <2> QED BY <1>1, <1>2, <2>1, <2>2, Typed DEF Coming
<1>5. On(netAC') \subseteq Coming \union {n}
  BY <1>4, QueueAppend
<1>6. \A m \in Coming' : m \in Coming \/ m.type = "Reject"
  BY <1>2, <1>5 DEF Coming
<1> QED BY <1>1, <1>3, <1>6, AppRollsBack

-----------------------------------------------------------------------------
(* The invariant, and what it is for *)

\* Nothing is offered and nothing is agreed.
LEMMA InitC ==
    ASSUME Init
    PROVE  CInv
<1>1. /\ chanC.state = "None" /\ chanC.ref = NoProtocol /\ chanC.contract = NoProtocol
      /\ chanA.state = "None" /\ chanA.ref = NoProtocol /\ chanA.contract = NoProtocol
  BY DEF Init, InChannel
<1>2. ToApp = {NoMessage} /\ Coming = {NoMessage}
  BY QueueEmpty DEF Init, ToApp, Coming
<1>3. ChannelsOK
  BY <1>1, <1>2, Nothing DEF ChannelsOK, Sound, Made, Awaiting, Offering
<1>4. AgreementOK
  BY <1>1, <1>2, Nothing DEF AgreementOK, AppSays, CoordinatorSays, InStep, Agreed
<1> QED BY <1>3, <1>4 DEF CInv

\* Every step preserves the invariant.
LEMMA NextC ==
    ASSUME IInv, RInv, CInv, [Next]_vars
    PROVE  CInv'
<1>1. CASE UNCHANGED vars
  <2>1. UNCHANGED <<offers, chanC, chanA, processedA, lastOutC, lastOutA, netCA, netAC>>
    BY <1>1 DEF vars
  <2>2. ToApp' = ToApp /\ Coming' = Coming
    BY <2>1 DEF ToApp, Coming
  <2> QED BY <2>1, <2>2, Kept
<1>2. ASSUME NEW p \in Protocols, NewOrder(p) \/ ProcessOrder(p) \/ BeginRollover(p) PROVE CInv'
  BY <1>2, OrdersC
<1>3. ASSUME NEW p \in Protocols, RunProtocol(p) PROVE CInv'
  BY <1>3, ProposeC, OrdersC, SendC DEF RunProtocol
<1>4. CASE \/ \E o \in TraderOrders : SubmitInVain(o) \/ OrderPosted(o) \/ OrderNotPosted(o)
           \/ SubmitRefused
           \/ \E o \in Orders : GiveUp(o) \/ OnTradeError(o) \/ CheckOpenOrders(o)
           \/ Tick
  BY <1>4, OtherC
<1>5. CASE HandlerC
  BY <1>5, DropC, ReceiveRejectC, ReceiveAnswerC, SendC, OtherC DEF HandlerC
<1>6. CASE HandlerA
  BY <1>6, DropC, ReceiveOfferA, ReceiveAnswerA, ForceRejectC, AcceptOfferA, RejectOfferA,
     AcceptUnansweredA, CompleteA DEF HandlerA
<1>7. CASE Connect \/ Disconnect \/ CrashC \/ CrashA
  BY <1>7, ConnectionC, ConnectAndRejectA DEF Connect
<1> QED BY <1>1, <1>2, <1>3, <1>4, <1>5, <1>6, <1>7 DEF Next

\* The three invariants hold together in every reachable state.
THEOREM ContractInvariance == Spec => [](IInv /\ RInv /\ CInv)
<1>1. Init => IInv /\ RInv /\ CInv
  BY InitOK, InitR, InitC
<1>2. IInv /\ RInv /\ CInv /\ [Next]_vars => (IInv /\ RInv /\ CInv)'
  BY NextOK, NextR, NextC
<1> QED BY <1>1, <1>2, PTL DEF Spec

\* Whenever neither side is in the middle of a protocol, both hold the same contract,
\* however offers, rejects, resends, rollovers, losses and restarts interleave
\* (on_dlc_message of the two node.rs, on_connect of the two dlc_handler.rs).
THEOREM ContractsAgreeAlways == Spec => []ContractsAgree
<1>1. IInv /\ RInv /\ CInv => ContractsAgree
  BY DEF CInv, AgreementOK, Agreed, ContractsAgree, AtRest
<1> QED BY <1>1, ContractInvariance, PTL

-----------------------------------------------------------------------------
(* Closed rows are counted by settlements *)

Closed == RowsIn({"Closed"})
Settlements == {p \in Protocols : offers[p].kind = "Settle" /\ trades[p] = 1}

\* ClosedOnlyBySettlement, with the finiteness that counting needs: both sets start empty
\* and get one element at a time, however many rows and protocols there are.
SInv == IsFiniteSet(Closed) /\ IsFiniteSet(Settlements) /\ ClosedOnlyBySettlement

\* A step that closes no row and settles nothing.
LEMMA Uncounted ==
    ASSUME SInv, Closed' = Closed, Settlements' = Settlements
    PROVE  SInv'
BY DEF SInv, ClosedOnlyBySettlement, Closed, Settlements

\* update_position_state never opens a closed row again and closes none by itself.
LEMMA StateKeepsClosed ==
    ASSUME positions \in [Positions -> PositionRows], NEW S, "Closed" \notin S,
           NEW new \in PositionStates \ {"Closed"}, positions' = WithState(S, new)
    PROVE  Closed' = Closed
BY DEF WithState, Closed, RowsIn, PositionRows

\* No update of the trade executor or of the rollover touches a closed row.
LEMMA UpdateKeepsClosed ==
    ASSUME IInv, NEW p \in Protocols, UpdatePosition(p)
    PROVE  Closed' = Closed
<1>0. positions \in [Positions -> PositionRows] /\ positions' \in PositionUpdates(p)
  BY DEF IInv, TypeOK, UpdatePosition
<1>1. CASE offers[p].kind \in OpenKinds
  <2>1. PICK i \in Positions :
            /\ positions[i].state = "None"
            /\ positions' = [positions EXCEPT ![i] = [state |-> "Proposed", size |-> p,
                                                      expiry |-> offers[p].expiry]]
    BY <1>0, <1>1 DEF PositionUpdates, RowsIn, OpenKinds
  <2>2. \A j \in Positions : positions'[j].state = IF j = i THEN "Proposed" ELSE positions[j].state
    BY <1>0, <2>1
  <2> QED BY <2>1, <2>2 DEF Closed, RowsIn
<1>2. CASE offers[p].kind = "ResizePosition"
  <2>1. positions' = [i \in Positions |-> IF positions[i].state = "Open"
                THEN [state |-> "Resizing", size |-> p, expiry |-> offers[p].expiry]
                ELSE positions[i]]
    BY <1>0, <1>2 DEF PositionUpdates, OpenKinds
  <2>2. \A j \in Positions :
            positions'[j].state = IF positions[j].state = "Open" THEN "Resizing" ELSE positions[j].state
    BY <2>1
  <2> QED BY <2>2 DEF Closed, RowsIn
<1>3. CASE offers[p].kind = "Rollover"
  <2>1. positions' = [i \in Positions |-> IF positions[i].state = "Open"
                THEN [positions[i] EXCEPT !.state = "Rollover", !.expiry = offers[p].expiry]
                ELSE positions[i]]
    BY <1>0, <1>3 DEF PositionUpdates, OpenKinds
  <2>2. \A j \in Positions :
            positions'[j].state = IF positions[j].state = "Open" THEN "Rollover" ELSE positions[j].state
    BY <1>0, <2>1 DEF PositionRows
  <2> QED BY <2>2 DEF Closed, RowsIn
<1>4. CASE offers[p].kind \notin OpenKinds \union {"ResizePosition", "Rollover"}
  <2>1. positions' = WithState({"Open"}, "Closing")
    BY <1>0, <1>4 DEF PositionUpdates
  <2> QED BY <1>0, <2>1, StateKeepsClosed DEF PositionStates
<1> QED BY <1>1, <1>2, <1>3, <1>4

\* Only the end of a protocol moves the two sets, and both together.
LEMMA FinishCounts ==
    ASSUME IInv, SInv, CompleteC
    PROVE  SInv'
<1>0. /\ positions \in [Positions -> PositionRows] /\ trades \in [Protocols -> Nat]
      /\ offers \in [Protocols -> Offers] /\ UNCHANGED offers
  BY DEF IInv, TypeOK, CompleteC
<1>1. CASE inC.type \notin Finishing
  <2>1. UNCHANGED <<positions, trades>>
    BY <1>1 DEF CompleteC
  <2> QED BY <1>0, <2>1, Uncounted DEF Closed, RowsIn, Settlements
<1>2. CASE inC.type \in Finishing
  <2>1. finish_dlc_protocol(inC.pid) /\ Belongs(offers, inC) /\ inC.pid \in Protocols
    <3>1. inC # NoMessage
      BY <1>2, Nothing DEF Finishing
    <3>2. Belongs(offers, inC)
      BY <3>1 DEF IInv, MessagesOK, Slot
    <3> QED BY <1>0, <1>2, <3>2, KindsOfMessages DEF CompleteC
  <2>2. PICK p \in Protocols : p = inC.pid
    BY <2>1
  <2>3. CASE offers[p].kind # "Settle"
    <3>1. Closed' = Closed
      <4>1. \E S \in SUBSET (PositionStates \ {"Closed"}) : positions' = WithState(S, "Open")
        <5>1. positions' \in FinishedPositions(p)
          BY <2>1, <2>2 DEF finish_dlc_protocol
        <5>2. \/ positions' = WithState({"Proposed"}, "Open")
              \/ positions' = WithState({"Resizing"}, "Open")
              \/ positions' = WithState({"Rollover"}, "Open")
          BY <2>3, <5>1 DEF FinishedPositions
        <5> QED BY <5>2 DEF PositionStates
      <4> QED BY <1>0, <4>1, StateKeepsClosed DEF PositionStates
    <3>2. Settlements' = Settlements
      BY <1>0, <2>1, <2>2, <2>3 DEF finish_dlc_protocol, Settlements
    <3> QED BY <3>1, <3>2, Uncounted
  <2>4. CASE offers[p].kind = "Settle"
    <3>1. PICK i \in Positions :
              positions[i].state = "Closing" /\ positions' = [positions EXCEPT ![i].state = "Closed"]
      BY <2>1, <2>2, <2>4 DEF finish_dlc_protocol, FinishedPositions, RowsIn, OpenKinds
    <3>2. i \notin Closed /\ Closed' = Closed \union {i}
      <4>1. \A j \in Positions : positions'[j].state = IF j = i THEN "Closed" ELSE positions[j].state
        BY <1>0, <3>1 DEF PositionRows
      <4> QED BY <3>1, <4>1 DEF Closed, RowsIn
    <3>3. trades[p] = 0
      <4>1. ~ Finished(offers, processedC, p)
        BY <1>0, <1>2, <2>1, <2>2, OneFinishing DEF IInv, TradesOK, Finished
      <4> QED BY <4>1 DEF IInv, TradesOK
    <3>4. trades' = [trades EXCEPT ![p] = 1]
      BY <1>0, <2>1, <2>2, <2>4, <3>3 DEF finish_dlc_protocol
    <3>5. p \notin Settlements /\ Settlements' = Settlements \union {p}
      BY <1>0, <2>4, <3>3, <3>4 DEF Settlements
    <3>6. /\ IsFiniteSet(Closed) /\ IsFiniteSet(Settlements)
          /\ Cardinality(Closed) <= Cardinality(Settlements)
      BY DEF SInv, ClosedOnlyBySettlement, Closed, Settlements
    <3>7. /\ IsFiniteSet(Closed') /\ Cardinality(Closed') = Cardinality(Closed) + 1
          /\ Cardinality(Closed) \in Nat
      BY <3>2, <3>6, FS_AddElement, FS_CardinalityType
    <3>8. /\ IsFiniteSet(Settlements') /\ Cardinality(Settlements') = Cardinality(Settlements) + 1
          /\ Cardinality(Settlements) \in Nat
      BY <3>5, <3>6, FS_AddElement, FS_CardinalityType
    <3>9. Cardinality(Closed') <= Cardinality(Settlements')
      BY <3>6, <3>7, <3>8
    <3> QED BY <3>7, <3>8, <3>9 DEF SInv, ClosedOnlyBySettlement, Closed, Settlements
  <2> QED BY <2>3, <2>4
<1> QED BY <1>1, <1>2

\* A new offer settles nothing: its protocol has no trade yet.
LEMMA OfferSettlesNothing ==
    ASSUME IInv, NEW p \in Protocols, Propose(p)
    PROVE  Settlements' = Settlements
<1>1. /\ offers \in [Protocols -> Offers] /\ offers[p] = NoOffer /\ UNCHANGED trades
      /\ \A q \in Protocols \ {p} : offers'[q] = offers[q]
  BY DEF IInv, TypeOK, TasksOK, Propose
<1>2. trades[p] = 0
  <2>1. ~ Finished(offers, processedC, p)
    BY <1>1, KindsOfMessages DEF Finished, NoOffer, Kinds, OpenKinds
  <2> QED BY <2>1 DEF IInv, TradesOK
<1> QED BY <1>1, <1>2 DEF Settlements

\* Every step keeps the count.
LEMMA NextS ==
    ASSUME IInv, SInv, [Next]_vars
    PROVE  SInv'
<1> USE DEF coordinatorVars, appVars, netVars, boundVars
<1>0. positions \in [Positions -> PositionRows]
  BY DEF IInv, TypeOK
<1>1. CASE UNCHANGED <<positions, trades, offers>>
  BY <1>1, Uncounted DEF Closed, RowsIn, Settlements
<1>2. ASSUME NEW p \in Protocols, NewOrder(p) \/ ProcessOrder(p) \/ BeginRollover(p)
      PROVE  UNCHANGED <<positions, trades, offers>>
  BY <1>2 DEF NewOrder, SubmitOrder, CloseByCoordinator, PostOrder, ProcessOrder, CheckOrder,
     MatchOrder, NoMatch, ProcessPendingMatch, BeginTrade, BeginTradeFails, SkipTrade, FailTrade,
     BeginRollover
<1>3. ASSUME NEW p \in Protocols, RunProtocol(p) PROVE SInv'
  <2>1. CASE Propose(p)
    <3>1. Closed' = Closed
      BY <2>1 DEF Propose, Closed, RowsIn
    <3> QED BY <2>1, <3>1, OfferSettlesNothing, Uncounted
  <2>2. CASE UpdatePosition(p)
    <3>1. Settlements' = Settlements
      BY <2>2 DEF UpdatePosition, Settlements
    <3> QED BY <2>2, <3>1, UpdateKeepsClosed, Uncounted
  <2>3. CASE ~ (Propose(p) \/ UpdatePosition(p))
    BY <1>1, <1>3, <2>3 DEF RunProtocol, ProposeFails, ProposeRolloverFails, StartProtocol,
       FinishTask, FailTrade
  <2> QED BY <2>1, <2>2, <2>3
<1>4. ASSUME NEW o \in Orders, GiveUp(o) PROVE SInv'
  <2>1. positions' = WithState({"Open"}, "Closing") /\ UNCHANGED <<trades, offers>>
    BY <1>4 DEF GiveUp
  <2>2. Closed' = Closed
    BY <1>0, <2>1, StateKeepsClosed DEF PositionStates
  <2> QED BY <2>1, <2>2, Uncounted DEF Settlements
<1>5. CASE CompleteReject
  <2>1. UNCHANGED <<trades, offers>> /\ (positions' = positions \/ positions' = WithState(Reverted, RevertedTo))
    BY <1>5 DEF CompleteReject
  <2>2. "Closed" \notin Reverted /\ RevertedTo \in PositionStates \ {"Closed"}
    BY DEF Reverted, RevertedTo, PositionStates
  <2>3. CASE positions' = positions
    BY <1>1, <2>1, <2>3
  <2>4. CASE positions' = WithState(Reverted, RevertedTo)
    <3>1. Closed' = Closed
      BY <1>0, <2>2, <2>4, StateKeepsClosed
    <3> QED BY <2>1, <3>1, Uncounted DEF Settlements
  <2> QED BY <2>1, <2>3, <2>4
<1>6. CASE CompleteC
  BY <1>6, FinishCounts
<1>7. CASE SkipC \/ ReceiveC \/ RefuseC \/ CompleteCFails
  BY <1>1, <1>7 DEF SkipC, ReceiveC, RefuseC, CompleteCFails
<1>8. CASE HandlerA
  BY <1>1, <1>8 DEF HandlerA, SkipA, ReceiveA, ForceRejectOffer, RefuseA, AcceptOffer, RejectOffer,
     AcceptUnanswered, StaleOffer, CompleteOpenA, CompleteRolloverA, CompleteSettleA,
     CompleteRenewConfirmA
<1>9. CASE \/ \E o \in TraderOrders : SubmitInVain(o) \/ OrderPosted(o) \/ OrderNotPosted(o)
           \/ SubmitRefused
           \/ \E o \in Orders : OnTradeError(o) \/ CheckOpenOrders(o)
           \/ Tick \/ Disconnect \/ Connect \/ CrashC \/ CrashA \/ UNCHANGED vars
  BY <1>1, <1>9 DEF SubmitInVain, OrderPosted, OrderNotPosted, SubmitRefused, OnTradeError,
     CheckOpenOrders, Tick, Disconnect, Connect, ConnectAndResend, ConnectAndReject, CrashC, CrashA, vars
<1> QED BY <1>1, <1>2, <1>3, <1>4, <1>5, <1>6, <1>7, <1>8, <1>9 DEF Next, HandlerC

\* Rows of the positions table are only ever closed by a settlement with a trade, one each,
\* whatever is resent, lost or refused (finish_close_position_trade_dlc_protocol).
THEOREM ClosedOnlyBySettlementAlways == Spec => []ClosedOnlyBySettlement
<1>1. Init => SInv
  <2> SUFFICES ASSUME Init PROVE SInv
    OBVIOUS
  <2>1. Closed = {} /\ Settlements = {}
    BY DEF Init, Closed, RowsIn, Settlements, NoOffer
  <2>2. IsFiniteSet(Closed) /\ IsFiniteSet(Settlements) /\ Cardinality(Closed) = Cardinality(Settlements)
        /\ Cardinality(Closed) = 0
    BY <2>1, FS_EmptySet
  <2> QED BY <2>2 DEF SInv, ClosedOnlyBySettlement, Closed, Settlements
<1>2. IInv /\ SInv /\ [Next]_vars => SInv'
  BY NextS
<1>3. SInv => ClosedOnlyBySettlement
  BY DEF SInv
<1> QED BY <1>1, <1>2, <1>3, Invariance, PTL DEF Spec

-----------------------------------------------------------------------------
(***************************************************************************)
(* In orderly trading (OrderlySpec) the app and the database mirror the    *)
(* channel: AppMirrorsChannel and DatabaseMirrorsChannel, by MInv.         *)
(***************************************************************************)

(* The steps of orderly trading *)

\* Orderly trading over a connection that was never lost.
Calm == IInv /\ RInv /\ CInv /\ Orderly /\ disconnects = 0

\* A task until it makes its offer
Takes(p) ==
    \/ NewOrder(p) \/ CheckOrder(p) \/ MatchOrder(p) \/ NoMatch(p)
    \/ BeginTrade(p) \/ BeginTradeFails(p) \/ BeginRollover(p)
    \/ ProposeFails(p) \/ ProposeRolloverFails(p)

\* The trader's orders and the calendar
Shows ==
    \/ \E o \in TraderOrders : OrderPosted(o)
    \/ SubmitRefused
    \/ \E o \in Orders : OnTradeError(o) \/ CheckOpenOrders(o)
    \/ Tick

\* The steps that orderly trading can take.
CalmNext ==
    \/ \E p \in Protocols :
        Takes(p) \/ Propose(p) \/ StartProtocol(p) \/ UpdatePosition(p) \/ FinishTask(p)
    \/ \E o \in Orders : GiveUp(o)
    \/ Shows
    \/ HandlerC
    \/ HandlerA

\* The steps of orderly trading while the connection holds.
LEMMA CalmMoves ==
    ASSUME Calm, Calm', CalmOK, Next
    PROVE  CalmNext
<1>1. disconnects = 0 /\ disconnects' = 0 /\ connected /\ ~ matchCheck
  BY DEF Calm, CalmOK
<1>2. \A p \in Protocols : ~ ProcessPendingMatch(p) /\ ~ SkipTrade(p)
  BY <1>1 DEF ProcessPendingMatch, SkipTrade
<1>3. ~ Disconnect /\ ~ CrashC /\ ~ CrashA /\ ~ Connect
  BY <1>1 DEF Disconnect, CrashC, CrashA, Connect, ConnectAndResend, ConnectAndReject
<1>4. posting \intersect Unanswered = {} /\ posting' \intersect Unanswered = {}
  BY <1>1 DEF Calm, Orderly
<1>5. \A o \in TraderOrders : ~ SubmitInVain(o) /\ ~ OrderNotPosted(o)
  BY <1>4 DEF SubmitInVain, OrderNotPosted
<1> QED BY <1>2, <1>3, <1>5
        DEF Next, CalmNext, Takes, Shows, ProcessOrder, RunProtocol

\* What a task leaves alone before it makes its offer.
LEMMA TakesFrame ==
    ASSUME NEW p \in Protocols, Takes(p)
    PROVE  /\ UNCHANGED <<offers, chanC, protocols, positions, trades, processedC, inC, chanA>>
           /\ UNCHANGED <<posA, inA, netCA, netAC, lastOutC, lastOutA, connected, matchCheck>>
<1> USE DEF coordinatorVars, appVars, netVars, boundVars
<1>1. CASE NewOrder(p)
  BY <1>1 DEF NewOrder, SubmitOrder, CloseByCoordinator, PostOrder
<1>2. CASE CheckOrder(p) \/ MatchOrder(p) \/ NoMatch(p)
  BY <1>2 DEF CheckOrder, MatchOrder, NoMatch
<1>3. CASE BeginTrade(p) \/ BeginRollover(p)
  BY <1>3 DEF BeginTrade, BeginRollover
<1>4. CASE BeginTradeFails(p) \/ ProposeFails(p) \/ ProposeRolloverFails(p)
  BY <1>4 DEF BeginTradeFails, ProposeFails, ProposeRolloverFails, FailTrade
<1> QED BY <1>1, <1>2, <1>3, <1>4 DEF Takes

\* A task of order o is posted.
Posts(o, p) ==
    /\ o \in Orders /\ orderC[o].state = "None" /\ orderC'[o].state = "Open"
    /\ task[p] = Idle /\ offers[p] = NoOffer
    /\ task'[p].pc = "check" /\ task'[p].order = o
    /\ tradeErrors' = tradeErrors

\* A task goes on with its order.
Goes(p) ==
    /\ task'[p].order = task[p].order /\ task'[p].pc \in {"match", "matched", "propose"}
    /\ task[p].pc \in {"check", "match", "matched", "pending"}
    /\ tradeErrors' = tradeErrors

\* A rollover is checked.
Rolls(p) ==
    /\ task[p] = Idle /\ offers[p] = NoOffer
    /\ task'[p].pc = "propose" /\ task'[p].order = NoOrder /\ tradeErrors' = tradeErrors

\* A task ends without an offer.
Fails(p) ==
    /\ task'[p] = Idle /\ task[p].pc \in {"check", "match", "matched", "pending", "propose"}
    /\ tradeErrors' \subseteq tradeErrors \union ({task[p].order} \ {NoOrder})

\* One of the four, and no other task is touched.
TakesTask(p) ==
    /\ \A q \in Protocols : q # p => task'[q] = task[q]
    /\ (\E o \in Orders : Posts(o, p)) \/ Goes(p) \/ Rolls(p) \/ Fails(p)
    /\ \A o \in Orders : orderC[o].state # "None" =>
            orderC'[o].state # "None" /\ orderC'[o].closes = orderC[o].closes

\* What a task does before it makes its offer.
LEMMA TakesMoves ==
    ASSUME IInv, NEW p \in Protocols, Takes(p)
    PROVE  TakesTask(p)
<1>0. /\ task \in [Protocols -> Tasks] /\ orderC \in [Orders -> OrderRows] /\ TasksOK
      /\ NoOrder \notin Orders
  BY OrdersAssumption DEF IInv, TypeOK
<1>1. CASE NewOrder(p)
  <2>0. PICK o \in Orders : (\E c : PostOrder(o, p, c)) /\ tradeErrors' = tradeErrors
    BY <1>1 DEF NewOrder, SubmitOrder, CloseByCoordinator, Orders
  <2>1. PICK c : PostOrder(o, p, c) /\ tradeErrors' = tradeErrors
    BY <2>0
  <2>2. /\ orderC' = [orderC EXCEPT ![o] = [state |-> "Open", closes |-> c]]
        /\ task' = [task EXCEPT ![p] = [Idle EXCEPT !.pc = "check", !.order = o]]
        /\ orderC[o].state = "None" /\ task[p] = Idle /\ offers[p] = NoOffer
    BY <2>1 DEF PostOrder, Fresh
  <2>3. Posts(o, p)
    BY <1>0, <2>1, <2>2 DEF Posts, Idle
  <2> QED BY <1>0, <2>2, <2>3 DEF TakesTask
<1>2. CASE CheckOrder(p)
  <2>1. UNCHANGED orderC /\ \A q \in Protocols : q # p => task'[q] = task[q]
    BY <1>0, <1>2 DEF CheckOrder
  <2>2. task[p].pc = "check" /\ task[p].order \in Orders /\ task[p] \in Tasks
    BY <1>0, <1>2 DEF CheckOrder, TasksOK
  <2>3. CASE Executing
    <3>1. task'[p] = Idle /\ ReportError(task[p].order)
      BY <1>0, <1>2, <2>3 DEF CheckOrder
    <3>2. Fails(p)
      BY <1>0, <2>2, <3>1 DEF Fails, ReportError
    <3> QED BY <2>1, <3>2 DEF TakesTask
  <2>4. CASE ~ Executing
    <3>1. task'[p] = [task[p] EXCEPT !.pc = "match"] /\ tradeErrors' = tradeErrors
      BY <1>0, <1>2, <2>4 DEF CheckOrder
    <3>2. Goes(p)
      BY <2>2, <3>1 DEF Goes, Tasks
    <3> QED BY <2>1, <3>2 DEF TakesTask
  <2> QED BY <2>3, <2>4
<1>3. CASE MatchOrder(p)
  <2>1. /\ task[p].pc = "match" /\ task[p].order \in Orders /\ task[p] \in Tasks
        /\ task' = [task EXCEPT ![p] = [task[p] EXCEPT !.pc = "matched", !.expiry = calculate_next_expiry]]
        /\ orderC' = [orderC EXCEPT ![task[p].order] = [orderC[task[p].order] EXCEPT !.state = "Matched"]]
        /\ tradeErrors' = tradeErrors
    BY <1>0, <1>3 DEF MatchOrder, TasksOK
  <2>2. Goes(p)
    BY <1>0, <2>1 DEF Goes, Tasks
  <2>3. \A o \in Orders : orderC[o].state # "None" =>
            orderC'[o].state # "None" /\ orderC'[o].closes = orderC[o].closes
    BY <1>0, <2>1 DEF OrderRows
  <2> QED BY <1>0, <2>1, <2>2, <2>3 DEF TakesTask
<1>4. CASE NoMatch(p)
  <2>1. /\ task[p].pc = "match" /\ task[p].order \in Orders
        /\ task' = [task EXCEPT ![p] = Idle] /\ ReportError(task[p].order)
        /\ orderC' = [orderC EXCEPT ![task[p].order] = [orderC[task[p].order] EXCEPT !.state = "Failed"]]
    BY <1>0, <1>4 DEF NoMatch, TasksOK
  <2>2. Fails(p)
    BY <1>0, <2>1 DEF Fails, ReportError
  <2>3. \A o \in Orders : orderC[o].state # "None" =>
            orderC'[o].state # "None" /\ orderC'[o].closes = orderC[o].closes
    BY <1>0, <2>1 DEF OrderRows
  <2> QED BY <1>0, <2>1, <2>2, <2>3 DEF TakesTask
<1>5. CASE BeginTrade(p)
  <2>1. PICK kind \in determine_trade_action(task[p].order) :
            task' = [task EXCEPT ![p] = [task[p] EXCEPT !.pc = "propose", !.kind = kind, !.size = p]]
    BY <1>5 DEF BeginTrade
  <2>2. task[p].pc \in {"pending", "matched"} /\ UNCHANGED <<orderC, tradeErrors>> /\ task[p] \in Tasks
    BY <1>0, <1>5 DEF BeginTrade
  <2>3. Goes(p)
    BY <1>0, <2>1, <2>2 DEF Goes, Tasks
  <2> QED BY <1>0, <2>1, <2>2, <2>3 DEF TakesTask
<1>6. CASE BeginTradeFails(p) \/ ProposeFails(p)
  <2>1. /\ task[p].pc \in {"pending", "matched", "propose"} /\ task[p].order \in Orders /\ FailTrade(p)
    BY <1>0, <1>6 DEF BeginTradeFails, ProposeFails, TasksOK, Tasks
  <2>2. /\ task' = [task EXCEPT ![p] = Idle] /\ tradeErrors' = tradeErrors \union {task[p].order}
        /\ orderC' = [orderC EXCEPT ![task[p].order] = [orderC[task[p].order] EXCEPT !.state = "Failed"]]
    BY <2>1 DEF FailTrade
  <2>3. Fails(p)
    BY <1>0, <2>1, <2>2 DEF Fails
  <2>4. \A o \in Orders : orderC[o].state # "None" =>
            orderC'[o].state # "None" /\ orderC'[o].closes = orderC[o].closes
    BY <1>0, <2>1, <2>2 DEF OrderRows
  <2> QED BY <1>0, <2>2, <2>3, <2>4 DEF TakesTask
<1>7. CASE ProposeRolloverFails(p)
  <2>1. /\ task[p].pc = "propose" /\ UNCHANGED <<orderC, tradeErrors>>
        /\ task' = [task EXCEPT ![p] = Idle]
    BY <1>7 DEF ProposeRolloverFails
  <2>2. Fails(p)
    BY <1>0, <2>1 DEF Fails
  <2> QED BY <1>0, <2>1, <2>2 DEF TakesTask
<1>8. CASE BeginRollover(p)
  <2>1. PICK i \in Positions :
            task' = [task EXCEPT ![p] = [pc |-> "propose", kind |-> "Rollover", order |-> NoOrder,
                                         size |-> positions[i].size, expiry |-> calculate_next_expiry]]
    BY <1>8 DEF BeginRollover, RowsIn
  <2>2. UNCHANGED <<orderC, tradeErrors>> /\ task[p] = Idle /\ offers[p] = NoOffer
    BY <1>8 DEF BeginRollover, Fresh
  <2>3. Rolls(p)
    BY <1>0, <2>1, <2>2 DEF Rolls
  <2> QED BY <1>0, <2>1, <2>2, <2>3 DEF TakesTask
<1> QED BY <1>1, <1>2, <1>3, <1>4, <1>5, <1>6, <1>7, <1>8 DEF Takes

-----------------------------------------------------------------------------
(* An order is executed under one identifier *)

\* What a task does to its own record when it makes its offer and after.
LEMMA ProtocolTask ==
    ASSUME IInv, NEW p \in Protocols,
           Propose(p) \/ StartProtocol(p) \/ UpdatePosition(p) \/ FinishTask(p)
    PROVE  /\ \A q \in Protocols : q # p => task'[q] = task[q] /\ offers'[q] = offers[q]
           /\ task'[p] = Idle \/ (/\ task'[p].order = task[p].order /\ task'[p].kind = task[p].kind
                                  /\ task'[p].pc \in {"start", "position", "finish"})
           /\ task[p].pc \in {"propose", "start", "position", "finish"}
           /\ task'[p].pc = "start" => Propose(p)
           /\ task'[p].pc = "position" => StartProtocol(p)
           /\ UNCHANGED <<connected, matchCheck, tradeErrors, inC, inA, chanA, posA, orderA>>
           /\ UNCHANGED <<lastOutA, netAC, trades, processedC, posting, processedA>>
<1> USE DEF coordinatorVars, appVars, netVars, boundVars
<1>0. task \in [Protocols -> Tasks] /\ offers \in [Protocols -> Offers] /\ Idle.pc = "idle"
  BY DEF IInv, TypeOK, Idle
<1>1. CASE Propose(p)
  <2>1. /\ task[p].pc = "propose" /\ task' = [task EXCEPT ![p] = [task[p] EXCEPT !.pc = "start"]]
        /\ task[p] \in Tasks
    BY <1>0, <1>1 DEF Propose
  <2>2. /\ task'[p].order = task[p].order /\ task'[p].kind = task[p].kind /\ task'[p].pc = "start"
        /\ \A q \in Protocols : q # p => task'[q] = task[q]
    BY <1>0, <2>1 DEF Tasks
  <2>3. /\ UNCHANGED <<connected, matchCheck, tradeErrors, inC, inA, chanA, posA, orderA>>
        /\ UNCHANGED <<lastOutA, netAC, trades, processedC, posting, processedA>>
        /\ \A q \in Protocols : q # p => offers'[q] = offers[q]
    BY <1>0, <1>1 DEF Propose
  <2> QED BY <1>1, <2>1, <2>2, <2>3
<1>2. CASE StartProtocol(p)
  <2>1. /\ task[p].pc = "start" /\ task' = [task EXCEPT ![p] = [task[p] EXCEPT !.pc = "position"]]
        /\ task[p] \in Tasks
    BY <1>0, <1>2 DEF StartProtocol
  <2>2. /\ task'[p].order = task[p].order /\ task'[p].kind = task[p].kind /\ task'[p].pc = "position"
        /\ \A q \in Protocols : q # p => task'[q] = task[q]
    BY <1>0, <2>1 DEF Tasks
  <2>3. /\ UNCHANGED <<connected, matchCheck, tradeErrors, inC, inA, chanA, posA, orderA>>
        /\ UNCHANGED <<lastOutA, netAC, trades, processedC, posting, processedA, offers>>
    BY <1>2 DEF StartProtocol
  <2> QED BY <1>2, <2>1, <2>2, <2>3
<1>3. CASE UpdatePosition(p)
  <2>1. /\ task[p].pc = "position" /\ task[p] \in Tasks
        /\ \/ task' = [task EXCEPT ![p] = Idle]
           \/ task' = [task EXCEPT ![p] = [task[p] EXCEPT !.pc = "finish"]]
    BY <1>0, <1>3 DEF UpdatePosition
  <2>2. /\ \/ task'[p] = Idle
           \/ task'[p].order = task[p].order /\ task'[p].kind = task[p].kind /\ task'[p].pc = "finish"
        /\ \A q \in Protocols : q # p => task'[q] = task[q]
    BY <1>0, <2>1 DEF Tasks
  <2>3. /\ UNCHANGED <<connected, matchCheck, tradeErrors, inC, inA, chanA, posA, orderA>>
        /\ UNCHANGED <<lastOutA, netAC, trades, processedC, posting, processedA, offers>>
    BY <1>3 DEF UpdatePosition
  <2> QED BY <1>0, <2>1, <2>2, <2>3
<1>4. CASE FinishTask(p)
  <2>1. task[p].pc = "finish" /\ task' = [task EXCEPT ![p] = Idle]
    BY <1>0, <1>4 DEF FinishTask
  <2>2. task'[p] = Idle /\ \A q \in Protocols : q # p => task'[q] = task[q]
    BY <1>0, <2>1
  <2>3. /\ UNCHANGED <<connected, matchCheck, tradeErrors, inC, inA, chanA, posA, orderA>>
        /\ UNCHANGED <<lastOutA, netAC, trades, processedC, posting, processedA, offers>>
    BY <1>4 DEF FinishTask
  <2> QED BY <1>0, <2>1, <2>2, <2>3
<1> QED BY <1>1, <1>2, <1>3, <1>4

\* What changes no task and makes no offer.
Handles == (\E o \in Orders : GiveUp(o)) \/ Shows \/ HandlerC \/ HandlerA

\* What a step that is not a task leaves alone.
HandlesFrame ==
    /\ UNCHANGED <<task, offers, connected, matchCheck>>
    /\ \A o \in Orders : /\ orderC'[o].closes = orderC[o].closes
                         /\ orderC[o].state # "None" => orderC'[o].state # "None"
    /\ \A p \in Protocols : protocols[p] # "None" => protocols'[p] # "None"
    /\ \A o \in tradeErrors' : o \in tradeErrors \/
            \E p \in Protocols : offers[p].kind \notin {"None", "Rollover"} /\ offers[p].order = o

\* Handlers, the trader and the calendar touch no task and no offer, and an order
\* that fails is an order that was offered.
LEMMA HandlesMoves ==
    ASSUME IInv, Handles
    PROVE  HandlesFrame
<1> USE DEF coordinatorVars, appVars, netVars, boundVars
<1>0. /\ orderC \in [Orders -> OrderRows] /\ protocols \in [Protocols -> ProtocolStates]
      /\ offers \in [Protocols -> Offers]
  BY DEF IInv, TypeOK
<1>1. ASSUME NEW o \in Orders, GiveUp(o) PROVE HandlesFrame
  <2>1. /\ UNCHANGED <<task, offers, connected, matchCheck, protocols, tradeErrors>>
        /\ orderC' = [orderC EXCEPT ![o] = [orderC[o] EXCEPT !.state = "Expired"]]
    BY <1>1 DEF GiveUp
  <2>2. \A u \in Orders : /\ orderC'[u].closes = orderC[u].closes
                          /\ orderC[u].state # "None" => orderC'[u].state # "None"
    BY <1>0, <2>1 DEF OrderRows
  <2> QED BY <2>1, <2>2 DEF HandlesFrame
<1>2. CASE Shows
  <2>1. UNCHANGED <<task, offers, connected, matchCheck, protocols, orderC>> /\ tradeErrors' \subseteq tradeErrors
    BY <1>2 DEF Shows, OrderPosted, SubmitRefused, OnTradeError, CheckOpenOrders, Tick
  <2> QED BY <2>1 DEF HandlesFrame
<1>3. CASE HandlerA
  <2>1. UNCHANGED <<task, offers, connected, matchCheck, protocols, orderC, tradeErrors>>
    BY <1>3 DEF HandlerA, SkipA, ReceiveA, ForceRejectOffer, RefuseA, AcceptOffer, RejectOffer,
       AcceptUnanswered, StaleOffer, CompleteOpenA, CompleteRolloverA, CompleteSettleA,
       CompleteRenewConfirmA
  <2> QED BY <2>1 DEF HandlesFrame
<1>4. CASE HandlerC
  <2>1. UNCHANGED <<task, offers, connected, matchCheck, orderC>>
    BY <1>4 DEF HandlerC, SkipC, ReceiveC, RefuseC, CompleteC, CompleteCFails, CompleteReject
  <2>2. ASSUME NEW m, Belongs(offers, m), FailMessage(m) PROVE HandlesFrame
    <3>1. m.pid \in Protocols /\ offers[m.pid].kind \in Kinds
      BY <1>0, <2>2, KindsOfMessages
    <3>2. \A p \in Protocols : protocols[p] # "None" => protocols'[p] # "None"
      BY <1>0, <2>2, <3>1 DEF FailMessage
    <3>3. \A o \in tradeErrors' : o \in tradeErrors \/
            (offers[m.pid].kind \notin {"None", "Rollover"} /\ offers[m.pid].order = o)
      BY <2>2, <3>1 DEF FailMessage, Kinds, OpenKinds
    <3> QED BY <2>1, <3>1, <3>2, <3>3 DEF HandlesFrame
  <2>3. CASE SkipC \/ ReceiveC
    <3>1. UNCHANGED <<protocols, tradeErrors>>
      BY <2>3 DEF SkipC, ReceiveC
    <3> QED BY <2>1, <3>1 DEF HandlesFrame
  <2>4. CASE RefuseC
    <3>1. Belongs(offers, Head(netAC)) /\ FailMessage(Head(netAC))
      BY <2>4, WireHead DEF RefuseC, IInv, MessagesOK
    <3> QED BY <2>2, <3>1
  <2>5. CASE CompleteCFails \/ CompleteReject
    <3>1. Belongs(offers, inC) /\ FailMessage(inC)
      BY <2>5, Nothing DEF CompleteCFails, CompleteReject, IInv, MessagesOK, Slot, Finishing
    <3> QED BY <2>2, <3>1
  <2>6. CASE CompleteC
    <3>1. UNCHANGED tradeErrors /\ \A p \in Protocols : protocols[p] # "None" => protocols'[p] # "None"
      BY <1>0, <2>6 DEF CompleteC, finish_dlc_protocol
    <3> QED BY <2>1, <3>1 DEF HandlesFrame
  <2> QED BY <1>4, <2>3, <2>4, <2>5, <2>6 DEF HandlerC
<1> QED BY <1>1, <1>2, <1>3, <1>4 DEF Handles

\* Tasks before their offer: nothing is pending, and every order has its owner.
LEMMA TakesOwners ==
    ASSUME Calm, Calm', CalmOK, OwnersOK, NEW p \in Protocols, Takes(p)
    PROVE  CalmOK' /\ OwnersOK'
<1>0. /\ TakesTask(p) /\ UNCHANGED <<offers, protocols, connected, matchCheck>> /\ IInv /\ IInv'
      /\ NoOrder \notin Orders /\ Idle.pc = "idle" /\ Idle.order = NoOrder
  BY TakesMoves, TakesFrame, OrdersAssumption DEF Calm, Idle
<1>1. task'[p].pc \in {"idle", "check", "match", "matched", "propose"}
  BY <1>0 DEF TakesTask, Posts, Goes, Rolls, Fails
<1>2. CalmOK'
  BY <1>0, <1>1 DEF CalmOK, TakesTask
<1>3. Unsent' \subseteq Unsent /\ p \notin Unsent'
  BY <1>0, <1>1 DEF Unsent, TakesTask
<1>4. \A q \in Protocols : task'[q].pc = "idle" => task'[q] = Idle
  BY <1>0 DEF OwnersOK, TakesTask, Posts, Goes, Rolls, Fails
<1>5. \A q \in Unsent' : offers'[q] # NoOffer /\ offers'[q].kind = task'[q].kind /\ offers'[q].order = task'[q].order
  BY <1>0, <1>3 DEF OwnersOK, TakesTask, Unsent
<1>6. \A q \in Protocols : offers'[q] # NoOffer => task'[q].pc = "start" \/ protocols'[q] # "None"
  <2>1. offers[p] = NoOffer
    BY <1>0 DEF IInv, TasksOK, TakesTask, Posts, Goes, Rolls, Fails
  <2> QED BY <1>0, <2>1 DEF OwnersOK, TakesTask
<1>7. \A o \in Orders, q \in Protocols : HasTask(o, q)' =>
            HasTask(o, q) \/ (q = p /\ orderC[o].state = "None" /\ orderC'[o].state # "None")
  BY <1>0 DEF TakesTask, HasTask, Posts, Goes, Rolls, Fails
<1>8. \A o \in Orders, q, r \in Protocols : HasTask(o, q)' /\ HasTask(o, r)' => q = r
  BY <1>7 DEF OwnersOK
<1>9. \A o \in Orders, q \in Protocols : HasTask(o, q)' => orderC'[o].state # "None"
  BY <1>0, <1>7 DEF OwnersOK, TakesTask
<1>10. \A o \in tradeErrors' : o \in Orders /\ (o \in tradeErrors \/ HasTask(o, p))
  BY <1>0 DEF TakesTask, HasTask, Posts, Goes, Rolls, Fails, IInv, TypeOK
<1>11. \A o \in tradeErrors' : orderC'[o].state # "None"
  BY <1>0, <1>10 DEF OwnersOK, TakesTask
<1> QED BY <1>2, <1>4, <1>5, <1>6, <1>8, <1>9, <1>11 DEF OwnersOK

\* Tasks from their offer on.
LEMMA ProtocolOwners ==
    ASSUME Calm, Calm', CalmOK, OwnersOK, NEW p \in Protocols,
           Propose(p) \/ StartProtocol(p) \/ UpdatePosition(p) \/ FinishTask(p)
    PROVE  CalmOK' /\ OwnersOK'
<1>0. /\ IInv /\ IInv' /\ NoOrder \notin Orders /\ Idle.pc = "idle" /\ Idle.order = NoOrder
      /\ orderC \in [Orders -> OrderRows] /\ protocols \in [Protocols -> ProtocolStates]
      /\ offers \in [Protocols -> Offers] /\ tradeErrors \subseteq Orders
  BY OrdersAssumption DEF Calm, Idle, IInv, TypeOK
<1>1. /\ \A q \in Protocols : q # p => task'[q] = task[q] /\ offers'[q] = offers[q]
      /\ task'[p] = Idle \/ (/\ task'[p].order = task[p].order /\ task'[p].kind = task[p].kind
                             /\ task'[p].pc \in {"start", "position", "finish"})
      /\ task[p].pc \in {"propose", "start", "position", "finish"}
      /\ task'[p].pc = "start" => Propose(p)
      /\ task'[p].pc = "position" => StartProtocol(p)
      /\ UNCHANGED <<connected, matchCheck, tradeErrors>>
  BY <1>0, ProtocolTask
<1>2. CalmOK'
  BY <1>0, <1>1 DEF CalmOK
<1>3. Propose(p) => /\ task[p].pc = "propose" /\ protocols' = protocols
                    /\ offers'[p].order = task[p].order /\ offers'[p].kind = task[p].kind
                    /\ task'[p].pc = "start" /\ offers'[p] # NoOffer
  <2>1. Propose(p) => offers'[p] # NoOffer
    BY <1>0 DEF Propose, IInv, TasksOK, NoOffer, Kinds, OpenKinds
  <2>2. Propose(p) => task'[p].pc = "start"
    BY DEF Propose, IInv, TypeOK, Tasks, Calm
  <2> QED BY <1>0, <2>1, <2>2 DEF Propose
<1>4. ~ Propose(p) => offers' = offers /\ p \in Unsent
  BY DEF StartProtocol, UpdatePosition, FinishTask, Unsent
<1>5. \A o \in Orders : orderC[o].state # "None" => orderC'[o].state # "None"
  BY <1>0 DEF Propose, StartProtocol, UpdatePosition, FinishTask, OrderRows
<1>6. \A q \in Unsent' : q = p \/ q \in Unsent
  BY <1>1 DEF Unsent
<1>7. \A q \in Unsent' : offers'[q] # NoOffer /\ offers'[q].kind = task'[q].kind /\ offers'[q].order = task'[q].order
  <2>1. p \in Unsent' => offers'[p] # NoOffer /\ offers'[p].kind = task'[p].kind /\ offers'[p].order = task'[p].order
    BY <1>0, <1>1, <1>3, <1>4 DEF OwnersOK, Unsent
  <2> QED BY <1>1, <1>6, <2>1 DEF OwnersOK, Unsent
<1>8. \A q \in Protocols : offers'[q] # NoOffer => task'[q].pc = "start" \/ protocols'[q] # "None"
  <2>1. \A q \in Protocols : q # p => protocols'[q] = protocols[q]
    BY <1>0 DEF Propose, StartProtocol, UpdatePosition, FinishTask
  <2>2. task'[p].pc = "start" \/ protocols'[p] # "None"
    <3>1. StartProtocol(p) => protocols'[p] = "Pending"
      BY <1>0 DEF StartProtocol
    <3>2. UpdatePosition(p) \/ FinishTask(p) => protocols' = protocols /\ task[p].pc \in {"position", "finish"}
      BY DEF UpdatePosition, FinishTask
    <3>3. UpdatePosition(p) \/ FinishTask(p) => protocols[p] # "None"
      BY <3>2 DEF OwnersOK, Unsent
    <3> QED BY <1>3, <3>1, <3>2, <3>3
  <2> QED BY <1>1, <2>1, <2>2 DEF OwnersOK
<1>9. \A o \in Orders, q \in Protocols : HasTask(o, q)' => HasTask(o, q)
  BY <1>0, <1>1, <1>3, <1>4 DEF HasTask
<1>10. \A o \in Orders, q, r \in Protocols : HasTask(o, q)' /\ HasTask(o, r)' => q = r
  BY <1>9 DEF OwnersOK
<1>11. \A o \in Orders, q \in Protocols : HasTask(o, q)' => orderC'[o].state # "None"
  BY <1>5, <1>9 DEF OwnersOK
<1>12. \A o \in tradeErrors' : orderC'[o].state # "None"
  BY <1>0, <1>1, <1>5 DEF OwnersOK
<1>13. \A q \in Protocols : task'[q].pc = "idle" => task'[q] = Idle
  BY <1>1 DEF OwnersOK
<1> QED BY <1>2, <1>7, <1>8, <1>10, <1>11, <1>12, <1>13 DEF OwnersOK

\* Everything else.
LEMMA HandlesOwners ==
    ASSUME Calm, Calm', CalmOK, OwnersOK, Handles
    PROVE  CalmOK' /\ OwnersOK'
<1>0. HandlesFrame /\ tradeErrors \subseteq Orders /\ tradeErrors' \subseteq Orders
  BY HandlesMoves DEF Calm, IInv, TypeOK
<1>1. CalmOK'
  BY <1>0 DEF CalmOK, HandlesFrame
<1>2. Unsent' = Unsent
  BY <1>0 DEF Unsent, HandlesFrame
<1>3. \A o \in Orders, q \in Protocols : HasTask(o, q)' = HasTask(o, q)
  BY <1>0 DEF HasTask, HandlesFrame
<1>4. \A o \in tradeErrors' : orderC'[o].state # "None"
  <2>1. \A o \in tradeErrors' : o \in tradeErrors \/ \E p \in Protocols : HasTask(o, p)
    BY <1>0 DEF HandlesFrame, HasTask
  <2> QED BY <1>0, <2>1 DEF OwnersOK, HandlesFrame
<1>5. /\ \A p \in Protocols : task'[p].pc = "idle" => task'[p] = Idle
      /\ \A p \in Unsent' : offers'[p] # NoOffer /\ offers'[p].kind = task'[p].kind /\ offers'[p].order = task'[p].order
      /\ \A p \in Protocols : offers'[p] # NoOffer => task'[p].pc = "start" \/ protocols'[p] # "None"
  BY <1>0, <1>2 DEF OwnersOK, HandlesFrame
<1>6. /\ \A o \in Orders, p, q \in Protocols : HasTask(o, p)' /\ HasTask(o, q)' => p = q
      /\ \A o \in Orders, p \in Protocols : HasTask(o, p)' => orderC'[o].state # "None"
  BY <1>0, <1>3 DEF OwnersOK, HandlesFrame
<1> QED BY <1>1, <1>4, <1>5, <1>6 DEF OwnersOK

\* Every step keeps an order with one task.
LEMMA OwnersNext ==
    ASSUME Calm, Calm', CalmOK, OwnersOK, Next
    PROVE  CalmOK' /\ OwnersOK'
BY CalmMoves, TakesOwners, ProtocolOwners, HandlesOwners DEF CalmNext, Handles

-----------------------------------------------------------------------------
(* Which side sends which messages *)

\* What the coordinator's handler does to the messages.
MailFromC ==
    /\ On(netAC') \subseteq On(netAC) /\ On(netCA') \subseteq On(netCA) \union {lastOutC}
    /\ inC' \in On(netAC) \union {inC, NoMessage}
    /\ \/ lastOutC' = lastOutC
       \/ \E m \in On(netAC) : /\ Coordinator(m.type)[3] # "None"
                               /\ lastOutC' = Msg(Coordinator(m.type)[3], m.pid)
    /\ UNCHANGED <<inA, lastOutA, chanA, orderA, posA, posting>>

\* The coordinator sends what it stored, and stores the answer to what it received.
LEMMA HandlerCMail ==
    ASSUME IInv, HandlerC
    PROVE  MailFromC
<1> USE DEF coordinatorVars, appVars, netVars, boundVars
<1>0. netCA \in Seq(Messages) /\ netAC \in Seq(Messages)
  BY Typed
<1>1. UNCHANGED <<inA, lastOutA, chanA, orderA, posA, posting>>
  BY DEF HandlerC, SkipC, ReceiveC, RefuseC, CompleteC, CompleteCFails, CompleteReject
<1>2. CASE SkipC \/ RefuseC
  <2>1. UNCHANGED <<netCA, inC, lastOutC>> /\ netAC # <<>> /\ netAC' = Tail(netAC)
    BY <1>2 DEF SkipC, RefuseC
  <2> QED BY <1>0, <1>1, <2>1, QueueHead DEF MailFromC
<1>3. CASE ReceiveC
  <2>1. /\ UNCHANGED netCA /\ netAC # <<>> /\ netAC' = Tail(netAC) /\ inC' = Head(netAC)
        /\ lastOutC' = IF Coordinator(Head(netAC).type)[3] = "None" THEN lastOutC
                       ELSE Msg(Coordinator(Head(netAC).type)[3], Head(netAC).pid)
    BY <1>3 DEF ReceiveC
  <2>2. Head(netAC) \in On(netAC) /\ On(netAC') \subseteq On(netAC)
    BY <1>0, <2>1, QueueHead
  <2> QED BY <1>1, <2>1, <2>2 DEF MailFromC
<1>4. CASE CompleteC \/ CompleteCFails \/ CompleteReject
  <2>1. UNCHANGED <<netAC, lastOutC>> /\ inC' = NoMessage /\ (netCA' = netCA \/ SendLastC(lastOutC))
    BY <1>4 DEF CompleteC, CompleteCFails, CompleteReject
  <2>2. On(netCA') \subseteq On(netCA) \union {lastOutC}
    BY <2>1, SendLastCOn DEF ToApp
  <2> QED BY <1>1, <2>1, <2>2 DEF MailFromC
<1> QED BY <1>2, <1>3, <1>4 DEF HandlerC

\* What the app sends when it answers the offer it handles.
AcceptsNow ==
    /\ inA.type \in OfferTypes /\ lastOutA' = Msg(Acceptance(inA.type)[3], inA.pid)
    /\ IsRollover(inA.pid) \/ orderA' = [orderA EXCEPT ![OrderOf(inA.pid)] = "Filling"]

\* What the app's handler does to the messages.
MailFromA ==
    /\ On(netCA') \subseteq On(netCA) /\ inA' \in On(netCA) \union {inA, NoMessage}
    /\ On(netAC') \subseteq On(netAC) \union {lastOutA'}
    /\ \/ lastOutA' = lastOutA
       \/ lastOutA'.type = "Reject"
       \/ AcceptsNow
       \/ \E m \in On(netCA) : App(m.type)[3] # "None" /\ lastOutA' = Msg(App(m.type)[3], m.pid)
    /\ UNCHANGED <<coordinatorVars, tradeErrors, posting>>

\* The app sends what it stores now: an answer to its offer, a rejection, a reply.
LEMMA HandlerAMail ==
    ASSUME IInv, HandlerA
    PROVE  MailFromA
<1> USE DEF appVars, netVars, boundVars
<1>0. netCA \in Seq(Messages) /\ netAC \in Seq(Messages)
  BY Typed
<1>1. UNCHANGED <<coordinatorVars, tradeErrors, posting>>
  BY DEF HandlerA, SkipA, ReceiveA, ForceRejectOffer, RefuseA, AcceptOffer, RejectOffer,
       AcceptUnanswered, StaleOffer, CompleteOpenA, CompleteRolloverA, CompleteSettleA,
       CompleteRenewConfirmA
<1>2. ASSUME NEW m \in Messages, lastOutA' = m, SendLastA(m)
      PROVE  On(netAC') \subseteq On(netAC) \union {lastOutA'}
  BY <1>2, SendLastAOn DEF MaybeMessage
<1>3. CASE SkipA \/ RefuseA
  <2>1. UNCHANGED <<netAC, inA, lastOutA>> /\ netCA # <<>> /\ netCA' = Tail(netCA)
    BY <1>3 DEF SkipA, RefuseA
  <2> QED BY <1>0, <1>1, <2>1, QueueHead DEF MailFromA
<1>4. CASE ReceiveA
  <2>1. /\ UNCHANGED netAC /\ netCA # <<>> /\ netCA' = Tail(netCA) /\ inA' = Head(netCA)
        /\ lastOutA' = IF App(Head(netCA).type)[3] = "None" THEN lastOutA
                       ELSE Msg(App(Head(netCA).type)[3], Head(netCA).pid)
    BY <1>4 DEF ReceiveA
  <2>2. Head(netCA) \in On(netCA) /\ On(netCA') \subseteq On(netCA)
    BY <1>0, <2>1, QueueHead
  <2> QED BY <1>1, <2>1, <2>2 DEF MailFromA
<1>5. CASE ForceRejectOffer
  <2>1. PICK s \in {clock, clock + 1} :
            /\ lastOutA' = [type |-> "Reject", pid |-> Head(netCA).pid, ts |-> s]
            /\ SendLastA([type |-> "Reject", pid |-> Head(netCA).pid, ts |-> s])
    BY <1>5 DEF ForceRejectOffer, SendReject
  <2>2. netCA # <<>> /\ netCA' = Tail(netCA) /\ inA' = inA
    BY <1>5 DEF ForceRejectOffer
  <2>3. Head(netCA) \in Messages /\ s \in Nat
    BY <1>0, <2>2, QueueHead DEF IInv, TypeOK
  <2>4. [type |-> "Reject", pid |-> Head(netCA).pid, ts |-> s] \in Messages
    BY <2>3 DEF Messages, MessageTypes
  <2>5. On(netCA') \subseteq On(netCA)
    BY <1>0, <2>2, QueueHead
  <2>6. On(netAC') \subseteq On(netAC) \union {lastOutA'}
    BY <1>2, <2>1, <2>4
  <2> QED BY <1>1, <2>1, <2>2, <2>5, <2>6 DEF MailFromA
<1>6. CASE RejectOffer
  <2>1. PICK s \in {clock, clock + 1} :
            /\ lastOutA' = [type |-> "Reject", pid |-> inA.pid, ts |-> s]
            /\ SendLastA([type |-> "Reject", pid |-> inA.pid, ts |-> s])
    BY <1>6 DEF RejectOffer, SendReject
  <2>2. netCA' = netCA /\ inA' = NoMessage /\ inA \in Messages /\ s \in Nat
    BY <1>6, Nothing DEF RejectOffer, Pending, OfferTypes, DoneA, IInv, TypeOK, MaybeMessage
  <2>3. [type |-> "Reject", pid |-> inA.pid, ts |-> s] \in Messages
    BY <2>2 DEF Messages, MessageTypes
  <2>4. On(netAC') \subseteq On(netAC) \union {lastOutA'}
    BY <1>2, <2>1, <2>3
  <2> QED BY <1>1, <2>1, <2>2, <2>4 DEF MailFromA
<1>7. CASE AcceptOffer
  <2>1. /\ lastOutA' = Msg(Acceptance(inA.type)[3], inA.pid)
        /\ SendLastA(Msg(Acceptance(inA.type)[3], inA.pid))
        /\ netCA' = netCA /\ inA' = NoMessage /\ inA.type \in OfferTypes
        /\ IsRollover(inA.pid) \/ orderA' = [orderA EXCEPT ![OrderOf(inA.pid)] = "Filling"]
    BY <1>7 DEF AcceptOffer, Pending, DoneA
  <2>2. Belongs(offers, inA) /\ offers \in [Protocols -> Offers]
    BY <2>1, Nothing DEF IInv, MessagesOK, Slot, OfferTypes, TypeOK
  <2>3. Msg(Acceptance(inA.type)[3], inA.pid) \in Messages
    BY <2>1, <2>2, AcceptanceReplies DEF Belongs
  <2>4. On(netAC') \subseteq On(netAC) \union {lastOutA'}
    BY <1>2, <2>1, <2>3
  <2>5. AcceptsNow
    BY <2>1 DEF AcceptsNow
  <2> QED BY <1>1, <2>1, <2>4, <2>5 DEF MailFromA
<1>8. CASE AcceptUnanswered \/ StaleOffer \/ CompleteOpenA \/ CompleteRolloverA
           \/ CompleteSettleA \/ CompleteRenewConfirmA
  <2>1. UNCHANGED <<netCA, lastOutA>> /\ inA' = NoMessage /\ (netAC' = netAC \/ SendLastA(lastOutA))
    BY <1>8 DEF AcceptUnanswered, StaleOffer, CompleteOpenA, CompleteRolloverA, CompleteSettleA,
       CompleteRenewConfirmA, DoneA
  <2>2. On(netAC') \subseteq On(netAC) \union {lastOutA'}
    BY <2>1, SendLastAOn, Typed
  <2> QED BY <1>1, <2>1, <2>2 DEF MailFromA
<1> QED BY <1>3, <1>4, <1>5, <1>6, <1>7, <1>8 DEF HandlerA

\* The directions in which messages go.
LEMMA DirectionsNext ==
    ASSUME Calm, Calm', CalmOK, DirectionsOK, Next
    PROVE  DirectionsOK'
<1>0. /\ IInv /\ CalmNext /\ NoMessage.type = "None"
  BY CalmMoves, Nothing DEF Calm
<1> USE DEF FromApp, FromCoordinator
<1>1. ASSUME NEW p \in Protocols, Takes(p) PROVE DirectionsOK'
  BY <1>1, TakesFrame DEF DirectionsOK
<1>2. ASSUME NEW p \in Protocols, Propose(p) PROVE DirectionsOK'
  <2>1. UNCHANGED <<netCA, netAC, inC, inA, lastOutA>> /\ lastOutC'.type \in OfferTypes
    BY <1>2 DEF Propose, Msg, OfferType, OfferTypes, appVars, netVars
  <2> QED BY <2>1 DEF DirectionsOK
<1>3. ASSUME NEW p \in Protocols, StartProtocol(p) \/ UpdatePosition(p) \/ FinishTask(p) PROVE DirectionsOK'
  <2>1. UNCHANGED <<netAC, inC, inA, lastOutA, lastOutC>> /\ (netCA' = netCA \/ SendLastC(lastOutC))
        /\ (SendLastC(lastOutC) => On(netCA') \subseteq On(netCA) \union {lastOutC})
    BY <1>0, <1>3, SendLastCOn DEF StartProtocol, UpdatePosition, FinishTask, appVars, netVars, ToApp
  <2>2. SendLastC(lastOutC) => \A m \in On(netCA') : m.type \in FromCoordinator
    <3>1. lastOutC.type = "None" => lastOutC = NoMessage
      BY <1>0 DEF IInv, TypeOK, MaybeMessage, Messages, MessageTypes, OfferTypes, AcceptTypes
    <3>2. lastOutC = NoMessage /\ SendLastC(lastOutC) => netCA' = netCA
      BY DEF SendLastC, Resend
    <3> QED BY <2>1, <3>1, <3>2 DEF DirectionsOK
  <2> QED BY <2>1, <2>2 DEF DirectionsOK
<1>4. ASSUME NEW o \in Orders, GiveUp(o) PROVE DirectionsOK'
  BY <1>4 DEF DirectionsOK, GiveUp, appVars, netVars
<1>5. CASE Shows
  <2>1. UNCHANGED <<netAC, netCA, inC, inA, lastOutA, lastOutC>>
    BY <1>5 DEF Shows, OrderPosted, SubmitRefused, OnTradeError, CheckOpenOrders, Tick, appVars, netVars, coordinatorVars
  <2> QED BY <2>1 DEF DirectionsOK
<1>6. CASE HandlerC
  <2>1. MailFromC
    BY <1>0, <1>6, HandlerCMail
  <2>2. \A m : Coordinator(m.type)[3] # "None" => Msg(Coordinator(m.type)[3], m.pid).type \in FromCoordinator
    BY DEF Coordinator, Msg
  <2>3. lastOutC.type = "None" => lastOutC = NoMessage
    BY <1>0 DEF IInv, TypeOK, MaybeMessage, Messages, MessageTypes, OfferTypes, AcceptTypes
  <2>4. netCA' = netCA \/ (SendLastC(lastOutC) /\ lastOutC # NoMessage)
    BY <1>6 DEF HandlerC, SkipC, ReceiveC, RefuseC, CompleteC, CompleteCFails, CompleteReject,
       netVars, SendLastC, Resend
  <2> QED BY <1>0, <2>1, <2>2, <2>3, <2>4 DEF DirectionsOK, MailFromC
<1>7. CASE HandlerA
  <2>1. MailFromA
    BY <1>0, <1>7, HandlerAMail
  <2>2. \A m : App(m.type)[3] # "None" => Msg(App(m.type)[3], m.pid).type \in FromApp
    BY DEF App, Msg
  <2>3. AcceptsNow => lastOutA'.type \in FromApp
    BY DEF AcceptsNow, Acceptance, Msg, AcceptTypes
  <2>4. lastOutA'.type \in FromApp \union {"None"}
    BY <2>1, <2>2, <2>3 DEF DirectionsOK, MailFromA
  <2>5. lastOutA'.type = "None" => lastOutA' = NoMessage
    BY DEF Calm, IInv, TypeOK, MaybeMessage, Messages, MessageTypes, OfferTypes, AcceptTypes
  <2>6. \A m \in On(netAC') : m \in Messages
    BY DEF Calm, IInv, MessagesOK, Wire, On, Belongs
  <2>7. \A m \in On(netAC') : m.type \in FromApp
    BY <2>1, <2>4, <2>5, <2>6, Nothing DEF DirectionsOK, MailFromA
  <2> QED BY <1>0, <2>1, <2>4, <2>7 DEF DirectionsOK, MailFromA, coordinatorVars
<1> QED BY <1>0, <1>1, <1>2, <1>3, <1>4, <1>5, <1>6, <1>7 DEF CalmNext

-----------------------------------------------------------------------------
(* What is stored to be sent *)

\* In orderly trading the coordinator's handler and its tasks take turns.
LEMMA TakeTurns ==
    ASSUME Calm
    PROVE  inC # NoMessage => Proposing = {} /\ Unsent = {}
BY DEF Calm, Orderly, Proposing, Unsent

\* What an offer does to the coordinator's channel.
LEMMA OfferMoves ==
    ASSUME Calm, NEW p \in Protocols, Propose(p)
    PROVE  /\ chanC'.ref = p /\ chanC'.state = OfferedState(task[p].kind)
           /\ chanC'.contract = chanC.contract
           /\ chanC.state \in {"None", "Cancelled", "Established", "Settled"}
           /\ task[p].kind = "OpenChannel" => chanC.state \in {"None", "Cancelled"}
           /\ task[p].kind \in {"Settle", "Rollover"} => chanC.state = "Established"
           /\ task[p].kind \in {"OpenPosition", "ResizePosition"} => chanC.state \in {"Established", "Settled"}
           /\ lastOutC' = Msg(OfferType(task[p].kind), p) /\ task[p].pc = "propose"
           /\ offers[p] = NoOffer /\ task[p].kind \in Kinds
           /\ offers'[p].kind = task[p].kind /\ offers'[p].order = task[p].order
           /\ offers'[p].size = task[p].size /\ offers'[p].expiry = task[p].expiry
           /\ \A q \in Protocols : q # p => offers'[q] = offers[q]
           /\ UNCHANGED <<orderC, protocols, positions, inC, inA, chanA, posA, orderA>>
           /\ UNCHANGED <<lastOutA, netCA, netAC, tradeErrors>>
<1>0. chanC \in Channels /\ offers \in [Protocols -> Offers] /\ Sound(chanC)
  BY Typed DEF Calm, CInv, ChannelsOK
<1>1. /\ task[p].pc = "propose" /\ CanOffer(task[p].kind) /\ chanC' = OfferedChannel(p, task[p].kind)
      /\ lastOutC' = Msg(OfferType(task[p].kind), p)
      /\ UNCHANGED <<orderC, protocols, positions, inC, inA, chanA, posA, orderA>>
      /\ UNCHANGED <<lastOutA, netCA, netAC, tradeErrors>>
      /\ offers' = [offers EXCEPT ![p] = [kind |-> task[p].kind, order |-> task[p].order,
                                        size |-> task[p].size, expiry |-> task[p].expiry]]
  BY DEF Propose, appVars, netVars
<1>2. offers[p] = NoOffer /\ task[p].kind \in Kinds
  BY <1>1 DEF Calm, IInv, TasksOK
<1>3. /\ chanC.state \in {"None", "Cancelled", "Established", "Settled"}
      /\ task[p].kind = "OpenChannel" => chanC.state \in {"None", "Cancelled"}
      /\ task[p].kind \in {"Settle", "Rollover"} => chanC.state = "Established"
      /\ task[p].kind \in {"OpenPosition", "ResizePosition"} => chanC.state \in {"Established", "Settled"}
  BY <1>1 DEF CanOffer
<1>4. chanC'.ref = p /\ chanC'.state = OfferedState(task[p].kind) /\ chanC'.contract = chanC.contract
  BY <1>0, <1>1, <1>3 DEF OfferedChannel, OfferedState, InChannel, Sound
<1> QED BY <1>0, <1>1, <1>2, <1>3, <1>4

\* Every step keeps the stored reply with the message that is half handled.
LEMMA OutboxNext ==
    ASSUME Calm, Calm', CalmOK, OwnersOK, OwnersOK', DirectionsOK, OutboxOK, HalfwayOK, Next
    PROVE  OutboxOK' /\ HalfwayOK'
<1> USE DEF appVars, netVars, boundVars, coordinatorVars
<1>0. /\ IInv /\ CalmNext /\ NoMessage.type = "None"
      /\ chanC \in Channels /\ chanA \in Channels /\ netCA \in Seq(Messages) /\ netAC \in Seq(Messages)
      /\ task \in [Protocols -> Tasks] /\ offers \in [Protocols -> Offers]
  BY CalmMoves, Nothing, Typed DEF Calm, IInv, TypeOK
<1>1. ASSUME Unsent' \subseteq Unsent, UNCHANGED <<chanC, lastOutC, inC, inA, lastOutA, chanA>>,
             \A q \in Unsent : offers'[q] = offers[q]
      PROVE  OutboxOK' /\ HalfwayOK'
  BY <1>1 DEF OutboxOK, HalfwayOK
<1>2. ASSUME NEW p \in Protocols, Takes(p) PROVE OutboxOK' /\ HalfwayOK'
  <2>1. Unsent' \subseteq Unsent
    BY <1>0, <1>2, TakesMoves DEF TakesTask, Posts, Goes, Rolls, Fails, Unsent, Idle
  <2> QED BY <1>1, <1>2, <2>1, TakesFrame
<1>3. ASSUME NEW p \in Protocols, Propose(p) PROVE OutboxOK' /\ HalfwayOK'
  <2>1. chanC.state \in {"None", "Cancelled", "Established", "Settled"}
    BY <1>3, OfferMoves
  <2>2. Unsent = {}
    BY <2>1 DEF OutboxOK, OfferedState
  <2>3. p \in Unsent' /\ Unsent' = {p}
    BY <1>0, <1>3, <2>2 DEF Unsent, Propose, Tasks
  <2>4. inC' = NoMessage /\ UNCHANGED <<inA, lastOutA, chanA>>
    BY <1>3, <2>3, TakeTurns, OfferMoves DEF Calm, Orderly, Proposing, Unsent
  <2>5. offers'[p].kind = task[p].kind
    BY <1>3, OfferMoves
  <2>6. /\ chanC'.ref = p /\ chanC'.state = OfferedState(offers'[p].kind)
        /\ lastOutC' = Msg(OfferType(offers'[p].kind), p)
    BY <1>3, <2>5, OfferMoves
  <2>7. OutboxOK'
    BY <1>0, <2>3, <2>4, <2>6 DEF OutboxOK, AcceptTypes
  <2> QED BY <1>0, <2>4, <2>7 DEF HalfwayOK
<1>4. ASSUME NEW p \in Protocols, StartProtocol(p) \/ UpdatePosition(p) \/ FinishTask(p)
      PROVE  OutboxOK' /\ HalfwayOK'
  <2>1. UNCHANGED <<chanC, lastOutC, inC, inA, lastOutA, chanA, offers>> /\ p \in Unsent
    BY <1>4 DEF StartProtocol, UpdatePosition, FinishTask, Unsent
  <2>2. \A q \in Protocols : q # p => task'[q] = task[q]
    BY <1>0, <1>4, ProtocolTask
  <2>3. Unsent' \subseteq Unsent
    BY <2>1, <2>2 DEF Unsent
  <2> QED BY <1>1, <2>1, <2>3
<1>5. ASSUME NEW o \in Orders, GiveUp(o) PROVE OutboxOK' /\ HalfwayOK'
  <2>1. UNCHANGED <<chanC, lastOutC, inC, inA, lastOutA, chanA, offers, task>>
    BY <1>5 DEF GiveUp
  <2> QED BY <1>1, <2>1 DEF Unsent
<1>6. CASE Shows
  <2>1. UNCHANGED <<chanC, lastOutC, inC, inA, lastOutA, chanA, offers, task>>
    BY <1>6 DEF Shows, OrderPosted, SubmitRefused, OnTradeError, CheckOpenOrders, Tick
  <2> QED BY <1>1, <2>1 DEF Unsent
<1>7. CASE SkipC \/ RefuseC \/ CompleteC \/ CompleteCFails \/ CompleteReject
  <2>1. /\ UNCHANGED <<chanC, lastOutC, inA, lastOutA, chanA, offers, task>>
        /\ inC' = inC \/ inC' = NoMessage
    BY <1>7 DEF SkipC, RefuseC, CompleteC, CompleteCFails, CompleteReject
  <2> QED BY <1>0, <2>1 DEF Unsent, OutboxOK, HalfwayOK, AcceptTypes
<1>8. CASE ReceiveC
  <2>1. PICK m \in Messages : m = Head(netAC) /\ m \in On(netAC) /\ m # NoMessage
    BY <1>0, <1>8, QueueHead, Nothing DEF ReceiveC
  <2>2. /\ UNCHANGED <<inA, lastOutA, chanA, task>> /\ inC' = m /\ AcceptableC(m)
        /\ chanC' = IF m.type = "Reject" THEN RollBack(chanC) ELSE Advance(chanC, m, Coordinator(m.type))
        /\ lastOutC' = IF Coordinator(m.type)[3] = "None" THEN lastOutC ELSE Msg(Coordinator(m.type)[3], m.pid)
    BY <1>8, <2>1 DEF ReceiveC
  <2>3. Unsent' = {}
    BY <2>1, <2>2 DEF Calm, Orderly, Proposing, Unsent
  <2>4. m.type \in FromApp
    BY <2>1 DEF DirectionsOK
  <2>5. OutboxOK'
    BY <2>2, <2>3, <2>4 DEF OutboxOK, Coordinator, AcceptTypes, FromApp
  <2>6. CASE m.type = "Reject"
    <3>1. chanC.state \in {"Offered", "SettledOffered", "RenewOffered"} /\ chanC.back \notin Awaiting
      BY <2>2, <2>6 DEF AcceptableC, ExpectsReject, Calm, RInv, RejectsOK
    <3>2. chanC'.state = chanC.back
      BY <1>0, <2>2, <2>6 DEF RollBack, Channels
    <3> QED BY <2>2, <2>5, <2>6, <3>1, <3>2 DEF HalfwayOK
  <2>7. CASE m.type # "Reject"
    <3>1. /\ chanC' = Advance(chanC, m, Coordinator(m.type)) /\ chanC.ref = m.pid
          /\ m.type \in AcceptTypes \union {"SettleFinalize", "RenewFinalize"}
      BY <2>2, <2>4, <2>7 DEF AcceptableC, Expects, FromApp
    <3>2. chanC'.state = Coordinator(m.type)[2] /\ chanC'.ref = m.pid
      BY <1>0, <3>1 DEF Advance, Channels
    <3>3. m.type \in {"Accept", "RenewFinalize"} => chanC'.contract = m.pid
      BY <1>0, <3>1 DEF Advance, Channels, Coordinator
    <3> QED BY <2>2, <2>5, <2>7, <3>2, <3>3 DEF HalfwayOK
  <2> QED BY <2>6, <2>7
<1>9. CASE SkipA \/ RefuseA \/ ForceRejectOffer
  <2>1. UNCHANGED <<chanC, lastOutC, inC, offers, task, chanA>> /\ inA' = NoMessage
    BY <1>9 DEF SkipA, RefuseA, ForceRejectOffer
  <2> QED BY <1>0, <2>1 DEF Unsent, OutboxOK, HalfwayOK
<1>10. CASE AcceptOffer \/ RejectOffer \/ AcceptUnanswered \/ StaleOffer
            \/ CompleteOpenA \/ CompleteRolloverA \/ CompleteSettleA \/ CompleteRenewConfirmA
  <2>1. UNCHANGED <<chanC, lastOutC, inC, offers, task>> /\ inA' = NoMessage
    BY <1>10 DEF AcceptOffer, RejectOffer, AcceptUnanswered, StaleOffer, CompleteOpenA,
       CompleteRolloverA, CompleteSettleA, CompleteRenewConfirmA, DoneA
  <2> QED BY <1>0, <2>1 DEF Unsent, OutboxOK, HalfwayOK
<1>11. CASE ReceiveA
  <2>1. PICK m \in Messages : m = Head(netCA) /\ m \in On(netCA)
    BY <1>0, <1>11, QueueHead DEF ReceiveA
  <2>2. /\ UNCHANGED <<chanC, lastOutC, inC, offers, task>> /\ inA' = m
        /\ m.type \notin OfferTypes => chanA' = Advance(chanA, m, App(m.type))
        /\ lastOutA' = IF App(m.type)[3] = "None" THEN lastOutA ELSE Msg(App(m.type)[3], m.pid)
    BY <1>11, <2>1 DEF ReceiveA
  <2>3. OutboxOK'
    BY <1>0, <2>2 DEF Unsent, OutboxOK, App
  <2>4. m.type \in {"Sign", "RenewRevoke"} => chanA'.state = "Established" /\ chanA'.contract = m.pid
    BY <1>0, <2>2 DEF Advance, App, Channels, OfferTypes
  <2>5. m.type = "SettleConfirm" => chanA'.state = "Settled"
    BY <1>0, <2>2 DEF Advance, App, Channels, OfferTypes
  <2> QED BY <2>2, <2>3, <2>4, <2>5 DEF HalfwayOK
<1> QED BY <1>0, <1>2, <1>3, <1>4, <1>5, <1>6, <1>7, <1>8, <1>9, <1>10, <1>11 DEF CalmNext, HandlerC, HandlerA

-----------------------------------------------------------------------------
(* The two sides take turns *)

\* A queue with one message.
LEMMA SingleMessage ==
    ASSUME NEW m \in Messages
    PROVE  /\ Append(<<>>, m) # <<>> /\ Tail(Append(<<>>, m)) = <<>>
           /\ On(Append(<<>>, m)) = {m} /\ Line(Append(<<>>, m))
<1>1. <<>> \in Seq(Messages) /\ On(<<>>) = {}
  BY DEF On
<1>2. On(Append(<<>>, m)) = {m}
  BY <1>1, QueueAppend
<1>3. Append(<<>>, m) \in Seq(Messages) /\ Len(Append(<<>>, m)) = 1
  BY <1>1
<1>4. Append(<<>>, m) # <<>>
  BY <1>3
<1>5. Tail(Append(<<>>, m)) \in Seq(Messages) /\ Len(Tail(Append(<<>>, m))) = 0
  BY <1>3, <1>4
<1>6. Tail(Append(<<>>, m)) = <<>>
  BY <1>5
<1>7. Line(Append(<<>>, m))
  BY <1>3 DEF Line
<1> QED BY <1>2, <1>4, <1>6, <1>7

\* A queue whose messages are none is empty.
LEMMA NothingOn ==
    ASSUME NEW q \in Seq(Messages)
    PROVE  q = <<>> <=> On(q) = {}
<1>1. q # <<>> => Head(q) \in On(q)
  BY QueueHead
<1> QED BY <1>1, QueueEmpty

\* The head of the line.
LEMMA LineTail ==
    ASSUME NEW q \in Seq(Messages), q # <<>>, Line(q)
    PROVE  /\ Line(Tail(q)) /\ \A m \in On(Tail(q)) : m.type \in OfferTypes
           /\ Asks(Head(q)) => Tail(q) = <<>>
<1>1. /\ Tail(q) \in Seq(Messages) /\ Len(Tail(q)) = Len(q) - 1 /\ Len(q) \in Nat /\ Len(q) > 0
      /\ Head(q) = q[1] /\ 1 \in 1 .. Len(q)
  OBVIOUS
<1>2. \A k \in 1 .. Len(Tail(q)) : Tail(q)[k] = q[k + 1] /\ k + 1 \in 1 .. Len(q) /\ 1 < k + 1
  BY <1>1
<1>3. \A k, l \in 1 .. Len(Tail(q)) : k < l => k + 1 < l + 1
  BY <1>1
<1>4. Line(Tail(q))
  BY <1>2, <1>3 DEF Line
<1>5. \A k \in 1 .. Len(Tail(q)) : ~ Asks(q[1]) /\ Tail(q)[k].type \in OfferTypes
  BY <1>1, <1>2 DEF Line
<1>6. Asks(Head(q)) => Len(Tail(q)) = 0
  BY <1>1, <1>5
<1> QED BY <1>1, <1>4, <1>5, <1>6 DEF On

\* An offer joins the line behind messages that ask for nothing.
LEMMA LineAppend ==
    ASSUME NEW q \in Seq(Messages), NEW m \in Messages, Line(q), m.type \in OfferTypes,
           \A n \in On(q) : ~ Asks(n)
    PROVE  Line(Append(q, m))
<1>1. Append(q, m) \in Seq(Messages) /\ Len(Append(q, m)) = Len(q) + 1 /\ Len(q) \in Nat
  OBVIOUS
<1>2. \A k \in 1 .. Len(q) + 1 : Append(q, m)[k] = IF k = Len(q) + 1 THEN m ELSE q[k]
  OBVIOUS
<1>3. \A k, l \in 1 .. Len(q) + 1 : k < l => k \in 1 .. Len(q) /\ k # Len(q) + 1 /\ (l = Len(q) + 1 \/ l \in 1 .. Len(q))
  BY <1>1
<1>4. \A k \in 1 .. Len(q) : ~ Asks(q[k])
  BY DEF On
<1> QED BY <1>1, <1>2, <1>3, <1>4 DEF Line

\* A message that asks is one of those that name the state they are awaited in.
LEMMA AskingTypes ==
    ASSUME Calm, DirectionsOK, NEW m \in Underway
    PROVE  /\ Asks(m) => Belongs(offers, m) /\ m \in Messages /\ m # NoMessage
           /\ m.type \in OfferTypes => Asks(m)
           /\ m \in On(netAC) => Asks(m)
<1>1. m = NoMessage \/ Belongs(offers, m)
  BY DEF Calm, IInv, MessagesOK, Slot, Wire, On, Underway
<1>2. Asks(m) => m # NoMessage
  BY Nothing DEF Asks
<1>3. m.type \in OfferTypes => Asks(m)
  BY DEF Asks, OfferTypes
<1>4. m \in On(netAC) => Asks(m)
  BY DEF DirectionsOK, Asks, FromApp, AcceptTypes
<1> QED BY <1>1, <1>2, <1>3, <1>4 DEF Belongs

\* Nobody asks anything while the coordinator's channel is at rest.
LEMMA AtRestSilent ==
    ASSUME Calm, DirectionsOK, TurnsOK, chanC.state \notin Awaiting
    PROVE  Silent
<1>1. SUFFICES ASSUME NEW m \in Underway, Asks(m) PROVE FALSE
  BY DEF Silent
<1>2. Belongs(offers, m) /\ m \in Messages /\ Waits(chanC, m)
  BY <1>1, AskingTypes DEF TurnsOK
<1>3. m.type \notin {"Offer", "Accept", "SettleOffer", "SettleAccept", "RenewOffer", "RenewAccept",
                     "SettleConfirm", "SettleFinalize", "RenewConfirm", "RenewFinalize", "Reject"}
  BY <1>2 DEF Waits, Awaiting, OfferedState
<1> QED BY <1>1, <1>2, <1>3 DEF Asks, Messages, MessageTypes, OfferTypes, AcceptTypes

\* While nobody asks, nothing is on its way to the coordinator.
LEMMA SilentLine ==
    ASSUME Calm, DirectionsOK, Silent
    PROVE  netAC = <<>> /\ ~ Asks(inA) /\ \A m \in On(netCA) : ~ Asks(m)
<1>1. netAC \in Seq(Messages)
  BY Typed DEF Calm
<1>2. On(netAC) = {}
  BY AskingTypes DEF Silent, Underway
<1> QED BY <1>1, <1>2, NothingOn DEF Silent, Underway

\* The app has answered: the message on its way to the coordinator is the only one.
LEMMA Replied ==
    ASSUME TurnsOK, UNCHANGED <<chanC, inC, task, offers>>, netCA' = <<>>, inA' = NoMessage,
           inC = NoMessage, Unsent = {}, NEW m \in Messages, Waits(chanC, m),
           netAC' = <<>> \/ netAC' = Append(<<>>, m)
    PROVE  TurnsOK'
<1>1. netAC' # <<>> => Tail(netAC') = <<>>
  BY SingleMessage
<1>2. On(netAC') \subseteq {m} /\ On(netCA') = {} /\ Line(netCA')
  BY SingleMessage, QueueEmpty DEF Line
<1>3. ~ Asks(inA')
  BY Nothing DEF Asks
<1>4. \A n \in Underway' : Asks(n) => n = m
  BY <1>2, <1>3 DEF Underway
<1>5. Unsent' = {} /\ (Waits(chanC, m))'
  BY DEF Unsent, Waits
<1>6. \A n \in Underway' : Asks(n) => Waits(chanC, n)'
  BY <1>4, <1>5
<1> QED BY <1>1, <1>2, <1>3, <1>5, <1>6, Nothing DEF TurnsOK

\* Messages are dropped, handled or taken from the line.
LEMMA TurnsKept ==
    ASSUME TurnsOK, UNCHANGED <<chanC, offers>>, Unsent' \subseteq Unsent, inC' = inC \/ inC' = NoMessage,
           Underway' \subseteq Underway \union {NoMessage},
           netAC' = netAC \/ netAC' = <<>>, netCA' = netCA \/ (netAC' = <<>> /\ inC' = NoMessage),
           inA' = inA \/ inA' = NoMessage \/ (netAC' = <<>> /\ inC' = NoMessage),
           Asks(inA') => netCA' = <<>>, inA' # NoMessage => \A m \in On(netCA') : m.type \in OfferTypes,
           Line(netCA')
    PROVE  TurnsOK'
<1>1. NoMessage.type = "None" /\ ~ Asks(NoMessage)
  BY Nothing DEF Asks
<1>2. Unsent' # {} => Silent'
  BY <1>1 DEF TurnsOK, Silent
<1>3. \A m \in Underway' : Asks(m) => Waits(chanC, m)'
  BY <1>1 DEF TurnsOK, Waits
<1> QED BY <1>1, <1>2, <1>3 DEF TurnsOK

\* The coordinator's tasks.
LEMMA TasksTurns ==
    ASSUME Calm, Calm', CalmOK, OwnersOK, DirectionsOK, OutboxOK, TurnsOK, NEW p \in Protocols,
           Takes(p) \/ Propose(p) \/ StartProtocol(p) \/ UpdatePosition(p) \/ FinishTask(p)
    PROVE  TurnsOK'
<1> USE DEF appVars, netVars, boundVars, coordinatorVars
<1>0. /\ IInv /\ NoMessage.type = "None" /\ netCA \in Seq(Messages) /\ task \in [Protocols -> Tasks]
      /\ ~ Asks(NoMessage)
  BY Nothing, Typed DEF Calm, IInv, TypeOK, Asks
<1>1. ASSUME UNCHANGED <<netCA, netAC, inA, inC, chanC, offers>>, Unsent' \subseteq Unsent
      PROVE  TurnsOK'
  <2>1. Underway' = Underway
    BY <1>1 DEF Underway
  <2> QED BY <1>1, <2>1, TurnsKept DEF TurnsOK
<1>2. CASE Takes(p)
  <2>1. Unsent' \subseteq Unsent
    BY <1>0, <1>2, TakesMoves DEF TakesTask, Posts, Goes, Rolls, Fails, Unsent, Idle
  <2> QED BY <1>1, <1>2, <2>1, TakesFrame
<1>3. CASE StartProtocol(p) \/ UpdatePosition(p)
  <2>1. UNCHANGED <<netCA, netAC, inA, inC, chanC, offers>> /\ p \in Unsent
    BY <1>3 DEF StartProtocol, UpdatePosition, Unsent
  <2>2. \A q \in Protocols : q # p => task'[q] = task[q]
    BY <1>0, <1>3, ProtocolTask
  <2> QED BY <1>1, <2>1, <2>2 DEF Unsent
<1>4. CASE Propose(p)
  <2>1. chanC.state \in {"None", "Cancelled", "Established", "Settled"} /\ UNCHANGED <<netCA, netAC, inA, inC>>
    BY <1>4, OfferMoves
  <2>2. Silent
    BY <2>1, AtRestSilent DEF Awaiting
  <2>3. Silent' /\ \A m \in Underway' : ~ Asks(m)
    BY <2>1, <2>2 DEF Silent, Underway
  <2>4. p \in Unsent'
    BY <1>0, <1>4 DEF Unsent, Propose, Tasks
  <2>5. inC' = NoMessage
    BY <2>4, TakeTurns DEF Calm, Orderly, Proposing, Unsent
  <2> QED BY <1>0, <2>1, <2>3, <2>5 DEF TurnsOK
<1>5. CASE FinishTask(p)
  <2>1. p \in Unsent /\ UNCHANGED <<netAC, inA, inC, chanC, offers>> /\ SendLastC(lastOutC)
        /\ task' = [task EXCEPT ![p] = Idle]
    BY <1>5 DEF FinishTask, Unsent
  <2>2. Silent /\ inC = NoMessage /\ inC' = NoMessage
    BY <2>1, TakeTurns DEF TurnsOK
  <2>3. netAC = <<>> /\ ~ Asks(inA) /\ \A m \in On(netCA) : ~ Asks(m)
    BY <2>2, SilentLine
  <2>4. Unsent' = {}
    BY <1>0, <2>1 DEF OutboxOK, Unsent, Idle
  <2>5. /\ chanC.ref = p /\ chanC.state = OfferedState(offers[p].kind)
        /\ lastOutC = Msg(OfferType(offers[p].kind), p)
    BY <2>1 DEF OutboxOK
  <2>6. lastOutC.type = OfferType(offers[p].kind) /\ lastOutC.pid = p
    BY <2>5 DEF Msg
  <2>7. lastOutC.type \in OfferTypes /\ Waits(chanC, lastOutC)
    BY <2>5, <2>6 DEF Waits, OfferType, OfferTypes, OfferedState
  <2>8. PICK m \in Messages : m = lastOutC /\ m # NoMessage
    BY <1>0, <2>7, Nothing DEF IInv, TypeOK, MaybeMessage, OfferTypes
  <2>9. netCA' = Append(netCA, m)
    BY <2>1, <2>8 DEF SendLastC, Resend, CalmOK
  <2>10. On(netCA') = On(netCA) \union {m} /\ Line(netCA')
    BY <1>0, <2>3, <2>7, <2>8, <2>9, QueueAppend, LineAppend DEF TurnsOK
  <2>11. inA' # NoMessage => \A n \in On(netCA') : n.type \in OfferTypes
    BY <2>1, <2>7, <2>8, <2>10 DEF TurnsOK
  <2>12. \A n \in Underway' : Asks(n) => n = m
    BY <2>1, <2>2, <2>10 DEF Underway, Silent
  <2>13. Waits(chanC, m)'
    BY <2>1, <2>7, <2>8 DEF Waits
  <2>14. \A n \in Underway' : Asks(n) => Waits(chanC, n)'
    BY <2>12, <2>13
  <2> QED BY <1>0, <2>1, <2>2, <2>3, <2>4, <2>10, <2>11, <2>14 DEF TurnsOK
<1> QED BY <1>2, <1>3, <1>4, <1>5

\* A message that waits at the coordinator is one it can process.
LEMMA WaitsAcceptable ==
    ASSUME Calm, DirectionsOK, TurnsOK, NEW m \in On(netAC)
    PROVE  AcceptableC(m) /\ Waits(chanC, m) /\ chanC.state \in Awaiting
<1>1. Belongs(offers, m) /\ m \in Messages /\ m # NoMessage /\ Waits(chanC, m) /\ m.type \in FromApp
  BY AskingTypes DEF TurnsOK, Underway, DirectionsOK
<1>2. m.pid \in Protocols /\ offers[m.pid].kind \in Kinds
  BY <1>1, Typed, KindsOfMessages DEF Calm
<1>3. CASE m.type = "Reject"
  BY <1>1, <1>2, <1>3 DEF Waits, AcceptableC, ExpectsReject, OfferedState, Awaiting
<1>4. CASE m.type # "Reject"
  BY <1>1, <1>4 DEF Waits, AcceptableC, Expects, Coordinator, FromApp, AcceptTypes, Awaiting
<1> QED BY <1>3, <1>4

\* The coordinator's handler.
LEMMA HandlerCTurns ==
    ASSUME Calm, Calm', CalmOK, OwnersOK, DirectionsOK, OutboxOK, HalfwayOK, TurnsOK, HandlerC
    PROVE  TurnsOK'
<1> USE DEF appVars, netVars, boundVars, coordinatorVars
<1>0. /\ IInv /\ NoMessage.type = "None" /\ netCA \in Seq(Messages) /\ netAC \in Seq(Messages)
      /\ ~ Asks(NoMessage)
  BY Nothing, Typed DEF Calm, Asks
<1>1. UNCHANGED <<task, offers, inA>> /\ Unsent' = Unsent
  BY DEF HandlerC, SkipC, ReceiveC, RefuseC, CompleteC, CompleteCFails, CompleteReject, Unsent
<1>2. CASE SkipC \/ RefuseC
  <2>1. UNCHANGED <<chanC, inC, netCA>> /\ netAC # <<>> /\ netAC' = Tail(netAC)
    BY <1>2 DEF SkipC, RefuseC
  <2>2. netAC' = <<>>
    BY <2>1 DEF TurnsOK
  <2>3. Underway' \subseteq Underway
    BY <1>1, <2>1, <2>2, QueueEmpty DEF Underway
  <2> QED BY <1>1, <2>1, <2>2, <2>3, TurnsKept DEF TurnsOK
<1>3. CASE CompleteCFails \/ CompleteReject
  <2>1. UNCHANGED <<chanC, netCA, netAC>> /\ inC' = NoMessage
    BY <1>3 DEF CompleteCFails, CompleteReject
  <2>2. Underway' \subseteq Underway
    BY <1>1, <2>1 DEF Underway
  <2> QED BY <1>1, <2>1, <2>2, TurnsKept DEF TurnsOK
<1>4. CASE ReceiveC
  <2>1. PICK m \in Messages : m = Head(netAC) /\ m \in On(netAC)
    BY <1>0, <1>4, QueueHead DEF ReceiveC
  <2>2. /\ netAC # <<>> /\ netAC' = Tail(netAC) /\ inC' = m /\ netCA' = netCA
        /\ chanC' = IF m.type = "Reject" THEN RollBack(chanC) ELSE Advance(chanC, m, Coordinator(m.type))
    BY <1>4, <2>1 DEF ReceiveC
  <2>3. netAC' = <<>> /\ netCA' = <<>> /\ inA' = NoMessage
    BY <1>1, <2>2 DEF TurnsOK
  <2>4. chanC'.ref = m.pid
    <3>1. chanC.ref = m.pid
      BY <2>1, WaitsAcceptable DEF Waits
    <3>2. chanC'.ref = chanC.ref
      BY <2>2, Typed DEF RollBack, Advance, Channels, Calm
    <3> QED BY <3>1, <3>2
  <2>5. Underway' = {NoMessage} /\ On(netCA') = {} /\ Line(netCA')
    BY <2>3, QueueEmpty DEF Underway, Line
  <2>6. Silent'
    BY <1>0, <2>5 DEF Silent
  <2> QED BY <1>0, <2>2, <2>3, <2>4, <2>5, <2>6 DEF TurnsOK, Silent
<1>5. CASE CompleteC
  <2>1. /\ UNCHANGED <<chanC, netAC, lastOutC>> /\ inC' = NoMessage
        /\ inC.type \in MessageTypes \ {"Reject"}
        /\ \/ Coordinator(inC.type)[3] = "None" /\ netCA' = netCA
           \/ Coordinator(inC.type)[3] # "None" /\ SendLastC(lastOutC)
    BY <1>5 DEF CompleteC
  <2>2. inC # NoMessage /\ inC.type \in AcceptTypes \union {"SettleFinalize", "RenewFinalize"}
    BY <1>0, <2>1 DEF DirectionsOK, FromApp, MessageTypes, OfferTypes, AcceptTypes
  <2>3. netCA = <<>> /\ inA = NoMessage /\ netAC = <<>> /\ Unsent = {}
    BY <2>2, TakeTurns DEF TurnsOK
  <2>4. CASE Coordinator(inC.type)[3] = "None"
    <3>1. netCA' = netCA /\ Underway' = Underway
      BY <1>1, <2>1, <2>4 DEF Underway
    <3> QED BY <1>1, <2>1, <3>1, TurnsKept DEF TurnsOK
  <2>5. CASE Coordinator(inC.type)[3] # "None"
    <3>1. inC.type \in AcceptTypes \union {"RenewFinalize"}
      BY <2>2, <2>5 DEF Coordinator, AcceptTypes
    <3>2. lastOutC = Msg(Coordinator(inC.type)[3], inC.pid)
      BY <3>1 DEF OutboxOK
    <3>3. lastOutC.type = Coordinator(inC.type)[3] /\ lastOutC.pid = inC.pid
      BY <3>2 DEF Msg
    <3>4. PICK m \in Messages : m = lastOutC /\ m # NoMessage
      BY <1>0, <2>5, <3>3, Nothing DEF IInv, TypeOK, MaybeMessage
    <3>5. netCA' = Append(<<>>, m)
      BY <2>1, <2>3, <2>5, <3>4 DEF SendLastC, Resend, CalmOK
    <3>6. On(netCA') = {m} /\ Line(netCA')
      BY <3>4, <3>5, SingleMessage
    <3>7. chanC.ref = inC.pid /\ chanC.state = Coordinator(inC.type)[2]
      BY <3>1 DEF HalfwayOK, AcceptTypes
    <3>8. Asks(m) => Waits(chanC, m)
      BY <3>1, <3>3, <3>4, <3>7 DEF Waits, Asks, Coordinator, AcceptTypes
    <3>9. Asks(m) => Waits(chanC, m)'
      BY <1>1, <2>1, <3>8 DEF Waits
    <3>10. Underway' = {m, NoMessage}
      BY <1>1, <2>1, <2>3, <3>6, QueueEmpty DEF Underway
    <3>11. \A n \in Underway' : Asks(n) => Waits(chanC, n)'
      BY <1>0, <3>9, <3>10
    <3> QED BY <1>0, <1>1, <2>1, <2>3, <3>6, <3>11 DEF TurnsOK
  <2> QED BY <2>4, <2>5
<1> QED BY <1>2, <1>3, <1>4, <1>5 DEF HandlerC

\* A reject of an offer is awaited where the offer is.
LEMMA RejectWaits ==
    ASSUME Calm, NEW m, Belongs(offers, m), m.type \in OfferTypes, Waits(chanC, m), NEW s \in Nat
    PROVE  /\ [type |-> "Reject", pid |-> m.pid, ts |-> s] \in Messages
           /\ Waits(chanC, [type |-> "Reject", pid |-> m.pid, ts |-> s])
<1>1. m.pid \in Protocols /\ offers[m.pid].kind \in Kinds /\ m.type \in TypesOf(offers[m.pid].kind)
  BY Typed, KindsOfMessages DEF Calm, Belongs
<1>2. chanC.ref = m.pid /\ chanC.state = OfferedState(offers[m.pid].kind)
  BY <1>1 DEF Waits, OfferTypes, OfferedState, TypesOf, Kinds, OpenKinds, RenewKinds
<1>3. PICK r : r = [type |-> "Reject", pid |-> m.pid, ts |-> s]
  OBVIOUS
<1>4. r.type = "Reject" /\ r.pid = m.pid
  BY <1>3
<1>5. Waits(chanC, r)
  BY <1>2, <1>4 DEF Waits
<1> QED BY <1>1, <1>3, <1>5 DEF Messages, MessageTypes

\* The app's handler.
LEMMA HandlerATurns ==
    ASSUME Calm, Calm', CalmOK, OwnersOK, DirectionsOK, OutboxOK, HalfwayOK, TurnsOK, HandlerA
    PROVE  TurnsOK'
<1> USE DEF appVars, netVars, boundVars
<1>0. /\ IInv /\ NoMessage.type = "None" /\ netCA \in Seq(Messages) /\ netAC \in Seq(Messages)
      /\ ~ Asks(NoMessage)
  BY Nothing, Typed DEF Calm, Asks
<1>1. UNCHANGED <<task, offers, chanC, inC>> /\ Unsent' = Unsent
  BY <1>0, HandlerAMail DEF MailFromA, coordinatorVars, Unsent
<1>2. netCA # <<>> \/ inA # NoMessage => netAC = <<>> /\ inC = NoMessage
  BY DEF TurnsOK
<1>3. ASSUME NEW m \in Underway, Asks(m) PROVE Unsent = {} /\ Waits(chanC, m) /\ Belongs(offers, m)
  BY <1>3, AskingTypes DEF TurnsOK, Silent
<1>4. ASSUME Asks(inA) PROVE netCA = <<>> /\ netAC = <<>> /\ inC = NoMessage /\ Unsent = {}
                             /\ Waits(chanC, inA) /\ Belongs(offers, inA)
  BY <1>0, <1>2, <1>3, <1>4 DEF TurnsOK, Underway
<1>5. ASSUME NEW m \in Messages, SendLastA(m), netAC = <<>> PROVE netAC' = Append(<<>>, m)
  BY <1>5, Nothing DEF SendLastA, Resend, CalmOK
<1>6. CASE SkipA \/ RefuseA \/ ReceiveA
  <2>1. /\ inA = NoMessage /\ netCA # <<>> /\ netCA' = Tail(netCA) /\ netAC' = netAC
        /\ inA' = NoMessage \/ inA' = Head(netCA)
    BY <1>6 DEF SkipA, RefuseA, ReceiveA
  <2>2. /\ Line(netCA') /\ \A m \in On(netCA') : m.type \in OfferTypes
        /\ Asks(Head(netCA)) => netCA' = <<>>
    BY <1>0, <2>1, LineTail DEF TurnsOK
  <2>3. Underway' \subseteq Underway
    BY <1>0, <2>1, QueueHead DEF Underway
  <2>4. Asks(inA') => netCA' = <<>>
    BY <1>0, <2>1, <2>2
  <2>5. netAC' = <<>> /\ inC' = NoMessage
    BY <1>1, <1>2, <2>1
  <2> QED BY <1>1, <2>1, <2>2, <2>3, <2>4, <2>5, TurnsKept
<1>7. CASE CompleteOpenA \/ CompleteRolloverA \/ AcceptUnanswered \/ StaleOffer
  <2>1. inA' = NoMessage /\ UNCHANGED <<netCA, netAC>>
    BY <1>7 DEF CompleteOpenA, CompleteRolloverA, AcceptUnanswered, StaleOffer, DoneA
  <2>2. Underway' \subseteq Underway \union {NoMessage}
    BY <2>1 DEF Underway
  <2> QED BY <1>0, <1>1, <2>1, <2>2, TurnsKept DEF TurnsOK
<1>8. CASE ForceRejectOffer
  <2>1. PICK m \in Messages : m = Head(netCA) /\ m \in On(netCA)
    BY <1>0, <1>8, QueueHead DEF ForceRejectOffer
  <2>2. inA = NoMessage /\ inA' = NoMessage /\ netCA # <<>> /\ netCA' = Tail(netCA) /\ m.type \in OfferTypes
    BY <1>8, <2>1 DEF ForceRejectOffer
  <2>3. PICK s \in {clock, clock + 1} : SendLastA([type |-> "Reject", pid |-> m.pid, ts |-> s])
    BY <1>8, <2>1 DEF ForceRejectOffer, SendReject
  <2>4. m \in Underway /\ Asks(m)
    BY <2>1, <2>2, AskingTypes DEF Underway
  <2>5. netCA' = <<>> /\ netAC = <<>> /\ inC = NoMessage
    BY <1>0, <1>2, <2>1, <2>2, <2>4, LineTail DEF TurnsOK
  <2>6. Unsent = {} /\ Waits(chanC, m) /\ Belongs(offers, m)
    BY <1>3, <2>4
  <2>7. s \in Nat
    BY <1>0 DEF IInv, TypeOK
  <2>8. PICK r \in Messages : r = [type |-> "Reject", pid |-> m.pid, ts |-> s] /\ Waits(chanC, r)
    BY <2>2, <2>6, <2>7, RejectWaits
  <2>9. netAC' = Append(<<>>, r)
    BY <1>5, <2>3, <2>5, <2>8
  <2> QED BY <1>1, <2>2, <2>5, <2>6, <2>8, <2>9, Replied
<1>9. CASE RejectOffer
  <2>1. inA.type \in OfferTypes /\ inA' = NoMessage /\ netCA' = netCA
    BY <1>9 DEF RejectOffer, Pending, DoneA
  <2>2. PICK s \in {clock, clock + 1} : SendLastA([type |-> "Reject", pid |-> inA.pid, ts |-> s])
    BY <1>9 DEF RejectOffer, SendReject
  <2>3. Asks(inA)
    BY <2>1 DEF Asks, OfferTypes
  <2>4. s \in Nat
    BY <1>0 DEF IInv, TypeOK
  <2>5. PICK r \in Messages : r = [type |-> "Reject", pid |-> inA.pid, ts |-> s] /\ Waits(chanC, r)
    BY <1>4, <2>1, <2>3, <2>4, RejectWaits
  <2>6. netAC' = Append(<<>>, r)
    BY <1>4, <1>5, <2>2, <2>3, <2>5
  <2> QED BY <1>1, <1>4, <2>1, <2>3, <2>5, <2>6, Replied
<1>10. CASE AcceptOffer
  <2>1. /\ inA.type \in OfferTypes /\ inA' = NoMessage /\ netCA' = netCA
        /\ SendLastA(Msg(Acceptance(inA.type)[3], inA.pid))
    BY <1>10 DEF AcceptOffer, Pending, DoneA
  <2>2. Asks(inA)
    BY <2>1 DEF Asks, OfferTypes
  <2>3. PICK r \in Messages : r = Msg(Acceptance(inA.type)[3], inA.pid)
    BY <1>0, <1>4, <2>1, <2>2, AcceptanceReplies, Typed DEF Belongs
  <2>4. r.type = Acceptance(inA.type)[3] /\ r.pid = inA.pid
    BY <2>3 DEF Msg
  <2>5. Waits(chanC, r)
    BY <1>4, <2>1, <2>2, <2>4 DEF Waits, Acceptance, OfferTypes
  <2>6. netAC' = Append(<<>>, r)
    BY <1>4, <1>5, <2>1, <2>2, <2>3
  <2> QED BY <1>1, <1>4, <2>1, <2>2, <2>3, <2>5, <2>6, Replied
<1>11. CASE CompleteSettleA \/ CompleteRenewConfirmA
  <2>1. /\ inA.type \in {"SettleConfirm", "RenewConfirm"} /\ inA' = NoMessage /\ netCA' = netCA
        /\ netAC' = netAC \/ SendLastA(lastOutA)
    BY <1>11 DEF CompleteSettleA, CompleteRenewConfirmA, DoneA
  <2>2. Asks(inA) /\ lastOutA = Msg(App(inA.type)[3], inA.pid)
    BY <2>1 DEF Asks, OutboxOK
  <2>3. lastOutA.type = App(inA.type)[3] /\ lastOutA.pid = inA.pid
    BY <2>2 DEF Msg
  <2>4. PICK r \in Messages : r = lastOutA
    BY <1>0, <2>1, <2>3, Nothing DEF IInv, TypeOK, MaybeMessage, App
  <2>5. Waits(chanC, r)
    BY <1>4, <2>1, <2>2, <2>3, <2>4 DEF Waits, App
  <2>6. netAC' = <<>> \/ netAC' = Append(<<>>, r)
    BY <1>4, <1>5, <2>1, <2>2, <2>4
  <2> QED BY <1>1, <1>4, <2>1, <2>2, <2>5, <2>6, Replied
<1> QED BY <1>6, <1>7, <1>8, <1>9, <1>10, <1>11 DEF HandlerA

\* Every step leaves at most one message that asks for something.
LEMMA TurnsNext ==
    ASSUME Calm, Calm', CalmOK, OwnersOK, DirectionsOK, OutboxOK, HalfwayOK, TurnsOK, Next
    PROVE  TurnsOK'
<1>1. ASSUME UNCHANGED <<netCA, netAC, inA, inC, chanC, offers, task>> PROVE TurnsOK'
  <2>1. Underway' = Underway /\ Unsent' = Unsent
    BY <1>1 DEF Underway, Unsent
  <2> QED BY <1>1, <2>1, TurnsKept DEF TurnsOK
<1>2. ASSUME NEW o \in Orders, GiveUp(o) PROVE TurnsOK'
  BY <1>1, <1>2 DEF GiveUp, appVars, netVars
<1>3. CASE Shows
  BY <1>1, <1>3 DEF Shows, OrderPosted, SubmitRefused, OnTradeError, CheckOpenOrders, Tick,
     appVars, netVars, coordinatorVars
<1> QED BY <1>2, <1>3, CalmMoves, TasksTurns, HandlerCTurns, HandlerATurns DEF CalmNext

-----------------------------------------------------------------------------
(* The outcomes of protocols *)

\* The message that is half way through belongs to a protocol whose task is over.
LEMMA TaskOver ==
    ASSUME Calm, OwnersOK, inC # NoMessage
    PROVE  /\ Belongs(offers, inC) /\ inC.pid \in Protocols /\ offers[inC.pid].kind \in Kinds
           /\ task[inC.pid] = Idle /\ protocols[inC.pid] \notin {"None", "Success"}
<1>1. Belongs(offers, inC)
  BY DEF Calm, IInv, MessagesOK, Slot
<1>2. inC.pid \in Protocols /\ offers[inC.pid].kind \in Kinds /\ offers[inC.pid] # NoOffer
  BY <1>1, Typed, KindsOfMessages DEF Calm, NoOffer, Kinds, OpenKinds
<1>3. task[inC.pid].pc \notin {"propose", "start", "position", "finish"}
  BY <1>2, TakeTurns DEF Proposing
<1>4. task[inC.pid].pc = "idle"
  BY <1>2, <1>3 DEF Calm, IInv, TypeOK, Tasks, TasksOK
<1>5. protocols[inC.pid] # "Success"
  BY <1>2, SuccessIsFinal DEF Calm
<1> QED BY <1>1, <1>2, <1>4, <1>5 DEF OwnersOK

\* The four ways in which outcomes change.
OutcomeStep ==
    \/ protocols' = protocols
    \/ \E p \in Protocols : /\ StartProtocol(p) /\ protocols[p] = "None"
                            /\ protocols' = [protocols EXCEPT ![p] = "Pending"]
    \/ /\ CompleteC /\ inC.type \in Finishing /\ protocols[inC.pid] = "Pending"
       /\ protocols' = [protocols EXCEPT ![inC.pid] = "Success"]
    \/ /\ CompleteCFails \/ CompleteReject
       /\ protocols[inC.pid] = "Pending"
       /\ protocols' = [protocols EXCEPT ![inC.pid] = "Failed"]

\* While the connection holds no message is refused, and an outcome is written by
\* the start of the protocol, its last message or its rejection.
LEMMA OutcomeMoves ==
    ASSUME Calm, CalmNext, OwnersOK, DirectionsOK, TurnsOK, OutcomesOK
    PROVE  OutcomeStep /\ ~ RefuseC
<1> USE DEF appVars, netVars, boundVars, coordinatorVars
<1>0. protocols \in [Protocols -> ProtocolStates] /\ NoMessage.type = "None" /\ netAC \in Seq(Messages)
  BY Nothing DEF Calm, IInv, TypeOK
<1>1. ~ RefuseC
  <2>1. RefuseC => netAC # <<>> /\ ~ AcceptableC(Head(netAC))
    BY DEF RefuseC
  <2> QED BY <1>0, <2>1, QueueHead, WaitsAcceptable
<1>2. inC # NoMessage => protocols[inC.pid] = "Pending" /\ inC.pid \in Protocols
  <2>1. inC # NoMessage => inC.type # "None"
    BY DEF Calm, IInv, TypeOK, MaybeMessage, Messages, MessageTypes, OfferTypes, AcceptTypes
  <2> QED BY <1>0, <2>1, TaskOver DEF OutcomesOK, ProtocolStates
<1>3. ASSUME NEW p \in Protocols, Takes(p) \/ Propose(p) \/ UpdatePosition(p) \/ FinishTask(p)
      PROVE  protocols' = protocols
  BY <1>3, TakesFrame DEF Propose, UpdatePosition, FinishTask
<1>4. ASSUME NEW p \in Protocols, StartProtocol(p) PROVE OutcomeStep
  <2>1. protocols[p] = "None"
    BY <1>4 DEF Calm, RInv, RecordsOK, StartProtocol
  <2> QED BY <1>4, <2>1 DEF StartProtocol, OutcomeStep
<1>5. ASSUME (\E o \in Orders : GiveUp(o)) \/ Shows PROVE OutcomeStep
  <2>1. protocols' = protocols
    BY <1>5 DEF GiveUp, Shows, OrderPosted, SubmitRefused, OnTradeError, CheckOpenOrders, Tick
  <2> QED BY <2>1 DEF OutcomeStep
<1>6. ASSUME HandlerA PROVE OutcomeStep
  <2>1. protocols' = protocols
    BY <1>6, HandlerAMail DEF MailFromA, Calm
  <2> QED BY <2>1 DEF OutcomeStep
<1>7. ASSUME SkipC \/ ReceiveC PROVE OutcomeStep
  BY <1>7 DEF SkipC, ReceiveC, OutcomeStep
<1>8. ASSUME CompleteC PROVE OutcomeStep
  <2>1. inC # NoMessage
    BY <1>0, <1>8 DEF CompleteC, MessageTypes, OfferTypes, AcceptTypes
  <2> QED BY <1>2, <1>8, <2>1 DEF CompleteC, finish_dlc_protocol, OutcomeStep
<1>9. ASSUME CompleteCFails \/ CompleteReject PROVE OutcomeStep
  <2>1. inC # NoMessage /\ FailMessage(inC)
    BY <1>0, <1>9 DEF CompleteCFails, CompleteReject, Finishing
  <2> QED BY <1>2, <1>9, <2>1 DEF FailMessage, OutcomeStep
<1>10. OutcomeStep
  BY <1>1, <1>3, <1>4, <1>5, <1>6, <1>7, <1>8, <1>9 DEF CalmNext, HandlerC, OutcomeStep
<1> QED BY <1>1, <1>10

\* An outcome is final.
LEMMA OutcomesFinal ==
    ASSUME Calm, CalmNext, OwnersOK, DirectionsOK, TurnsOK, OutcomesOK, NEW p \in Protocols
    PROVE  /\ protocols[p] = "Success" => protocols'[p] = "Success"
           /\ protocols[p] = "Failed" => protocols'[p] = "Failed"
           /\ protocols'[p] = "Failed" /\ protocols[p] # "Failed" =>
                p = inC.pid /\ inC # NoMessage /\ (CompleteCFails \/ CompleteReject)
<1>1. OutcomeStep /\ protocols \in [Protocols -> ProtocolStates] /\ NoMessage.type = "None"
  BY OutcomeMoves, Nothing DEF Calm, IInv, TypeOK
<1>2. CompleteCFails \/ CompleteReject => inC # NoMessage
  BY <1>1 DEF CompleteCFails, CompleteReject, Finishing
<1> QED BY <1>1, <1>2 DEF OutcomeStep

\* The messages that tell the app that a protocol is done.
LEMMA DoneNext ==
    ASSUME Calm, Calm', CalmOK, CalmNext, OwnersOK, DirectionsOK, DirectionsOK', OutboxOK, TurnsOK, OutcomesOK
    PROVE  \A m \in Underway' : Done(m) => protocols'[m.pid] = "Success"
<1> USE DEF appVars, netVars, boundVars, coordinatorVars
<1>0. SUFFICES ASSUME NEW m \in Underway', Done(m) PROVE protocols'[m.pid] = "Success"
  OBVIOUS
<1>1. m \in On(netCA') \union {inA'} /\ m # NoMessage
  BY <1>0, Nothing DEF Underway, DirectionsOK, Done, FromApp, AcceptTypes
<1>2. m \in Messages /\ m.pid \in Protocols
  <2>1. m \in Messages
    BY <1>1 DEF Calm, IInv, TypeOK, On, MaybeMessage
  <2> QED BY <2>1 DEF Messages
<1>3. m \in Underway => protocols'[m.pid] = "Success"
  BY <1>0, <1>2, OutcomesFinal DEF OutcomesOK
<1>4. CASE m \notin Underway
  <2>1. inA' = inA \/ inA' = NoMessage \/ inA' \in On(netCA)
    <3>1. HandlerA => inA' \in On(netCA) \union {inA, NoMessage}
      BY HandlerAMail DEF MailFromA, Calm
    <3>2. ~ HandlerA => inA' = inA
      <4>1. ASSUME NEW p \in Protocols, Takes(p) PROVE inA' = inA
        BY <4>1, TakesFrame
      <4>2. ASSUME NEW p \in Protocols, Propose(p) \/ StartProtocol(p) \/ UpdatePosition(p) \/ FinishTask(p)
            PROVE  inA' = inA
        BY <4>2 DEF Propose, StartProtocol, UpdatePosition, FinishTask
      <4>3. HandlerC => inA' = inA
        BY HandlerCMail DEF MailFromC, Calm
      <4>4. (\E o \in Orders : GiveUp(o)) \/ Shows => inA' = inA
        BY DEF GiveUp, Shows, OrderPosted, SubmitRefused, OnTradeError, CheckOpenOrders, Tick
      <4> QED BY <4>1, <4>2, <4>3, <4>4 DEF CalmNext
    <3> QED BY <3>1, <3>2
  <2>2. m \in On(netCA') /\ m \notin On(netCA)
    BY <1>1, <1>4, <2>1 DEF Underway
  <2>3. \/ CompleteC /\ Coordinator(inC.type)[3] # "None" /\ SendLastC(lastOutC)
        \/ \E p \in Protocols : FinishTask(p)
    <3>1. ASSUME NEW p \in Protocols, Takes(p) PROVE netCA' = netCA
      BY <3>1, TakesFrame
    <3>2. ASSUME NEW p \in Protocols, Propose(p) \/ StartProtocol(p) \/ UpdatePosition(p)
          PROVE  netCA' = netCA
      BY <3>2 DEF Propose, StartProtocol, UpdatePosition
    <3>3. HandlerA => On(netCA') \subseteq On(netCA)
      BY HandlerAMail DEF MailFromA, Calm
    <3>4. (\E o \in Orders : GiveUp(o)) \/ Shows => netCA' = netCA
      BY DEF GiveUp, Shows, OrderPosted, SubmitRefused, OnTradeError, CheckOpenOrders, Tick
    <3>5. SkipC \/ ReceiveC \/ RefuseC \/ CompleteCFails \/ CompleteReject => netCA' = netCA
      BY DEF SkipC, ReceiveC, RefuseC, CompleteCFails, CompleteReject
    <3>6. CompleteC => netCA' = netCA \/ (Coordinator(inC.type)[3] # "None" /\ SendLastC(lastOutC))
      BY DEF CompleteC
    <3> QED BY <2>2, <3>1, <3>2, <3>3, <3>4, <3>5, <3>6 DEF CalmNext, HandlerC
  <2>4. m = lastOutC
    BY <2>2, <2>3, SendLastCOn DEF ToApp, FinishTask, Calm
  <2>5. ASSUME NEW p \in Protocols, FinishTask(p) PROVE FALSE
    <3>1. lastOutC = Msg(OfferType(offers[p].kind), p)
      BY <2>5 DEF FinishTask, OutboxOK, Unsent
    <3> QED BY <1>0, <2>4, <3>1 DEF Msg, OfferType, Done
  <2>6. CompleteC /\ Coordinator(inC.type)[3] # "None"
    BY <2>3, <2>5
  <2>7. inC.type \in AcceptTypes \union {"RenewFinalize"}
    BY <2>6 DEF Coordinator, AcceptTypes
  <2>8. lastOutC = Msg(Coordinator(inC.type)[3], inC.pid)
    BY <2>7 DEF OutboxOK
  <2>9. m.type = Coordinator(inC.type)[3] /\ m.pid = inC.pid
    BY <2>4, <2>8 DEF Msg
  <2>10. inC.type \in Finishing
    BY <1>0, <2>7, <2>9 DEF Coordinator, AcceptTypes, Done, Finishing
  <2>11. protocols' = [protocols EXCEPT ![inC.pid] = "Success"]
    BY <2>6, <2>10 DEF CompleteC, finish_dlc_protocol
  <2> QED BY <1>2, <2>9, <2>11 DEF Calm, IInv, TypeOK
<1> QED BY <1>3, <1>4

\* The coordinator's channel changes when an offer is made and when an answer arrives.
LEMMA CoordinatorChannel ==
    ASSUME Calm, CalmNext
    PROVE  chanC' = chanC \/ (\E p \in Protocols : Propose(p)) \/ ReceiveC
<1> USE DEF appVars, netVars, boundVars, coordinatorVars
<1>1. ASSUME NEW p \in Protocols, Takes(p) PROVE chanC' = chanC
  BY <1>1, TakesFrame
<1>2. ASSUME NEW p \in Protocols, StartProtocol(p) \/ UpdatePosition(p) \/ FinishTask(p)
      PROVE  chanC' = chanC
  BY <1>2 DEF StartProtocol, UpdatePosition, FinishTask
<1>3. HandlerA => chanC' = chanC
  BY HandlerAMail DEF MailFromA, Calm
<1>4. (\E o \in Orders : GiveUp(o)) \/ Shows => chanC' = chanC
  BY DEF GiveUp, Shows, OrderPosted, SubmitRefused, OnTradeError, CheckOpenOrders, Tick
<1>5. SkipC \/ RefuseC \/ CompleteC \/ CompleteCFails \/ CompleteReject => chanC' = chanC
  BY DEF SkipC, RefuseC, CompleteC, CompleteCFails, CompleteReject
<1> QED BY <1>1, <1>2, <1>3, <1>4, <1>5 DEF CalmNext, HandlerC

\* The other outcomes.
LEMMA OutcomesNext ==
    ASSUME Calm, Calm', CalmOK, CalmOK', OwnersOK, OwnersOK', DirectionsOK, DirectionsOK', OutboxOK,
           HalfwayOK, TurnsOK, TurnsOK', OutcomesOK, Next
    PROVE  OutcomesOK'
<1> USE DEF appVars, netVars, boundVars, coordinatorVars
<1>0. /\ CalmNext /\ IInv /\ NoMessage.type = "None" /\ chanC \in Channels /\ Sound(chanC)
      /\ netAC \in Seq(Messages) /\ NoOrder \notin Orders /\ Idle.order = NoOrder
      /\ tradeErrors \subseteq Orders /\ tradeErrors' \subseteq Orders
      /\ protocols \in [Protocols -> ProtocolStates]
  BY CalmMoves, Nothing, Typed, OrdersAssumption DEF Calm, CInv, ChannelsOK, Idle, IInv, TypeOK
<1>1. \A m \in Underway' : Done(m) => protocols'[m.pid] = "Success"
  BY <1>0, DoneNext
<1>2. chanC' = chanC \/ (\E p \in Protocols : Propose(p)) \/ ReceiveC
  BY <1>0, CoordinatorChannel
<1>3. chanC'.state \in Awaiting => protocols'[chanC'.ref] # "Failed"
  <2>1. ASSUME NEW p \in Protocols, Propose(p) PROVE protocols'[chanC'.ref] # "Failed"
    <3>1. chanC'.ref = p /\ offers[p] = NoOffer /\ protocols' = protocols
      BY <2>1, OfferMoves
    <3> QED BY <3>1 DEF Calm, RInv, RecordsOK
  <2>2. CASE ReceiveC
    <3>1. Head(netAC) \in On(netAC) /\ protocols' = protocols
      BY <1>0, <2>2, QueueHead DEF ReceiveC
    <3>2. chanC.state \in Awaiting
      BY <3>1, WaitsAcceptable
    <3>3. chanC'.ref = chanC.ref
      BY <1>0, <2>2 DEF ReceiveC, RollBack, Advance, Channels
    <3> QED BY <3>1, <3>2, <3>3 DEF OutcomesOK
  <2>3. CASE chanC' = chanC /\ chanC.state \in Awaiting
    <3>1. chanC.ref \in Protocols
      BY <1>0, <2>3 DEF Sound
    <3>2. CompleteCFails \/ CompleteReject => FALSE
      BY <2>3 DEF CompleteCFails, CompleteReject, HalfwayOK, Coordinator, Finishing, Awaiting
    <3> QED BY <1>0, <2>3, <3>1, <3>2, OutcomesFinal DEF OutcomesOK
  <2> QED BY <1>2, <2>1, <2>2, <2>3
<1>4. inC'.type # "None" => protocols'[inC'.pid] # "Failed"
  <2>1. CASE ReceiveC
    <3>1. PICK m \in On(netAC) : inC' = m /\ protocols' = protocols
      BY <1>0, <2>1, QueueHead DEF ReceiveC
    <3>2. chanC.state \in Awaiting /\ chanC.ref = m.pid
      BY <3>1, WaitsAcceptable DEF Waits
    <3> QED BY <3>1, <3>2 DEF OutcomesOK
  <2>2. CASE inC' = inC /\ inC.type # "None"
    <3>1. inC # NoMessage /\ inC.pid \in Protocols
      BY <1>0, <2>2, TaskOver
    <3>2. ~ CompleteCFails /\ ~ CompleteReject
      BY <2>2, <3>1 DEF CompleteCFails, CompleteReject
    <3> QED BY <1>0, <2>2, <3>1, <3>2, OutcomesFinal DEF OutcomesOK
  <2>3. inC' = inC \/ inC' = NoMessage \/ ReceiveC
    <3>1. ASSUME NEW p \in Protocols, Takes(p) PROVE inC' = inC
      BY <3>1, TakesFrame
    <3>2. ASSUME NEW p \in Protocols, Propose(p) \/ StartProtocol(p) \/ UpdatePosition(p) \/ FinishTask(p)
          PROVE  inC' = inC
      BY <3>2 DEF Propose, StartProtocol, UpdatePosition, FinishTask
    <3>3. HandlerA => inC' = inC
      BY <1>0, HandlerAMail DEF MailFromA
    <3>4. (\E o \in Orders : GiveUp(o)) \/ Shows => inC' = inC
      BY DEF GiveUp, Shows, OrderPosted, SubmitRefused, OnTradeError, CheckOpenOrders, Tick
    <3>5. SkipC \/ RefuseC \/ CompleteC \/ CompleteCFails \/ CompleteReject => inC' = inC \/ inC' = NoMessage
      BY DEF SkipC, RefuseC, CompleteC, CompleteCFails, CompleteReject
    <3> QED BY <1>0, <3>1, <3>2, <3>3, <3>4, <3>5 DEF CalmNext, HandlerC
  <2> QED BY <1>0, <2>1, <2>2, <2>3
<1>5. \A o \in tradeErrors', q \in Protocols :
            task'[q].order # o /\ (offers'[q].order = o => protocols'[q] = "Failed")
  <2>1. ASSUME NEW p \in Protocols, Takes(p), NEW o \in tradeErrors', NEW q \in Protocols
        PROVE  task'[q].order # o /\ (offers'[q].order = o => protocols'[q] = "Failed")
    <3>1. TakesTask(p) /\ UNCHANGED <<offers, protocols>>
      BY <1>0, <2>1, TakesMoves, TakesFrame
    <3>2. o \in Orders
      BY <1>0
    <3>3. CASE o \in tradeErrors
      <4>1. orderC[o].state # "None"
        BY <3>3 DEF OwnersOK
      <4>2. task'[q].order = task[q].order \/ task'[q].order \notin tradeErrors
        BY <1>0, <3>1 DEF TakesTask, Posts, Goes, Rolls, Fails, OwnersOK
      <4> QED BY <3>1, <3>3, <4>1, <4>2 DEF OutcomesOK
    <3>4. CASE o \notin tradeErrors
      <4>1. Fails(p) /\ o = task[p].order
        BY <2>1, <3>1, <3>4 DEF TakesTask, Posts, Goes, Rolls, Fails
      <4>2. HasTask(o, p) /\ task'[p] = Idle /\ offers[p] = NoOffer
        BY <1>0, <4>1 DEF HasTask, Fails, IInv, TasksOK
      <4>3. q # p => ~ HasTask(o, q)
        BY <3>2, <4>2 DEF OwnersOK
      <4>4. NoOffer.order = NoOrder
        BY DEF NoOffer
      <4> QED BY <1>0, <3>1, <3>2, <4>2, <4>3, <4>4 DEF TakesTask, HasTask
    <3> QED BY <3>3, <3>4
  <2>2. ASSUME NEW p \in Protocols, Propose(p) \/ StartProtocol(p) \/ UpdatePosition(p) \/ FinishTask(p),
               NEW o \in tradeErrors', NEW q \in Protocols
        PROVE  task'[q].order # o /\ (offers'[q].order = o => protocols'[q] = "Failed")
    <3>1. o \in tradeErrors /\ o \in Orders
      BY <1>0, <2>2, ProtocolTask
    <3>2. task'[q].order = task[q].order \/ task'[q].order = NoOrder
      BY <1>0, <2>2, ProtocolTask
    <3>3. offers'[q].order = offers[q].order \/ offers'[q].order = task[q].order
      <4>1. Propose(p) => offers'[q] = offers[q] \/ offers'[q].order = task[q].order
        BY OfferMoves
      <4>2. ~ Propose(p) => offers' = offers
        BY <2>2 DEF StartProtocol, UpdatePosition, FinishTask
      <4> QED BY <4>1, <4>2
    <3>4. protocols[q] = "Failed" => protocols'[q] = "Failed"
      BY <1>0, OutcomesFinal
    <3> QED BY <1>0, <3>1, <3>2, <3>3, <3>4 DEF OutcomesOK
  <2>3. ASSUME Handles, NEW o \in tradeErrors', NEW q \in Protocols
        PROVE  task'[q].order # o /\ (offers'[q].order = o => protocols'[q] = "Failed")
    <3>1. UNCHANGED <<task, offers>> /\ o \in Orders
      BY <1>0, <2>3, HandlesMoves DEF HandlesFrame
    <3>2. CASE o \in tradeErrors
      BY <1>0, <3>1, <3>2, OutcomesFinal DEF OutcomesOK
    <3>3. CASE o \notin tradeErrors
      <4>1. CompleteCFails
        <5>1. HandlerA => tradeErrors' = tradeErrors
          BY <1>0, HandlerAMail DEF MailFromA
        <5>2. (\E u \in Orders : GiveUp(u)) \/ Shows => tradeErrors' \subseteq tradeErrors
          BY DEF GiveUp, Shows, OrderPosted, SubmitRefused, OnTradeError, CheckOpenOrders, Tick
        <5>3. SkipC \/ ReceiveC \/ CompleteC \/ CompleteReject => tradeErrors' = tradeErrors
          BY DEF SkipC, ReceiveC, CompleteC, CompleteReject, FailMessage
        <5>4. ~ RefuseC
          BY <1>0, OutcomeMoves
        <5> QED BY <2>3, <3>3, <5>1, <5>2, <5>3, <5>4 DEF Handles, HandlerC
      <4>2. inC # NoMessage /\ FailMessage(inC)
        BY <1>0, <4>1 DEF CompleteCFails, Finishing
      <4>3. o = offers[inC.pid].order
        BY <2>3, <3>3, <4>2 DEF FailMessage
      <4>4. /\ inC.pid \in Protocols /\ task[inC.pid] = Idle /\ protocols[inC.pid] # "None"
            /\ HasTask(o, inC.pid)
        BY <4>2, <4>3, TaskOver DEF HasTask
      <4>5. protocols'[inC.pid] = "Failed"
        BY <1>0, <4>2, <4>4 DEF FailMessage
      <4>6. HasTask(o, q) => q = inC.pid
        BY <3>1, <4>4 DEF OwnersOK
      <4> QED BY <1>0, <3>1, <4>4, <4>5, <4>6 DEF HasTask
    <3> QED BY <3>2, <3>3
  <2> QED BY <1>0, <2>1, <2>2, <2>3 DEF CalmNext, Handles
<1> QED BY <1>1, <1>3, <1>4, <1>5 DEF OutcomesOK

-----------------------------------------------------------------------------
(* An answered order has its execution price *)

\* The messages that a step can send or keep: those of protocols that have been answered
\* already, and the app's acceptance of the offer it handles.
LEMMA MailOrigin ==
    ASSUME Calm, CalmNext, NEW m \in Mail', Answered(m)
    PROVE  \/ \E n \in Mail : Answered(n) /\ n.pid = m.pid
           \/ HandlerA /\ AcceptsNow /\ m = lastOutA'
<1> USE DEF appVars, netVars, boundVars, coordinatorVars
<1>0. IInv /\ NoMessage.type = "None" /\ ~ Answered(NoMessage)
  BY Nothing DEF Calm, Answered
<1>1. ASSUME Mail' \subseteq Mail \union {NoMessage} PROVE \E n \in Mail : Answered(n) /\ n.pid = m.pid
  BY <1>0, <1>1
<1>2. ASSUME NEW p \in Protocols, Takes(p) \/ StartProtocol(p) \/ UpdatePosition(p)
      PROVE  Mail' = Mail
  BY <1>2, TakesFrame DEF StartProtocol, UpdatePosition, Mail, Underway
<1>3. ASSUME NEW p \in Protocols, Propose(p) PROVE m \in Mail
  <2>1. Mail' \subseteq Mail \union {lastOutC'}
    BY <1>3 DEF Propose, Mail, Underway
  <2>2. ~ Answered(lastOutC')
    BY <1>3 DEF Propose, Msg, OfferType, Answered, OfferTypes
  <2> QED BY <2>1, <2>2
<1>4. ASSUME NEW p \in Protocols, FinishTask(p) PROVE Mail' \subseteq Mail
  <2>1. On(netCA') \subseteq On(netCA) \union {lastOutC}
    BY <1>0, <1>4, SendLastCOn DEF FinishTask, ToApp
  <2> QED BY <1>4, <2>1 DEF FinishTask, Mail, Underway
<1>5. ASSUME (\E o \in Orders : GiveUp(o)) \/ Shows PROVE Mail' = Mail
  BY <1>5 DEF GiveUp, Shows, OrderPosted, SubmitRefused, OnTradeError, CheckOpenOrders, Tick, Mail, Underway
<1>6. ASSUME HandlerC PROVE \E n \in Mail : Answered(n) /\ n.pid = m.pid
  <2>1. MailFromC
    BY <1>0, <1>6, HandlerCMail
  <2>2. m \in Mail \union {NoMessage, lastOutC'}
    BY <2>1 DEF MailFromC, Mail, Underway
  <2>3. ASSUME NEW n \in On(netAC), Coordinator(n.type)[3] # "None",
               lastOutC' = Msg(Coordinator(n.type)[3], n.pid), m = lastOutC'
        PROVE  n \in Mail /\ Answered(n) /\ n.pid = m.pid
    <3>1. n.type \in AcceptTypes \union {"SettleFinalize", "RenewFinalize"}
      BY <2>3 DEF Coordinator, AcceptTypes
    <3> QED BY <2>3, <3>1 DEF Answered, AcceptTypes, OfferTypes, Mail, Underway, Msg
  <2> QED BY <1>0, <2>1, <2>2, <2>3 DEF MailFromC, Mail
<1>7. ASSUME HandlerA
      PROVE  \/ \E n \in Mail : Answered(n) /\ n.pid = m.pid
             \/ AcceptsNow /\ m = lastOutA'
  <2>1. MailFromA
    BY <1>0, <1>7, HandlerAMail
  <2>2. m \in Mail \union {NoMessage, lastOutA'}
    BY <2>1 DEF MailFromA, Mail, Underway
  <2>3. ASSUME NEW n \in On(netCA), App(n.type)[3] # "None", lastOutA' = Msg(App(n.type)[3], n.pid), m = lastOutA'
        PROVE  n \in Mail /\ Answered(n) /\ n.pid = m.pid
    <3>1. n.type \in {"SettleConfirm", "RenewConfirm"}
      BY <2>3 DEF App
    <3> QED BY <2>3, <3>1 DEF Answered, OfferTypes, Mail, Underway, Msg
  <2>4. lastOutA'.type = "Reject" => m # lastOutA'
    BY DEF Answered
  <2> QED BY <1>0, <2>1, <2>2, <2>3, <2>4 DEF MailFromA, Mail
<1> QED BY <1>1, <1>2, <1>3, <1>4, <1>5, <1>6, <1>7 DEF CalmNext

\* An execution price is never forgotten.
LEMMA PriceKept ==
    ASSUME Calm, CalmNext, NEW o \in Orders, HasPrice(o)
    PROVE  HasPrice(o)'
<1> USE DEF appVars, netVars, boundVars, coordinatorVars
<1>0. orderA \in [Orders -> AppOrderStates] /\ NoOrder \notin Orders
  BY OrdersAssumption DEF Calm, IInv, TypeOK
<1>1. ASSUME orderA' = orderA PROVE HasPrice(o)'
  BY <1>1 DEF HasPrice
<1>2. ASSUME NEW u, NEW new, orderA' = [orderA EXCEPT ![u] = new],
             u = o => new \in {"Filling", "Filled", "FailedWithPrice"}
      PROVE  HasPrice(o)'
  BY <1>0, <1>2 DEF HasPrice
<1>3. ASSUME orderA' \in get_order_in_filling PROVE HasPrice(o)'
  <2>1. PICK kept : orderA' = [u \in Orders |-> IF u \in FillingA \ {kept} THEN "FailedWithPrice" ELSE orderA[u]]
    BY <1>3 DEF get_order_in_filling
  <2> QED BY <2>1 DEF HasPrice
<1>4. ASSUME NEW u, order_failed(u) PROVE HasPrice(o)'
  <2>1. u = o => set_order_state_to_failed(u) = "FailedWithPrice"
    BY DEF set_order_state_to_failed
  <2> QED BY <1>2, <1>3, <1>4, <2>1 DEF order_failed
<1>5. ASSUME NEW u, order_filled(u) PROVE HasPrice(o)'
  <2>1. orderA' = orderA \/ orderA' = [orderA EXCEPT ![u] = "Filled"]
    BY <1>5 DEF order_filled
  <2> QED BY <1>1, <1>2, <2>1
<1>6. ASSUME NEW p \in Protocols, Takes(p) PROVE HasPrice(o)'
  <2>1. ASSUME NEW u \in TraderOrders, NEW c \in BOOLEAN, SubmitOrder(u, p, c) PROVE HasPrice(o)'
    <3>1. orderA' = [orderA EXCEPT ![u] = "Open"] /\ u # o
      BY <2>1 DEF SubmitOrder, CanSubmit, HasPrice
    <3> QED BY <1>2, <3>1
  <2>2. ASSUME NEW u \in CoordinatorOrders, CloseByCoordinator(u, p) PROVE orderA' = orderA
    BY <2>2 DEF CloseByCoordinator
  <2>3. CheckOrder(p) \/ MatchOrder(p) \/ NoMatch(p) \/ BeginTrade(p) \/ BeginRollover(p) => orderA' = orderA
    BY DEF CheckOrder, MatchOrder, NoMatch, BeginTrade, BeginRollover
  <2>4. BeginTradeFails(p) \/ ProposeFails(p) \/ ProposeRolloverFails(p) => orderA' = orderA
    BY DEF BeginTradeFails, ProposeFails, ProposeRolloverFails, FailTrade
  <2> QED BY <1>1, <1>6, <2>1, <2>2, <2>3, <2>4 DEF Takes, NewOrder
<1>7. ASSUME NEW p \in Protocols, Propose(p) \/ StartProtocol(p) \/ UpdatePosition(p) \/ FinishTask(p)
      PROVE  HasPrice(o)'
  BY <1>1, <1>7 DEF Propose, StartProtocol, UpdatePosition, FinishTask
<1>8. ASSUME (\E u \in Orders : GiveUp(u)) \/ HandlerC PROVE HasPrice(o)'
  <2>1. HandlerC => orderA' = orderA
    BY HandlerCMail DEF MailFromC, Calm
  <2> QED BY <1>1, <1>8, <2>1 DEF GiveUp
<1>9. ASSUME Shows PROVE HasPrice(o)'
  <2>1. CASE Tick \/ \E u \in TraderOrders : OrderPosted(u)
    BY <1>1, <2>1 DEF Tick, OrderPosted
  <2>2. CASE SubmitRefused
    BY <1>3, <2>2 DEF SubmitRefused
  <2>3. CASE \E u \in Orders : OnTradeError(u) \/ CheckOpenOrders(u)
    BY <1>1, <1>4, <2>3 DEF OnTradeError, CheckOpenOrders
  <2> QED BY <1>9, <2>1, <2>2, <2>3 DEF Shows
<1>10. ASSUME HandlerA PROVE HasPrice(o)'
  <2>1. CASE SkipA \/ ReceiveA \/ RefuseA \/ AcceptUnanswered \/ CompleteRolloverA \/ CompleteRenewConfirmA
    <3>1. orderA' = orderA
      BY <2>1 DEF SkipA, ReceiveA, RefuseA, AcceptUnanswered, CompleteRolloverA, CompleteRenewConfirmA
    <3> QED BY <1>1, <3>1
  <2>2. CASE ForceRejectOffer
    BY <1>4, <2>2 DEF ForceRejectOffer
  <2>3. CASE CompleteOpenA \/ CompleteSettleA
    BY <1>5, <2>3 DEF CompleteOpenA, CompleteSettleA
  <2>4. CASE AcceptOffer
    BY <1>1, <1>2, <2>4 DEF AcceptOffer
  <2>5. CASE StaleOffer
    BY <1>1, <1>2, <2>5 DEF StaleOffer
  <2>6. CASE RejectOffer
    <3>1. orderA' = orderA \/ orderA' = [orderA EXCEPT ![OrderOf(inA.pid)] = "FailedWithPrice"]
            \/ orderA' = [orderA EXCEPT ![OrderOf(inA.pid)] = set_order_state_to_failed(OrderOf(inA.pid))]
      BY <2>6 DEF RejectOffer
    <3>2. OrderOf(inA.pid) = o => set_order_state_to_failed(OrderOf(inA.pid)) = "FailedWithPrice"
      BY DEF set_order_state_to_failed
    <3> QED BY <1>1, <1>2, <3>1, <3>2
  <2> QED BY <1>10, <2>1, <2>2, <2>3, <2>4, <2>5, <2>6 DEF HandlerA
<1> QED BY <1>6, <1>7, <1>8, <1>9, <1>10 DEF CalmNext

\* Every message of the protocol that is in the mail belongs to its offer.
LEMMA MailBelongs ==
    ASSUME Calm, NEW m \in Mail, m.type # "None"
    PROVE  /\ Belongs(offers, m) /\ m.pid \in Protocols /\ offers[m.pid].kind \in Kinds
           /\ offers[m.pid].kind # "Rollover" => offers[m.pid].order \in Orders
<1>1. Belongs(offers, m)
  BY Nothing DEF Mail, Underway, Calm, IInv, MessagesOK, Slot, Wire, On
<1>2. m.pid \in Protocols /\ offers[m.pid].kind \in Kinds
  BY <1>1, Typed, KindsOfMessages DEF Calm
<1> QED BY <1>1, <1>2 DEF Calm, IInv, OffersOK, Kinds, OpenKinds

\* An offer is not made twice.
LEMMA MadeKept ==
    ASSUME Calm, CalmNext, NEW p \in Protocols, offers[p] # NoOffer
    PROVE  offers'[p] = offers[p]
<1>1. ASSUME NEW q \in Protocols, Takes(q) PROVE offers' = offers
  BY <1>1, TakesFrame
<1>2. ASSUME NEW q \in Protocols, Propose(q) PROVE offers'[p] = offers[p]
  BY <1>2, OfferMoves
<1>3. ASSUME NEW q \in Protocols, StartProtocol(q) \/ UpdatePosition(q) \/ FinishTask(q)
      PROVE  offers' = offers
  BY <1>3 DEF StartProtocol, UpdatePosition, FinishTask
<1>4. Handles => offers' = offers
  BY HandlesMoves DEF HandlesFrame, Calm
<1> QED BY <1>1, <1>2, <1>3, <1>4 DEF CalmNext, Handles

\* The states of an order that has an execution price
Priced == {"Filling", "Filled", "FailedWithPrice"}

\* An order whose offer was answered has its price.
LEMMA PriceNext ==
    ASSUME Calm, Calm', CalmOK, PriceOK, Next
    PROVE  PriceOK'
<1>0. CalmNext /\ orderA \in [Orders -> AppOrderStates]
  BY CalmMoves DEF Calm, IInv, TypeOK
<1>1. SUFFICES ASSUME NEW m \in Mail', Answered(m), offers'[m.pid].kind # "Rollover"
               PROVE  orderA'[offers'[m.pid].order] \in Priced
  BY DEF PriceOK, HasPrice, Priced
<1>2. ASSUME NEW n \in Mail, Answered(n), n.pid = m.pid PROVE orderA'[offers'[m.pid].order] \in Priced
  <2>1. n.type # "None"
    BY <1>2 DEF Answered
  <2>2. n.pid \in Protocols /\ offers[n.pid].kind \in Kinds
    BY <2>1, MailBelongs
  <2>3. offers'[n.pid] = offers[n.pid]
    BY <1>0, <2>2, MadeKept DEF NoOffer, Kinds, OpenKinds
  <2>4. offers[n.pid].order \in Orders /\ HasPrice(offers[n.pid].order)
    BY <1>1, <1>2, <2>1, <2>3, MailBelongs DEF PriceOK
  <2> QED BY <1>0, <1>2, <2>3, <2>4, PriceKept DEF HasPrice, Priced
<1>3. ASSUME HandlerA, AcceptsNow, m = lastOutA' PROVE orderA'[offers'[m.pid].order] \in Priced
  <2>1. offers' = offers /\ m.pid = inA.pid /\ inA.type # "None"
    BY <1>3, HandlerAMail DEF MailFromA, Calm, coordinatorVars, AcceptsNow, Msg, OfferTypes
  <2>2. offers[m.pid].order \in Orders
    BY <1>1, <2>1, MailBelongs DEF Mail, Underway
  <2>3. orderA' = [orderA EXCEPT ![offers[m.pid].order] = "Filling"]
    BY <1>1, <1>3, <2>1 DEF AcceptsNow, IsRollover, OrderOf
  <2> QED BY <1>0, <2>1, <2>2, <2>3 DEF Priced
<1> QED BY <1>0, <1>1, <1>2, <1>3, MailOrigin

-----------------------------------------------------------------------------
(* The offers and the contract in force *)

\* Orderly trading, with everything said so far about tasks, messages and outcomes.
InTurn == Calm /\ CalmOK /\ OwnersOK /\ DirectionsOK /\ OutboxOK /\ HalfwayOK /\ TurnsOK /\ OutcomesOK

\* What an order closes is fixed when it is posted.
LEMMA ClosesKept ==
    ASSUME Calm, CalmNext, NEW o \in Orders, orderC[o].state # "None"
    PROVE  orderC'[o].closes = orderC[o].closes
<1> USE DEF appVars, netVars, boundVars, coordinatorVars
<1>0. orderC \in [Orders -> OrderRows] /\ IInv
  BY DEF Calm, IInv, TypeOK
<1>1. ASSUME NEW p \in Protocols, Takes(p) PROVE orderC'[o].closes = orderC[o].closes
  BY <1>0, <1>1, TakesMoves DEF TakesTask
<1>2. ASSUME NEW p \in Protocols, Propose(p) \/ StartProtocol(p) \/ UpdatePosition(p) PROVE orderC' = orderC
  BY <1>2 DEF Propose, StartProtocol, UpdatePosition
<1>3. ASSUME NEW p \in Protocols, FinishTask(p) PROVE orderC'[o].closes = orderC[o].closes
  <2>1. \/ orderC' = orderC
        \/ orderC' = [orderC EXCEPT ![task[p].order] = [orderC[task[p].order] EXCEPT !.state = "Taken"]]
    BY <1>3 DEF FinishTask
  <2> QED BY <1>0, <2>1 DEF OrderRows
<1>4. Handles => orderC'[o].closes = orderC[o].closes
  BY <1>0, HandlesMoves DEF HandlesFrame
<1> QED BY <1>1, <1>2, <1>3, <1>4 DEF CalmNext, Handles

\* Until a task makes its offer there is none under its identifier.
LEMMA TakesFresh ==
    ASSUME Calm, NEW p \in Protocols, Takes(p)
    PROVE  offers[p] = NoOffer
<1>1. TakesTask(p) /\ TasksOK
  BY TakesMoves DEF Calm, IInv
<1> QED BY <1>1 DEF TakesTask, Posts, Goes, Rolls, Fails, TasksOK

\* What an answer that arrives does to the coordinator's channel.
Receives(m) ==
    /\ m \in On(netAC) /\ inC' = m /\ inC = NoMessage /\ m # NoMessage
    /\ Unsent = {} /\ ~ Silent /\ chanC.state \in Awaiting /\ Waits(chanC, m)
    /\ m.pid \in Protocols /\ Belongs(offers, m) /\ m.type \in FromApp
    /\ chanC.ref = m.pid /\ chanC'.ref = m.pid
    /\ m.type = "Reject" => chanC'.state = chanC.back
    /\ m.type \in {"Accept", "RenewFinalize"} => chanC'.state = "Established" /\ chanC'.contract = m.pid
    /\ m.type \notin {"Accept", "RenewFinalize", "SettleFinalize"} => chanC'.contract = chanC.contract
    /\ m.type = "SettleAccept" => chanC'.state = "SettledConfirmed"
    /\ m.type = "RenewAccept" => chanC'.state = "RenewConfirmed"
    /\ m.type = "SettleFinalize" => chanC'.state = "Settled"
    /\ UNCHANGED <<orderC, task, offers, protocols, positions>>

\* The coordinator receives what it waits for.
LEMMA ReceiveMoves ==
    ASSUME InTurn, ReceiveC
    PROVE  \E m \in On(netAC) : Receives(m)
<1> DEFINE m == Head(netAC)
<1>0. /\ Calm /\ DirectionsOK /\ TurnsOK /\ netAC \in Seq(Messages) /\ chanC \in Channels
  BY Typed DEF InTurn, Calm
<1>1. m \in On(netAC) /\ m \in Messages /\ inC = NoMessage
  BY <1>0, QueueHead DEF ReceiveC
<1>2. Waits(chanC, m) /\ chanC.state \in Awaiting
  BY <1>0, <1>1, WaitsAcceptable
<1>3. Asks(m) /\ Belongs(offers, m) /\ m # NoMessage /\ m \in Underway
  BY <1>0, <1>1, AskingTypes DEF Underway
<1>4. m.pid \in Protocols /\ m.type \in FromApp /\ ~ Silent /\ Unsent = {} /\ chanC.ref = m.pid
  BY <1>0, <1>1, <1>2, <1>3 DEF Messages, DirectionsOK, Silent, TurnsOK, Waits
<1>5. /\ inC' = m /\ UNCHANGED <<orderC, task, offers, protocols, positions>>
      /\ chanC' = IF m.type = "Reject" THEN RollBack(chanC) ELSE Advance(chanC, m, Coordinator(m.type))
  BY DEF ReceiveC
<1> HIDE DEF m
<1>6. m.type = "Reject" => chanC'.state = chanC.back /\ chanC'.ref = chanC.ref /\ chanC'.contract = chanC.contract
  BY <1>0, <1>5 DEF RollBack, Channels
<1>7. m.type # "Reject" => /\ chanC'.ref = chanC.ref /\ chanC'.state = Coordinator(m.type)[2]
                           /\ Coordinator(m.type)[2] = "Established" => chanC'.contract = m.pid
                           /\ Coordinator(m.type)[2] \notin {"Established", "Settled"} =>
                                    chanC'.contract = chanC.contract
  BY <1>0, <1>5 DEF Advance, Channels
<1>8. /\ m.type \in {"Accept", "RenewFinalize"} => Coordinator(m.type)[2] = "Established"
      /\ m.type = "SettleAccept" => Coordinator(m.type)[2] = "SettledConfirmed"
      /\ m.type = "RenewAccept" => Coordinator(m.type)[2] = "RenewConfirmed"
      /\ m.type = "SettleFinalize" => Coordinator(m.type)[2] = "Settled"
  BY DEF Coordinator
<1>9. Receives(m)
  BY <1>1, <1>2, <1>3, <1>4, <1>5, <1>6, <1>7, <1>8 DEF Receives, FromApp, AcceptTypes
<1> QED BY <1>1, <1>9

\* The row of an open position has the size of the contract.
LEMMA OpenRowSize ==
    ASSUME Calm, OutboxOK, ProposalsOK, RowsOK, inC = NoMessage, NEW i \in Positions,
           positions[i].state \in {"Open", "Rollover"}
    PROVE  positions[i].size = SizeInForce /\ chanC.contract # NoProtocol
<1>1. i \in RowsIn(Live) /\ i \in RowsIn({"Open", "Rollover"})
  BY DEF RowsIn, Live
<1>2. ~ NoRows /\ ~ Frozen
  BY <1>1 DEF NoRows, Frozen
<1>3. ASSUME NEW S, NEW p, Rows(S, p) PROVE positions[i].state \in S /\ positions[i].size = offers[p].size
  BY <1>1, <1>3 DEF Rows
<1>4. CASE chanC.state = "Established"
  <2>1. Rows({"Open", "Closing"}, chanC.contract)
    BY <1>2, <1>4 DEF RowsOK
  <2> QED BY <1>3, <1>4, <2>1, ProtocolsAssumption DEF SizeInForce, Calm, CInv, ChannelsOK, Sound
<1>5. CASE chanC.state \in Awaiting
  <2> DEFINE k == offers[chanC.ref].kind
  <2>1. OfferRows(k)
    BY <1>5 DEF RowsOK
  <2>2. k \in Kinds
    <3>1. chanC.ref \in Protocols /\ offers[chanC.ref] # NoOffer
      BY <1>5, ProtocolsAssumption DEF Calm, CInv, ChannelsOK, Sound, Made
    <3>2. k # "None"
      BY <3>1 DEF ProposalsOK
    <3> QED BY <3>1, <3>2, Typed DEF Calm, Offers
  <2>3. CASE k \notin OpenKinds /\ Early(chanC.ref)
    <3>1. Rows({"Open", "Closing"}, chanC.contract)
      BY <2>1, <2>3 DEF OfferRows
    <3>2. chanC.ref \in Protocols
      BY <1>5 DEF Calm, CInv, ChannelsOK, Sound
    <3>3. chanC.state = OfferedState(k)
      BY <2>3, <3>2 DEF Early, OutboxOK, Unsent
    <3>4. chanC.contract # NoProtocol
      BY <2>2, <2>3, <3>3, ProtocolsAssumption
         DEF ProposalsOK, OfferedOK, OfferedState, OpenKinds, Calm, CInv, ChannelsOK, Sound
    <3> QED BY <1>3, <3>1, <3>4 DEF SizeInForce
  <2>4. CASE k = "Rollover" /\ ~ Early(chanC.ref)
    <3>1. Rows({"Rollover"}, chanC.ref)
      BY <1>3, <2>1, <2>4 DEF OfferRows
    <3>2. chanC.state \in {"RenewOffered", "RenewConfirmed"}
      BY <1>5, <2>4 DEF ProposalsOK, OfferedOK, OfferedState, Awaiting
    <3>3. offers[chanC.ref].size = SizeInForce /\ chanC.contract # NoProtocol
      BY <2>4, <3>2 DEF ProposalsOK, OfferedOK
    <3> QED BY <1>3, <3>1, <3>3
  <2>5. CASE k \in OpenKinds
    BY <1>2, <1>3, <2>1, <2>5 DEF OfferRows
  <2>6. CASE k \in {"Settle", "ResizePosition"} /\ ~ Early(chanC.ref)
    BY <1>3, <2>1, <2>6 DEF OfferRows
  <2> QED BY <2>2, <2>3, <2>4, <2>5, <2>6 DEF Kinds
<1>6. chanC.state \notin {"None", "Cancelled", "Settled"}
  BY <1>2 DEF RowsOK
<1> QED BY <1>4, <1>5, <1>6 DEF ProposalsOK

\* The order of a protocol was posted.
LEMMA OrderPostedOf ==
    ASSUME Calm, OwnersOK, NEW p \in Protocols, NEW o \in Orders,
           task[p].order = o \/ offers[p].order = o
    PROVE  orderC[o].state # "None"
BY DEF OwnersOK, HasTask

\* While a task proposes, the contract in force stays.
LEMMA ForceKept ==
    ASSUME InTurn, Calm', CalmNext, Proposing' # {}
    PROVE  /\ chanC'.contract = chanC.contract
           /\ chanC.contract # NoProtocol => SizeInForce' = SizeInForce
<1>1. ~ ReceiveC
  <2>1. ReceiveC => inC' # NoMessage
    BY ReceiveMoves DEF Receives
  <2> QED BY <2>1, TakeTurns DEF Calm, Orderly
<1>2. chanC'.contract = chanC.contract
  BY <1>1, CoordinatorChannel, OfferMoves DEF InTurn
<1>3. chanC.contract \in Protocols => offers'[chanC.contract] = offers[chanC.contract]
  BY MadeKept, ProtocolsAssumption DEF InTurn, Calm, CInv, ChannelsOK, Made
<1>4. chanC.contract \notin Protocols => chanC.contract = NoProtocol
  BY Typed DEF InTurn, Calm, Channels
<1> QED BY <1>2, <1>3, <1>4 DEF SizeInForce

\* A task that proposes knows the contract in force.
LEMMA ProposalsKept ==
    ASSUME InTurn, Calm', CalmNext, ProposalsOK, RowsOK, NEW p \in Protocols, task'[p].pc = "propose"
    PROVE  Proposal(p)'
<1>0. /\ task \in [Protocols -> Tasks] /\ IInv /\ CInv /\ TasksOK /\ p \in Proposing' /\ Calm /\ OwnersOK
      /\ OutboxOK /\ NoOrder \notin Orders
  BY OrdersAssumption DEF InTurn, Calm, IInv, TypeOK, Proposing
<1>1. /\ chanC'.contract = chanC.contract
      /\ chanC.contract # NoProtocol => SizeInForce' = SizeInForce
  BY <1>0, ForceKept
<1>2. CASE task'[p] = task[p]
  <2>1. Proposal(p) /\ task[p].pc = "propose" /\ task[p] \in Tasks
    BY <1>0, <1>2 DEF ProposalsOK
  <2>2. task[p].kind = "ResizePosition" => orderC'[task[p].order].closes = orderC[task[p].order].closes
    <3>1. task[p].kind = "ResizePosition" => task[p].order \in Orders
      BY <1>0, <2>1 DEF TasksOK, Tasks
    <3> QED BY <1>0, <3>1, OrderPostedOf, ClosesKept
  <2> QED BY <1>1, <1>2, <2>1, <2>2 DEF Proposal
<1>3. CASE task'[p] # task[p]
  <2>1. BeginTrade(p) \/ BeginRollover(p)
    <3>1. ASSUME NEW q \in Protocols, Takes(q) PROVE q = p /\ (BeginTrade(p) \/ BeginRollover(p))
      <4>1. q = p
        BY <1>0, <1>3, <3>1, TakesMoves DEF TakesTask
      <4>2. NewOrder(p) => task'[p].pc = "check"
        <5>1. NewOrder(p) =>
                \E o \in Orders : task' = [task EXCEPT ![p] = [Idle EXCEPT !.pc = "check", !.order = o]]
          BY DEF NewOrder, SubmitOrder, CloseByCoordinator, PostOrder, Orders
        <5> QED BY <1>0, <5>1 DEF Idle
      <4>3. CheckOrder(p) \/ MatchOrder(p) \/ NoMatch(p) => task'[p].pc \in {"idle", "match", "matched"}
        BY <1>0 DEF CheckOrder, MatchOrder, NoMatch, Idle, Tasks
      <4>4. BeginTradeFails(p) \/ ProposeFails(p) \/ ProposeRolloverFails(p) => task'[p].pc = "idle"
        BY <1>0 DEF BeginTradeFails, ProposeFails, ProposeRolloverFails, FailTrade, Idle
      <4> QED BY <3>1, <4>1, <4>2, <4>3, <4>4 DEF Takes
    <3>2. ASSUME NEW q \in Protocols, Propose(q) \/ StartProtocol(q) \/ UpdatePosition(q) \/ FinishTask(q)
          PROVE  FALSE
      <4>1. q = p
        BY <1>0, <1>3, <3>2, ProtocolTask
      <4> QED BY <1>0, <3>2, <4>1, ProtocolTask DEF Idle
    <3>3. ~ Handles
      BY <1>0, <1>3, HandlesMoves DEF HandlesFrame
    <3> QED BY <3>1, <3>2, <3>3 DEF CalmNext, Handles
  <2>2. inC = NoMessage /\ UNCHANGED <<chanC, offers, orderC, positions>>
    <3>1. inC' = NoMessage
      BY <1>0 DEF Calm, Orderly
    <3> QED BY <2>1, <3>1 DEF BeginTrade, BeginRollover
  <2>3. CASE BeginRollover(p)
    <3>1. PICK i \in Positions :
             /\ positions[i].state \in {"Open", "Rollover"}
             /\ task'[p].kind = "Rollover" /\ task'[p].size = positions[i].size
      BY <1>0, <2>3 DEF BeginRollover, RowsIn
    <3>2. positions[i].size = SizeInForce /\ chanC.contract # NoProtocol
      BY <1>0, <2>2, <3>1, OpenRowSize
    <3> QED BY <1>1, <3>1, <3>2 DEF Proposal
  <2>4. CASE BeginTrade(p)
    <3>1. PICK kind \in determine_trade_action(task[p].order) :
            task' = [task EXCEPT ![p] = [task[p] EXCEPT !.pc = "propose", !.kind = kind, !.size = p]]
      BY <2>4 DEF BeginTrade
    <3>2. task'[p].kind = kind /\ task'[p].size = p /\ task'[p].order = task[p].order
      BY <1>0, <3>1 DEF Tasks
    <3>3. kind # "Rollover"
      BY <3>1 DEF determine_trade_action
    <3>4. kind = "OpenPosition" => chanC.contract = NoProtocol
      <4>1. kind = "OpenPosition" => chanC.state = "Settled"
        BY <3>1 DEF determine_trade_action
      <4> QED BY <1>0, <4>1 DEF CInv, ChannelsOK, Sound
    <3>5. kind = "ResizePosition" => chanC.contract # NoProtocol /\ orderC[task[p].order].closes # SizeInForce
      <4>1. kind = "ResizePosition" =>
                \E i \in RowsIn({"Open"}) : positions[i].size # orderC[task[p].order].closes
        BY <3>1 DEF determine_trade_action
      <4> QED BY <1>0, <2>2, <4>1, OpenRowSize DEF RowsIn
    <3> QED BY <1>1, <2>2, <3>2, <3>3, <3>4, <3>5 DEF Proposal
  <2> QED BY <2>1, <2>3, <2>4
<1> QED BY <1>2, <1>3

\* The offer of the channel, after a step.
LEMMA OfferedNext ==
    ASSUME InTurn, Calm', CalmNext, ProposalsOK
    PROVE  /\ chanC'.state \in {"None", "Cancelled", "Established", "Settled"} \union Awaiting
           /\ OfferedOK'
<1>0. /\ Calm /\ IInv /\ CInv /\ OwnersOK /\ chanC \in Channels /\ NoOrder \notin Orders
      /\ offers \in [Protocols -> Offers] /\ Sound(chanC) /\ Made(chanC) /\ OfferedOK
      /\ NoProtocol \notin Protocols
  BY OrdersAssumption, ProtocolsAssumption, Typed DEF InTurn, Calm, CInv, ChannelsOK, ProposalsOK
<1>1. /\ chanC.contract # NoProtocol => chanC.contract \in Protocols
      /\ chanC.contract # NoProtocol => offers'[chanC.contract] = offers[chanC.contract]
      /\ chanC.state \in Awaiting => chanC.ref \in Protocols /\ offers'[chanC.ref] = offers[chanC.ref]
  BY <1>0, MadeKept DEF Made, Channels, Sound
<1>2. CASE chanC' = chanC
  <2>1. SUFFICES ASSUME chanC.state \in Awaiting PROVE OfferedOK'
    BY <1>0, <1>2 DEF OfferedOK, Awaiting, ProposalsOK
  <2>2. offers'[chanC.ref] = offers[chanC.ref] /\ chanC.ref \in Protocols
    BY <1>1, <2>1
  <2>3. offers[chanC.ref].kind = "ResizePosition" =>
            orderC'[offers[chanC.ref].order].closes = orderC[offers[chanC.ref].order].closes
    <3>1. offers[chanC.ref].kind = "ResizePosition" => offers[chanC.ref].order \in Orders
      BY <1>0, <2>2 DEF IInv, OffersOK
    <3> QED BY <1>0, <2>2, <3>1, OrderPostedOf, ClosesKept
  <2> QED BY <1>0, <1>1, <1>2, <2>2, <2>3 DEF OfferedOK, SizeInForce
<1>3. ASSUME NEW p \in Protocols, Propose(p)
      PROVE  /\ chanC'.state \in {"None", "Cancelled", "Established", "Settled"} \union Awaiting
             /\ OfferedOK'
  <2>1. /\ chanC'.ref = p /\ chanC'.state = OfferedState(task[p].kind)
        /\ chanC'.contract = chanC.contract
        /\ task[p].kind \in {"Settle", "Rollover"} => chanC.state = "Established"
        /\ task[p].pc = "propose" /\ task[p].kind \in Kinds
        /\ offers'[p].kind = task[p].kind /\ offers'[p].order = task[p].order
        /\ offers'[p].size = task[p].size
    BY <1>0, <1>3, OfferMoves
  <2>2. Proposal(p) /\ orderC' = orderC
    BY <1>3, <2>1 DEF ProposalsOK, Propose
  <2>3. chanC'.state \in Awaiting
    BY <2>1 DEF OfferedState, Awaiting
  <2>4. chanC.contract # NoProtocol => SizeInForce' = SizeInForce
    BY <1>1, <2>1 DEF SizeInForce
  <2>5. chanC'.state \in {"RenewOffered", "RenewConfirmed"} => task[p].kind \in RenewKinds
    BY <2>1 DEF OfferedState, Kinds, OpenKinds, RenewKinds
  <2>6. task[p].kind = "Rollover" => chanC.contract # NoProtocol
    BY <2>2 DEF Proposal
  <2>7. chanC'.state \notin {"SettledConfirmed", "RenewConfirmed"}
    BY <2>1 DEF OfferedState
  <2> QED BY <2>1, <2>2, <2>3, <2>4, <2>5, <2>6, <2>7 DEF OfferedOK, Proposal, RenewKinds
<1>4. CASE ReceiveC
  <2>1. PICK m \in On(netAC) : Receives(m)
    BY <1>4, ReceiveMoves
  <2>2. /\ chanC.ref = m.pid /\ chanC'.ref = m.pid /\ Waits(chanC, m) /\ Belongs(offers, m)
        /\ chanC.state \in Awaiting /\ UNCHANGED <<orderC, offers>>
    BY <2>1 DEF Receives
  <2>3. CASE m.type = "Reject"
    <3>1. chanC'.state = chanC.back /\ offers[m.pid].kind \in Kinds
      BY <1>0, <2>1, <2>2, <2>3, KindsOfMessages DEF Receives
    <3>2. chanC.state = OfferedState(offers[m.pid].kind)
      BY <2>2, <2>3 DEF Waits
    <3>3. chanC.state \in {"Offered", "SettledOffered", "RenewOffered"}
      BY <3>2 DEF OfferedState
    <3>4. chanC.back \in {"Cancelled", "Established", "Settled"}
      BY <1>0, <3>3 DEF Sound
    <3> QED BY <3>1, <3>4 DEF OfferedOK
  <2>4. CASE m.type \in Finishing
    <3>1. chanC'.state \in {"Established", "Settled"}
      BY <2>1, <2>4 DEF Receives, Finishing
    <3> QED BY <3>1 DEF OfferedOK
  <2>5. CASE m.type = "SettleAccept"
    <3>1. /\ chanC'.state = "SettledConfirmed" /\ offers[m.pid].kind = "Settle"
          /\ chanC'.contract = chanC.contract
      BY <2>1, <2>2, <2>5 DEF Receives, Belongs, TypesOf, RenewKinds
    <3>2. chanC.contract \in Protocols
      BY <1>0, <2>2, <2>5 DEF Waits, Sound
    <3> QED BY <1>0, <2>2, <3>1, <3>2 DEF OfferedOK, Awaiting
  <2>6. CASE m.type = "RenewAccept"
    <3>1. /\ chanC'.state = "RenewConfirmed" /\ offers[m.pid].kind \in RenewKinds
          /\ chanC'.contract = chanC.contract
      BY <2>1, <2>2, <2>6 DEF Receives, Belongs, TypesOf, RenewKinds
    <3>2. chanC.state = "RenewOffered"
      BY <2>2, <2>6 DEF Waits
    <3> QED BY <1>0, <2>2, <3>1, <3>2 DEF OfferedOK, Awaiting, SizeInForce
  <2> QED BY <2>1, <2>3, <2>4, <2>5, <2>6 DEF Receives, FromApp, AcceptTypes, Finishing
<1> QED BY <1>0, <1>2, <1>3, <1>4, CoordinatorChannel DEF ProposalsOK

\* Proposals and offers know the contract in force.
LEMMA ProposalsNext ==
    ASSUME InTurn, Calm', CalmNext, ProposalsOK, RowsOK
    PROVE  ProposalsOK'
<1>1. \A p \in Protocols : task'[p].pc = "propose" => Proposal(p)'
  BY ProposalsKept
<1>2. ASSUME NEW p \in Protocols, offers'[p] # NoOffer
      PROVE  offers'[p].kind # "None" /\ (offers'[p].kind # "Rollover" => offers'[p].size = p)
  <2>1. CASE offers[p] # NoOffer
    BY <2>1, MadeKept DEF InTurn, ProposalsOK
  <2>2. CASE offers[p] = NoOffer
    <3>1. Propose(p)
      <4>1. ASSUME NEW q \in Protocols, Propose(q) PROVE q = p
        BY <1>2, <2>2, <4>1, OfferMoves DEF InTurn
      <4>2. ASSUME NEW q \in Protocols, Takes(q) \/ StartProtocol(q) \/ UpdatePosition(q) \/ FinishTask(q)
            PROVE  offers' = offers
        BY <4>2, TakesFrame DEF StartProtocol, UpdatePosition, FinishTask
      <4>3. Handles => offers' = offers
        BY HandlesMoves DEF HandlesFrame, InTurn, Calm
      <4> QED BY <1>2, <2>2, <4>1, <4>2, <4>3 DEF CalmNext, Handles
    <3>2. /\ task[p].pc = "propose" /\ task[p].kind \in Kinds
          /\ offers'[p].kind = task[p].kind /\ offers'[p].size = task[p].size
      BY <3>1, OfferMoves DEF InTurn
    <3> QED BY <3>2 DEF ProposalsOK, Proposal, Kinds, OpenKinds
  <2> QED BY <2>1, <2>2
<1> QED BY <1>1, <1>2, OfferedNext DEF ProposalsOK

-----------------------------------------------------------------------------
(* The rows of the positions table *)

\* A protocol that has not failed had not failed before.
LEMMA NeverFailedBefore ==
    ASSUME InTurn, CalmNext, NEW k \in Kinds, NeverFailed(k)'
    PROVE  NeverFailed(k)
<1>1. SUFFICES ASSUME NEW p \in Protocols, offers[p].kind = k, protocols[p] = "Failed" PROVE FALSE
  BY DEF NeverFailed
<1>2. offers[p] # NoOffer
  BY <1>1 DEF NoOffer, Kinds, OpenKinds
<1>3. offers'[p] = offers[p] /\ protocols'[p] = "Failed"
  BY <1>1, <1>2, MadeKept, OutcomesFinal DEF InTurn
<1> QED BY <1>1, <1>3 DEF NeverFailed

\* A row that stays the only live one.
LEMMA RowMoves ==
    ASSUME NEW i \in Positions, RowsIn(Live) = {i},
           \A j \in Positions : j # i => positions'[j] = positions[j] \/ positions'[j].state = positions[j].state
    PROVE  /\ positions'[i].state \in Live => RowsIn(Live)' = {i}
           /\ positions'[i].state \notin Live => RowsIn(Live)' = {}
BY DEF RowsIn

\* The row of an offer after its state has changed.
LEMMA RowBecomes ==
    ASSUME InTurn, CalmNext, NEW p \in Protocols, offers[p] # NoOffer, NEW S, NEW T \in SUBSET Live, Rows(S, p),
           \A i \in Positions :
                /\ positions[i].state \in S => /\ positions'[i].state \in T /\ positions'[i].size = positions[i].size
                                               /\ positions'[i].expiry = positions[i].expiry
                /\ positions[i].state \notin Live => positions'[i] = positions[i]
    PROVE  Rows(T, p)'
<1>1. PICK i \in Positions : /\ RowsIn(Live) = {i} /\ positions[i].state \in S
                             /\ positions[i].size = offers[p].size
                             /\ NeverFailed("Rollover") => positions[i].expiry = offers[p].expiry
  BY DEF Rows
<1>2. RowsIn(Live)' = {i}
  BY <1>1, RowMoves DEF RowsIn
<1>3. NeverFailed("Rollover")' => NeverFailed("Rollover")
  BY NeverFailedBefore DEF Kinds
<1>4. offers'[p] = offers[p]
  BY MadeKept DEF InTurn
<1> QED BY <1>1, <1>2, <1>3, <1>4 DEF Rows

\* The row of an offer while the table stays as it is.
LEMMA RowsStay ==
    ASSUME InTurn, CalmNext, NEW p \in Protocols, offers[p] # NoOffer, NEW S \in SUBSET Live, Rows(S, p),
           positions' = positions
    PROVE  Rows(S, p)'
BY RowBecomes

\* The offer that the coordinator's channel waits for, and the contract.
LEMMA ChannelOffers ==
    ASSUME InTurn, ProposalsOK
    PROVE  /\ chanC.state \in Awaiting => chanC.ref \in Protocols /\ offers[chanC.ref] # NoOffer
                                          /\ offers[chanC.ref].kind \in Kinds
           /\ chanC.state = "Established" => chanC.contract \in Protocols
           /\ chanC.contract # NoProtocol => chanC.contract \in Protocols /\ offers[chanC.contract] # NoOffer
           /\ chanC.state \in Awaiting /\ offers[chanC.ref].kind \notin OpenKinds =>
                chanC.contract \in Protocols /\ offers[chanC.contract] # NoOffer
           /\ chanC.state \in Awaiting /\ offers[chanC.ref].kind \in {"ResizePosition", "Rollover"} =>
                chanC.state \in {"RenewOffered", "RenewConfirmed"}
<1>0. /\ Calm /\ chanC \in Channels /\ Sound(chanC) /\ Made(chanC) /\ NoProtocol \notin Protocols
      /\ offers \in [Protocols -> Offers] /\ OutboxOK /\ OfferedOK
  BY Typed, ProtocolsAssumption DEF InTurn, Calm, CInv, ChannelsOK, ProposalsOK
<1>1. chanC.contract # NoProtocol => chanC.contract \in Protocols /\ offers[chanC.contract] # NoOffer
  BY <1>0 DEF Made, Channels
<1>2. chanC.state \in Awaiting => chanC.ref \in Protocols /\ offers[chanC.ref] # NoOffer
  BY <1>0 DEF Sound, Made
<1>3. chanC.state \in Awaiting => offers[chanC.ref].kind \in Kinds
  BY <1>0, <1>2 DEF ProposalsOK, Offers
<1>4. chanC.state \in Awaiting /\ offers[chanC.ref].kind \in {"ResizePosition", "Rollover"} =>
                chanC.contract # NoProtocol /\ chanC.state \in {"RenewOffered", "RenewConfirmed"}
  BY <1>0 DEF OfferedOK, OfferedState, Awaiting
<1>5. chanC.state \in {"Established", "SettledOffered"} => chanC.contract \in Protocols
  BY <1>0 DEF Sound
<1>6. chanC.state \in Awaiting /\ offers[chanC.ref].kind = "Settle" =>
            chanC.contract # NoProtocol /\ chanC.state \in {"SettledOffered", "SettledConfirmed"}
  BY <1>0, <1>5 DEF OfferedOK, OfferedState, Awaiting, RenewKinds
<1> QED BY <1>1, <1>2, <1>3, <1>4, <1>5, <1>6 DEF Kinds

\* Who has asked stays silent until an offer is sent.
LEMMA SilentKept ==
    ASSUME InTurn, Silent, Underway' \subseteq Underway \union {NoMessage}
    PROVE  Silent'
BY Nothing DEF Silent, Asks

\* The rows after a step that changes neither the table nor what the coordinator handles.
LEMMA RowsUnmoved ==
    ASSUME InTurn, CalmNext, ProposalsOK, RowsOK, UNCHANGED <<positions, chanC, inC>>,
           chanC.state \in Awaiting => (Early(chanC.ref)' <=> Early(chanC.ref)),
           Frozen /\ chanC.state = "Established" => Frozen',
           Stuck /\ chanC.state \in Awaiting => Stuck'
    PROVE  RowsOK'
<1>0. /\ OwnersOK /\ Calm
  BY DEF InTurn
<1>1. ASSUME NEW p \in Protocols, offers[p] # NoOffer, NEW S \in SUBSET Live, Rows(S, p) PROVE Rows(S, p)'
  BY <1>1, RowsStay
<1>2. /\ {"Open", "Closing"} \subseteq Live /\ {"Proposed"} \subseteq Live /\ {"Closing"} \subseteq Live
      /\ {"Resizing"} \subseteq Live /\ {"Rollover"} \subseteq Live
  BY DEF Live
<1>3. /\ NoRows => NoRows'
      /\ Alone({"Closing"}) => Alone({"Closing"})'
  BY DEF NoRows, Alone, RowsIn
<1>4. PICK r, c : r = chanC.ref /\ c = chanC.contract
  OBVIOUS
<1>5. chanC.state = "Established" /\ inC = NoMessage => Rows({"Open", "Closing"}, chanC.contract)' \/ Frozen'
  <2>1. chanC.state = "Established" => c \in Protocols /\ offers[c] # NoOffer
    BY <1>4, ChannelOffers, ProtocolsAssumption
  <2>2. chanC.state = "Established" /\ inC = NoMessage => Rows({"Open", "Closing"}, c) \/ Frozen
    BY <1>4 DEF RowsOK
  <2>3. chanC.state = "Established" /\ inC = NoMessage => Rows({"Open", "Closing"}, c)' \/ Frozen'
    BY <1>1, <1>2, <2>1, <2>2
  <2> QED BY <1>4, <2>3
<1>6. ASSUME chanC.state \in Awaiting PROVE OfferRows(offers[chanC.ref].kind)'
  <2>1. PICK k : k = offers[r].kind
    OBVIOUS
  <2>2. OfferRows(k) /\ r \in Protocols /\ offers[r] # NoOffer /\ k \in Kinds
    BY <1>4, <1>6, <2>1, ChannelOffers DEF RowsOK
  <2>3. offers'[r] = offers[r]
    BY <1>0, <2>2, MadeKept
  <2>4. k \notin OpenKinds => c \in Protocols /\ offers[c] # NoOffer
    BY <1>4, <1>6, <2>1, ChannelOffers
  <2>5. Early(r)' <=> Early(r)
    BY <1>4, <1>6
  <2>6. /\ k \in OpenKinds /\ Early(r) => NoRows
        /\ k \in OpenKinds /\ ~ Early(r) => Rows({"Proposed"}, r)
        /\ k \notin OpenKinds /\ Early(r) => Rows({"Open", "Closing"}, c)
        /\ k = "Settle" /\ ~ Early(r) => Rows({"Closing"}, c)
        /\ k = "ResizePosition" /\ ~ Early(r) => Rows({"Resizing"}, r) \/ Rows({"Closing"}, c)
        /\ k = "Rollover" /\ ~ Early(r) => Rows({"Rollover"}, r) \/ (Rows({"Closing"}, c) /\ Stuck)
    BY <1>4, <2>2 DEF OfferRows
  <2>7. /\ k \in OpenKinds /\ Early(r)' => NoRows'
        /\ k \in OpenKinds /\ ~ Early(r)' => Rows({"Proposed"}, r)'
        /\ k \notin OpenKinds /\ Early(r)' => Rows({"Open", "Closing"}, c)'
        /\ k = "Settle" /\ ~ Early(r)' => Rows({"Closing"}, c)'
        /\ k = "ResizePosition" /\ ~ Early(r)' => Rows({"Resizing"}, r)' \/ Rows({"Closing"}, c)'
        /\ k = "Rollover" /\ ~ Early(r)' => Rows({"Rollover"}, r)' \/ (Rows({"Closing"}, c)' /\ Stuck')
    BY <1>1, <1>2, <1>3, <1>6, <2>2, <2>4, <2>5, <2>6 DEF OpenKinds
  <2>8. OfferRows(k)'
    BY <1>4, <2>7 DEF OfferRows
  <2> QED BY <1>4, <2>1, <2>3, <2>8
<1>7. ASSUME inC.type \in Finishing \union {"Reject"} PROVE HandledRows(offers[inC.pid].kind)'
  <2>1. PICK k, q : k = offers[q].kind /\ q = inC.pid
    OBVIOUS
  <2>2. inC # NoMessage
    BY <1>7, Nothing DEF Finishing
  <2>3. HandledRows(k) /\ q \in Protocols /\ k \in Kinds /\ offers[q] # NoOffer
    BY <1>0, <1>7, <2>1, <2>2, TaskOver DEF RowsOK, NoOffer, Kinds, OpenKinds
  <2>4. offers'[q] = offers[q] /\ (c # NoProtocol => c \in Protocols /\ offers[c] # NoOffer /\ offers'[c] = offers[c])
    BY <1>0, <1>4, <2>3, MadeKept, ChannelOffers
  <2>5. inC.type = "Reject" /\ k \notin OpenKinds => c # NoProtocol
    BY <1>4, <2>3, ChannelOffers, ProtocolsAssumption DEF HandledRows
  <2>6. /\ k \in OpenKinds => Rows({"Proposed"}, q)'
        /\ k = "Settle" => Alone({"Closing"})'
        /\ k = "Settle" /\ inC.type = "Reject" => Rows({"Closing"}, c)'
        /\ k = "ResizePosition" => Rows({"Resizing"}, q)' \/ Alone({"Closing"})'
        /\ k = "ResizePosition" /\ inC.type = "Reject" => Rows({"Resizing"}, q)' \/ Rows({"Closing"}, c)'
        /\ k = "Rollover" => Rows({"Rollover"}, q)'
    BY <1>1, <1>2, <1>3, <1>4, <2>1, <2>3, <2>4, <2>5 DEF HandledRows, OpenKinds
  <2>7. k = "Rollover" /\ inC.type = "Reject" => offers'[q].size = SizeInForce'
    BY <1>4, <2>1, <2>3, <2>4, <2>5 DEF HandledRows, OpenKinds, SizeInForce
  <2>8. HandledRows(k)'
    BY <1>4, <2>1, <2>3, <2>6, <2>7 DEF HandledRows
  <2> QED BY <2>1, <2>4, <2>8
<1> QED BY <1>3, <1>5, <1>6, <1>7 DEF RowsOK

\* Tasks before they make their offer.
LEMMA TakesRows ==
    ASSUME InTurn, Calm', CalmNext, ProposalsOK, RowsOK, NEW p \in Protocols, Takes(p)
    PROVE  RowsOK'
<1>0. UNCHANGED <<positions, chanC, inC, offers, protocols, netCA, netAC, inA>> /\ offers[p] = NoOffer
  BY TakesFrame, TakesFresh DEF InTurn
<1>1. \A q \in Protocols : q # p => task'[q] = task[q]
  BY TakesMoves DEF TakesTask, InTurn, Calm
<1>2. chanC.state \in Awaiting => task'[chanC.ref] = task[chanC.ref]
  BY <1>0, <1>1, ChannelOffers
<1>3. chanC.state \in Awaiting => (Early(chanC.ref)' <=> Early(chanC.ref))
  BY <1>0, <1>2 DEF Early
<1>4. Frozen /\ chanC.state = "Established" => Frozen'
  <2>1. SUFFICES ASSUME Frozen, chanC.state = "Established" PROVE Frozen'
    OBVIOUS
  <2>2. RowsIn({"Open", "Rollover"})' = {} /\ ~ NeverFailed("ResizePosition")'
    BY <1>0, <2>1 DEF Frozen, RowsIn, NeverFailed
  <2>3. RowsIn({"Open", "Rollover"}) = {} /\ RowsIn({"Open"}) = {}
    BY <2>1 DEF Frozen, RowsIn
  <2>4. ~ BeginRollover(p)
    BY <2>3 DEF BeginRollover
  <2>5. ~ BeginTrade(p)
    BY <2>1, <2>3 DEF BeginTrade, Executable, determine_trade_action
  <2>6. task \in [Protocols -> Tasks]
    BY DEF InTurn, Calm, IInv, TypeOK
  <2>7. task'[p].pc \notin {"propose", "start", "position", "finish"}
    <3>1. ASSUME NewOrder(p) PROVE task'[p].pc = "check"
      <4>1. PICK o \in Orders : task' = [task EXCEPT ![p] = [Idle EXCEPT !.pc = "check", !.order = o]]
        BY <3>1 DEF NewOrder, SubmitOrder, CloseByCoordinator, PostOrder, Orders
      <4> QED BY <2>6, <4>1 DEF Idle
    <3>2. CheckOrder(p) \/ MatchOrder(p) \/ NoMatch(p) => task'[p].pc \in {"idle", "match", "matched"}
      BY <2>6 DEF CheckOrder, MatchOrder, NoMatch, Idle, Tasks
    <3>3. BeginTradeFails(p) \/ ProposeFails(p) \/ ProposeRolloverFails(p) => task'[p].pc = "idle"
      BY <2>6 DEF BeginTradeFails, ProposeFails, ProposeRolloverFails, FailTrade, Idle
    <3> QED BY <2>4, <2>5, <3>1, <3>2, <3>3 DEF Takes
  <2>8. Proposing' = {}
    BY <1>1, <2>1, <2>7 DEF Frozen, Proposing
  <2> QED BY <2>2, <2>8 DEF Frozen
<1>5. Stuck /\ chanC.state \in Awaiting => Stuck'
  BY <1>0, <1>2 DEF Stuck, Silent, Underway
<1> QED BY <1>0, <1>3, <1>4, <1>5, RowsUnmoved

\* The offer is made.
LEMMA ProposeRows ==
    ASSUME InTurn, Calm', CalmNext, ProposalsOK, RowsOK, NEW p \in Protocols, Propose(p)
    PROVE  RowsOK'
<1>1. /\ chanC'.ref = p /\ chanC'.state = OfferedState(task[p].kind)
      /\ chanC'.contract = chanC.contract
      /\ chanC.state \in {"None", "Cancelled", "Established", "Settled"}
      /\ task[p].kind = "OpenChannel" => chanC.state \in {"None", "Cancelled"}
      /\ task[p].kind \in {"Settle", "Rollover"} => chanC.state = "Established"
      /\ task[p].kind \in {"OpenPosition", "ResizePosition"} => chanC.state \in {"Established", "Settled"}
      /\ task[p].pc = "propose" /\ task[p].kind \in Kinds /\ offers'[p].kind = task[p].kind
  BY OfferMoves DEF InTurn
<1>2. p \in Proposing /\ inC = NoMessage
  BY <1>1, TakeTurns DEF Proposing, InTurn
<1>3. UNCHANGED <<positions, inC>> /\ Proposal(p) /\ task'[p].pc = "start"
  <2>1. task \in [Protocols -> Tasks]
    BY DEF InTurn, Calm, IInv, TypeOK
  <2> QED BY <1>1, <2>1 DEF Propose, ProposalsOK, Tasks
<1>4. Sound(chanC) /\ NoProtocol \notin Protocols
  BY ProtocolsAssumption DEF InTurn, Calm, CInv, ChannelsOK
<1>5. task[p].kind \in OpenKinds => NoRows'
  <2>1. task[p].kind \in OpenKinds => chanC.state \in {"None", "Cancelled", "Settled"}
    BY <1>1, <1>3, <1>4 DEF OpenKinds, Proposal, Sound
  <2>2. task[p].kind \in OpenKinds => NoRows
    BY <1>2, <2>1 DEF RowsOK
  <2> QED BY <1>3, <2>2 DEF NoRows, RowsIn
<1>6. task[p].kind \notin OpenKinds => Rows({"Open", "Closing"}, chanC.contract)'
  <2>1. PICK c : c = chanC.contract
    OBVIOUS
  <2>2. SUFFICES ASSUME task[p].kind \notin OpenKinds PROVE Rows({"Open", "Closing"}, c)'
    BY <1>1, <2>1
  <2>3. chanC.state = "Established"
    BY <1>1, <1>3, <1>4, <2>2 DEF OpenKinds, Kinds, Proposal, Sound
  <2>4. Rows({"Open", "Closing"}, c)
    BY <1>2, <2>1, <2>3 DEF RowsOK, Frozen
  <2>5. c \in Protocols /\ offers[c] # NoOffer
    BY <1>4, <2>1, <2>3, ChannelOffers
  <2> QED BY <1>3, <2>4, <2>5, RowsStay DEF Live
<1>7. Early(p)'
  BY <1>3 DEF Early
<1>8. OfferRows(offers[chanC.ref].kind)'
  <2>1. PICK k : k = task[p].kind
    OBVIOUS
  <2>2. OfferRows(k)'
    BY <1>1, <1>5, <1>6, <1>7, <2>1 DEF OfferRows, OpenKinds
  <2> QED BY <1>1, <2>1, <2>2
<1>9. chanC'.state \in Awaiting \ {"None", "Cancelled", "Settled", "Established"} /\ inC'.type = "None"
  BY <1>1, <1>2, <1>3, Nothing DEF OfferedState, Awaiting
<1> QED BY <1>8, <1>9 DEF RowsOK, Finishing

\* The task that has made the offer of the channel.
LEMMA UnsentChannel ==
    ASSUME InTurn, ProposalsOK, NEW p \in Unsent
    PROVE  /\ p \in Protocols /\ p \in Proposing /\ inC = NoMessage /\ Silent
           /\ chanC.ref = p /\ chanC.state = OfferedState(offers[p].kind) /\ chanC.state \in Awaiting
           /\ chanC.state \notin {"None", "Cancelled", "Settled", "Established"}
           /\ offers[p] # NoOffer /\ offers[p].kind \in Kinds /\ offers[p].kind = task[p].kind
<1>1. p \in Protocols /\ p \in Proposing
  BY DEF Unsent, Proposing
<1>2. chanC.ref = p /\ chanC.state = OfferedState(offers[p].kind) /\ Silent /\ offers[p].kind = task[p].kind
  BY DEF InTurn, OutboxOK, TurnsOK, OwnersOK
<1>3. chanC.state \in Awaiting /\ chanC.state \notin {"None", "Cancelled", "Settled", "Established"}
  BY <1>2 DEF OfferedState, Awaiting
<1> QED BY <1>1, <1>2, <1>3, TakeTurns, ChannelOffers DEF InTurn

\* The protocol is recorded; the offer is sent.
LEMMA StartFinishRows ==
    ASSUME InTurn, Calm', CalmNext, ProposalsOK, RowsOK, NEW p \in Protocols, StartProtocol(p) \/ FinishTask(p)
    PROVE  RowsOK'
<1>0. task \in [Protocols -> Tasks] /\ Idle.pc = "idle" /\ p \in Unsent
  BY DEF InTurn, Calm, IInv, TypeOK, Idle, Unsent, StartProtocol, FinishTask
<1>1. /\ chanC.ref = p /\ chanC.state \in Awaiting /\ chanC.state # "Established"
  BY <1>0, UnsentChannel
<1>2. UNCHANGED <<positions, chanC, inC>>
  BY DEF StartProtocol, FinishTask
<1>3. Early(chanC.ref)' <=> Early(chanC.ref)
  <2>1. StartProtocol(p) => task[p].pc = "start" /\ task'[p].pc = "position"
    BY <1>0 DEF StartProtocol, Tasks
  <2>2. FinishTask(p) => task[p].pc = "finish" /\ task'[p].pc = "idle"
    BY <1>0 DEF FinishTask
  <2> QED BY <1>1, <1>2, <2>1, <2>2 DEF Early
<1>4. ~ Stuck
  BY <1>0, <1>1 DEF Stuck, Unsent
<1> QED BY <1>1, <1>2, <1>3, <1>4, RowsUnmoved

\* The order is given up.
LEMMA GiveUpRows ==
    ASSUME InTurn, Calm', CalmNext, ProposalsOK, RowsOK, NEW o \in Orders, GiveUp(o)
    PROVE  RowsOK'
<1> USE DEF appVars, netVars
<1>0. /\ positions \in [Positions -> PositionRows]
      /\ UNCHANGED <<task, offers, chanC, protocols, inC, netCA, netAC, inA>>
      /\ positions' = WithState({"Open"}, "Closing") /\ RowsIn({"Open"}) # {}
  BY DEF InTurn, Calm, IInv, TypeOK, GiveUp
<1>1. \A i \in Positions : /\ positions[i].state = "Open" => positions'[i].state = "Closing"
                           /\ positions'[i].size = positions[i].size
                           /\ positions'[i].expiry = positions[i].expiry
                           /\ positions[i].state # "Open" => positions'[i] = positions[i]
  BY <1>0 DEF WithState, PositionRows
<1>2. PICK i \in Positions : positions[i].state = "Open"
  BY <1>0 DEF RowsIn
<1>3. i \in RowsIn(Live) /\ i \in RowsIn({"Open", "Rollover"})
  BY <1>2 DEF RowsIn, Live
<1>4. ~ NoRows /\ ~ Frozen /\ ~ Alone({"Closing"})
  BY <1>2, <1>3 DEF NoRows, Frozen, Alone
<1>5. ASSUME NEW S, NEW p, Rows(S, p) PROVE "Open" \in S
  BY <1>2, <1>3, <1>5 DEF Rows
<1>6. ASSUME NEW p \in Protocols, offers[p] # NoOffer, Rows({"Open", "Closing"}, p)
      PROVE  Rows({"Open", "Closing"}, p)'
  <2>1. \A j \in Positions :
           /\ positions[j].state \in {"Open", "Closing"} => positions'[j].state \in {"Open", "Closing"}
           /\ positions[j].state \notin Live => positions'[j] = positions[j]
    BY <1>1 DEF Live
  <2> QED BY <1>1, <1>6, <2>1, RowBecomes DEF Live
<1>7. PICK r, c, k : r = chanC.ref /\ c = chanC.contract /\ k = offers[r].kind
  OBVIOUS
<1>8. chanC.state = "Established" /\ inC = NoMessage => Rows({"Open", "Closing"}, chanC.contract)'
  <2>1. chanC.state = "Established" => c \in Protocols /\ offers[c] # NoOffer
    BY <1>7, ChannelOffers, ProtocolsAssumption
  <2>2. chanC.state = "Established" /\ inC = NoMessage => Rows({"Open", "Closing"}, c)
    BY <1>4, <1>7 DEF RowsOK
  <2> QED BY <1>0, <1>6, <1>7, <2>1, <2>2
<1>9. ASSUME chanC.state \in Awaiting PROVE OfferRows(offers[chanC.ref].kind)'
  <2>1. OfferRows(k) /\ k \in Kinds /\ (k \notin OpenKinds => c \in Protocols /\ offers[c] # NoOffer)
    BY <1>7, <1>9, ChannelOffers DEF RowsOK
  <2>2. k \notin OpenKinds /\ Early(r)
    BY <1>4, <1>5, <1>7, <2>1 DEF OfferRows, OpenKinds, Kinds
  <2>3. Rows({"Open", "Closing"}, c)'
    BY <1>6, <1>7, <2>1, <2>2 DEF OfferRows
  <2>4. OfferRows(k)'
    BY <1>0, <1>7, <2>2, <2>3 DEF OfferRows, Early, OpenKinds
  <2> QED BY <1>0, <1>7, <2>4
<1>10. inC.type \notin Finishing \union {"Reject"}
  <2>1. SUFFICES ASSUME inC.type \in Finishing \union {"Reject"} PROVE FALSE
    OBVIOUS
  <2>2. inC # NoMessage
    BY <2>1, Nothing DEF Finishing
  <2>3. offers[inC.pid].kind \in Kinds /\ HandledRows(offers[inC.pid].kind)
    BY <2>1, <2>2, TaskOver DEF RowsOK, InTurn
  <2> QED BY <1>4, <1>5, <2>3 DEF HandledRows, Kinds, OpenKinds
<1>11. ~ (chanC.state \in {"None", "Cancelled", "Settled"} /\ inC = NoMessage)
  BY <1>4 DEF RowsOK
<1> QED BY <1>0, <1>8, <1>9, <1>10, <1>11 DEF RowsOK

\* What an update of the table does to each row.
LEMMA UpdatedRows ==
    ASSUME IInv, NEW p \in Protocols, offers[p].kind \in Kinds \ OpenKinds, positions' \in PositionUpdates(p),
           NEW i \in Positions
    PROVE  /\ positions[i].state # "Open" => positions'[i] = positions[i]
           /\ positions[i].state = "Open" =>
                /\ offers[p].kind = "Settle" => /\ positions'[i].state = "Closing"
                                                /\ positions'[i].size = positions[i].size
                                                /\ positions'[i].expiry = positions[i].expiry
                /\ offers[p].kind = "ResizePosition" => /\ positions'[i].state = "Resizing"
                                                        /\ positions'[i].size = p
                                                        /\ positions'[i].expiry = offers[p].expiry
                /\ offers[p].kind = "Rollover" => /\ positions'[i].state = "Rollover"
                                                  /\ positions'[i].size = positions[i].size
                                                  /\ positions'[i].expiry = offers[p].expiry
<1>0. positions \in [Positions -> PositionRows] /\ positions[i] \in PositionRows
  BY DEF IInv, TypeOK
<1>1. CASE offers[p].kind = "Settle"
  <2>1. positions' = WithState({"Open"}, "Closing")
    BY <1>1 DEF PositionUpdates, OpenKinds
  <2> QED BY <1>0, <1>1, <2>1 DEF WithState, PositionRows
<1>2. CASE offers[p].kind = "ResizePosition"
  <2>1. positions' = [j \in Positions |-> IF positions[j].state = "Open"
                        THEN [state |-> "Resizing", size |-> p, expiry |-> offers[p].expiry]
                        ELSE positions[j]]
    BY <1>2 DEF PositionUpdates, OpenKinds
  <2> QED BY <1>2, <2>1
<1>3. CASE offers[p].kind = "Rollover"
  <2>1. positions' = [j \in Positions |-> IF positions[j].state = "Open"
                        THEN [positions[j] EXCEPT !.state = "Rollover", !.expiry = offers[p].expiry]
                        ELSE positions[j]]
    BY <1>3 DEF PositionUpdates, OpenKinds
  <2> QED BY <1>0, <1>3, <2>1 DEF PositionRows
<1> QED BY <1>1, <1>2, <1>3 DEF Kinds

\* The table is updated for the offer that was made.
LEMMA UpdateRows ==
    ASSUME InTurn, Calm', CalmNext, ProposalsOK, RowsOK, NEW p \in Protocols, UpdatePosition(p)
    PROVE  RowsOK'
<1> USE DEF appVars, netVars
<1>0. /\ task \in [Protocols -> Tasks] /\ Idle.pc = "idle" /\ p \in Unsent /\ IInv
      /\ positions \in [Positions -> PositionRows] /\ task[p].pc = "position"
      /\ positions' \in PositionUpdates(p) /\ UNCHANGED <<offers, chanC, protocols, inC, netCA, netAC, inA>>
  BY DEF InTurn, Calm, IInv, TypeOK, Idle, Unsent, UpdatePosition
<1>1. /\ inC = NoMessage /\ Silent /\ chanC.ref = p /\ chanC.state \in Awaiting
      /\ chanC.state \notin {"None", "Cancelled", "Settled", "Established"}
      /\ offers[p] # NoOffer /\ offers[p].kind \in Kinds /\ offers[p].kind = task[p].kind
  BY <1>0, UnsentChannel
<1>2. PICK c, k : c = chanC.contract /\ k = offers[p].kind
  OBVIOUS
<1>3. OfferRows(k) /\ Early(p) /\ (k \notin OpenKinds => c \in Protocols /\ offers[c] # NoOffer)
  BY <1>0, <1>1, <1>2, ChannelOffers DEF RowsOK, Early
<1>4. task'[p] = Idle \/ task'[p].pc = "finish"
  BY <1>0 DEF UpdatePosition, Tasks
<1>5. ~ Early(p)'
  BY <1>0, <1>4 DEF Early
<1>6. NeverFailed("Rollover")' <=> NeverFailed("Rollover")
  BY <1>0 DEF NeverFailed
<1>7. CASE k \in OpenKinds
  <2>1. NoRows
    BY <1>1, <1>3, <1>7 DEF OfferRows
  <2>2. PICK i \in Positions :
            positions' = [positions EXCEPT ![i] = [state |-> "Proposed", size |-> p, expiry |-> offers[p].expiry]]
    <3>1. offers[p].kind \in OpenKinds /\ positions' \in PositionUpdates(p)
      BY <1>0, <1>2, <1>7
    <3> QED BY <3>1 DEF PositionUpdates, RowsIn, OpenKinds
  <2>3. RowsIn(Live)' = {i}
    BY <1>0, <2>1, <2>2 DEF NoRows, RowsIn, Live
  <2>4. offers[p].size = p
    BY <1>1, <1>2, <1>7 DEF ProposalsOK, OpenKinds
  <2>5. Rows({"Proposed"}, p)'
    BY <1>0, <2>2, <2>3, <2>4 DEF Rows
  <2> QED BY <1>0, <1>1, <1>2, <1>5, <1>7, <2>5, Nothing DEF RowsOK, OfferRows, OpenKinds, Finishing
<1>8. CASE k \notin OpenKinds
  <2>1. Rows({"Open", "Closing"}, c)
    BY <1>1, <1>2, <1>3, <1>8 DEF OfferRows
  <2>2. PICK i \in Positions : /\ RowsIn(Live) = {i} /\ positions[i].state \in {"Open", "Closing"}
                               /\ positions[i].size = offers[c].size
                               /\ NeverFailed("Rollover") => positions[i].expiry = offers[c].expiry
    BY <2>1 DEF Rows
  <2>3. k \in Kinds \ OpenKinds
    BY <1>1, <1>2, <1>8
  <2>4. \A j \in Positions : j # i => positions'[j] = positions[j]
    <3>1. \A j \in Positions : j # i => positions[j].state # "Open"
      BY <2>2 DEF RowsIn, Live
    <3> QED BY <1>0, <1>2, <2>3, <3>1, UpdatedRows
  <2>5. positions'[i].state \in Live
    BY <1>0, <1>2, <2>2, <2>3, UpdatedRows DEF Live, Kinds
  <2>6. RowsIn(Live)' = {i}
    BY <2>2, <2>4, <2>5, RowMoves
  <2>7. positions[i].state = "Closing" => Rows({"Closing"}, c)'
    <3>1. positions[i].state = "Closing" => positions'[i] = positions[i]
      BY <1>0, <1>2, <2>3, UpdatedRows
    <3> QED BY <1>0, <1>6, <2>2, <2>6, <3>1 DEF Rows
  <2>8. positions[i].state = "Open" /\ k = "Settle" => Rows({"Closing"}, c)'
    <3>1. positions[i].state = "Open" /\ k = "Settle" =>
            /\ positions'[i].state = "Closing" /\ positions'[i].size = positions[i].size
            /\ positions'[i].expiry = positions[i].expiry
      BY <1>0, <1>2, <2>3, UpdatedRows
    <3> QED BY <1>0, <1>6, <2>2, <2>6, <3>1 DEF Rows
  <2>9. positions[i].state = "Open" /\ k = "ResizePosition" => Rows({"Resizing"}, p)'
    <3>1. positions[i].state = "Open" /\ k = "ResizePosition" =>
            /\ positions'[i].state = "Resizing" /\ positions'[i].size = p
            /\ positions'[i].expiry = offers[p].expiry
      BY <1>0, <1>2, <2>3, UpdatedRows
    <3>2. k = "ResizePosition" => offers[p].size = p
      BY <1>1, <1>2 DEF ProposalsOK
    <3> QED BY <1>0, <2>6, <3>1, <3>2 DEF Rows
  <2>10. positions[i].state = "Open" /\ k = "Rollover" => Rows({"Rollover"}, p)'
    <3>1. positions[i].state = "Open" /\ k = "Rollover" =>
            /\ positions'[i].state = "Rollover" /\ positions'[i].size = positions[i].size
            /\ positions'[i].expiry = offers[p].expiry
      BY <1>0, <1>2, <2>3, UpdatedRows
    <3>2. k = "Rollover" => offers[p].size = offers[c].size
      BY <1>1, <1>2, ChannelOffers DEF ProposalsOK, OfferedOK, SizeInForce
    <3> QED BY <1>0, <2>2, <2>6, <3>1, <3>2 DEF Rows
  <2>11. k = "Rollover" /\ positions[i].state # "Open" => Stuck'
    <3>1. positions[i].state # "Open" => RowsIn({"Open"}) = {}
      BY <2>2 DEF RowsIn, Live
    <3>2. k = "Rollover" /\ positions[i].state # "Open" => task'[p] = Idle
      BY <1>0, <1>1, <1>2, <3>1 DEF UpdatePosition
    <3> QED BY <1>0, <1>1, <3>2 DEF Stuck, Silent, Underway
  <2>12. OfferRows(k)'
    BY <1>0, <1>1, <1>2, <1>5, <1>8, <2>2, <2>7, <2>8, <2>9, <2>10, <2>11 DEF OfferRows
  <2> QED BY <1>0, <1>1, <1>2, <2>12, Nothing DEF RowsOK, Finishing
<1> QED BY <1>7, <1>8

\* The app's handler and the trader's orders.
LEMMA AppRows ==
    ASSUME InTurn, Calm', CalmNext, ProposalsOK, RowsOK, HandlerA \/ Shows \/ SkipC
    PROVE  RowsOK'
<1> USE DEF appVars, netVars, coordinatorVars
<1>0. IInv /\ Calm /\ DirectionsOK /\ netAC \in Seq(Messages) /\ netCA \in Seq(Messages)
  BY Typed DEF InTurn, Calm
<1>1. UNCHANGED <<positions, chanC, inC, task, offers, protocols>>
  <2>1. HandlerA => UNCHANGED <<positions, chanC, inC, task, offers, protocols>>
    BY <1>0, HandlerAMail DEF MailFromA
  <2>2. Shows => UNCHANGED <<positions, chanC, inC, task, offers, protocols>>
    BY DEF Shows, OrderPosted, SubmitRefused, OnTradeError, CheckOpenOrders, Tick
  <2>3. SkipC => UNCHANGED <<positions, chanC, inC, task, offers, protocols>>
    BY DEF SkipC
  <2> QED BY <2>1, <2>2, <2>3
<1>2. Silent => Silent'
  <2>1. SUFFICES ASSUME Silent PROVE Underway' \subseteq Underway \union {NoMessage}
    BY SilentKept
  <2>2. netAC = <<>> /\ ~ Asks(inA) /\ \A m \in On(netCA) : ~ Asks(m)
    BY <1>0, <2>1, SilentLine
  <2>3. Shows => Underway' = Underway
    BY DEF Shows, OrderPosted, SubmitRefused, OnTradeError, CheckOpenOrders, Tick, Underway
  <2>4. ~ SkipC
    BY <2>2 DEF SkipC
  <2>5. ASSUME HandlerA PROVE netAC' = netAC
    <3>1. inA.type \notin OfferTypes \union {"SettleConfirm", "RenewConfirm"}
      BY <2>2 DEF Asks, OfferTypes
    <3>2. netCA # <<>> => Head(netCA).type \notin OfferTypes
      BY <1>0, <2>2, QueueHead DEF Asks, OfferTypes
    <3>3. ~ ForceRejectOffer /\ ~ AcceptOffer /\ ~ RejectOffer /\ ~ CompleteSettleA /\ ~ CompleteRenewConfirmA
      BY <3>1, <3>2 DEF ForceRejectOffer, AcceptOffer, RejectOffer, CompleteSettleA, CompleteRenewConfirmA, Pending
    <3>4. SkipA \/ ReceiveA \/ RefuseA \/ AcceptUnanswered => netAC' = netAC
      BY DEF SkipA, ReceiveA, RefuseA, AcceptUnanswered
    <3>5. StaleOffer \/ CompleteOpenA \/ CompleteRolloverA => netAC' = netAC
      BY DEF StaleOffer, CompleteOpenA, CompleteRolloverA
    <3> QED BY <2>5, <3>3, <3>4, <3>5 DEF HandlerA
  <2>6. HandlerA => Underway' \subseteq Underway \union {NoMessage}
    BY <1>0, <2>5, HandlerAMail DEF MailFromA, Underway
  <2> QED BY <2>3, <2>4, <2>6
<1>3. Early(chanC.ref)' <=> Early(chanC.ref)
  BY <1>1 DEF Early
<1>4. Frozen => Frozen'
  BY <1>1 DEF Frozen, RowsIn, Proposing, NeverFailed
<1>5. Stuck => Stuck'
  BY <1>1, <1>2 DEF Stuck
<1> QED BY <1>1, <1>3, <1>4, <1>5, RowsUnmoved

\* An answer arrives.
LEMMA ReceiveRows ==
    ASSUME InTurn, Calm', CalmNext, ProposalsOK, RowsOK, ReceiveC
    PROVE  RowsOK'
<1>0. PICK m \in On(netAC) : Receives(m)
  BY ReceiveMoves
<1>1. /\ inC' = m /\ inC = NoMessage /\ m # NoMessage /\ m.type # "None"
      /\ Unsent = {} /\ ~ Silent /\ chanC.state \in Awaiting /\ Waits(chanC, m)
      /\ m.pid \in Protocols /\ Belongs(offers, m) /\ m.type \in FromApp
      /\ chanC.ref = m.pid /\ chanC'.ref = m.pid
      /\ UNCHANGED <<task, offers, protocols, positions>>
  BY <1>0 DEF Receives, FromApp, AcceptTypes
<1>2. PICK r, c, k : r = m.pid /\ c = chanC.contract /\ k = offers[m.pid].kind
  OBVIOUS
<1>3. /\ OfferRows(k) /\ ~ Early(r) /\ ~ Stuck /\ k \in Kinds /\ r \in Protocols /\ offers[r] # NoOffer
      /\ k \notin OpenKinds => c \in Protocols /\ offers[c] # NoOffer
      /\ ~ Early(r)'
  BY <1>1, <1>2, ChannelOffers DEF RowsOK, Early, Unsent, Stuck
<1>4. ASSUME NEW p \in Protocols, offers[p] # NoOffer, NEW S \in SUBSET Live, Rows(S, p) PROVE Rows(S, p)'
  BY <1>1, <1>4, RowsStay
<1>5. /\ k \in OpenKinds => Rows({"Proposed"}, r)'
      /\ k = "Settle" => Rows({"Closing"}, c)'
      /\ k = "ResizePosition" => Rows({"Resizing"}, r)' \/ Rows({"Closing"}, c)'
      /\ k = "Rollover" => Rows({"Rollover"}, r)'
  <2>1. /\ k \in OpenKinds => Rows({"Proposed"}, r)
        /\ k = "Settle" => Rows({"Closing"}, c)
        /\ k = "ResizePosition" => Rows({"Resizing"}, r) \/ Rows({"Closing"}, c)
        /\ k = "Rollover" => Rows({"Rollover"}, r)
    BY <1>1, <1>2, <1>3 DEF OfferRows
  <2>2. /\ {"Proposed"} \subseteq Live /\ {"Closing"} \subseteq Live
        /\ {"Resizing"} \subseteq Live /\ {"Rollover"} \subseteq Live
    BY DEF Live
  <2> QED BY <1>3, <1>4, <2>1, <2>2 DEF OpenKinds
<1>6. \A p : Rows({"Closing"}, p)' => Alone({"Closing"})'
  BY DEF Rows, Alone
<1>7. CASE m.type \in {"SettleAccept", "RenewAccept"}
  <2>1. chanC'.state \in {"SettledConfirmed", "RenewConfirmed"} /\ chanC'.contract = c
    BY <1>0, <1>2, <1>7 DEF Receives
  <2>2. OfferRows(k)'
    BY <1>1, <1>2, <1>3, <1>5, <2>1 DEF OfferRows, OpenKinds
  <2>3. OfferRows(offers[chanC.ref].kind)'
    BY <1>1, <1>2, <2>2
  <2> QED BY <1>1, <1>7, <2>1, <2>3 DEF RowsOK, Finishing
<1>8. CASE m.type \in Finishing
  <2>1. chanC'.state \in {"Established", "Settled"}
    BY <1>0, <1>8 DEF Receives, Finishing
  <2>2. HandledRows(k)'
    BY <1>1, <1>2, <1>5, <1>6, <1>8 DEF HandledRows, Finishing
  <2>3. HandledRows(offers[inC.pid].kind)'
    BY <1>1, <1>2, <2>2
  <2> QED BY <1>1, <2>1, <2>3 DEF RowsOK, Awaiting
<1>9. CASE m.type = "Reject"
  <2>0. Sound(chanC) /\ NoProtocol \notin Protocols
    BY ProtocolsAssumption DEF InTurn, Calm, CInv, ChannelsOK
  <2>1. chanC'.state = chanC.back /\ chanC'.contract = c /\ chanC.state = OfferedState(k)
    BY <1>0, <1>1, <1>2, <1>9 DEF Receives, Waits
  <2>2. chanC.state \in {"Offered", "SettledOffered", "RenewOffered"}
    BY <2>1 DEF OfferedState
  <2>3. chanC.back \in {"Cancelled", "Established", "Settled"}
    BY <2>0, <2>2 DEF Sound
  <2>4. k = "OpenPosition" => chanC.contract = NoProtocol
    BY <1>1, <1>2, <2>1 DEF ProposalsOK, OfferedOK, OfferedState
  <2>5. chanC.back \in (IF k \in OpenKinds THEN {"Cancelled", "Settled"} ELSE {"Established"})
    BY <1>2, <1>3, <2>0, <2>1, <2>4 DEF OfferedState, Sound, Kinds, OpenKinds
  <2>6. k = "Rollover" => offers'[r].size = SizeInForce'
    BY <1>1, <1>2, <2>1 DEF ProposalsOK, OfferedOK, OfferedState, SizeInForce
  <2>7. HandledRows(k)'
    BY <1>1, <1>2, <1>5, <1>6, <1>9, <2>1, <2>5, <2>6 DEF HandledRows
  <2>8. HandledRows(offers[inC.pid].kind)'
    BY <1>1, <1>2, <2>7
  <2> QED BY <1>1, <2>1, <2>3, <2>8 DEF RowsOK, Awaiting
<1> QED BY <1>1, <1>7, <1>8, <1>9 DEF FromApp, AcceptTypes, Finishing

\* The message that is half way through.
LEMMA Handled ==
    ASSUME InTurn, ProposalsOK, RowsOK, inC.type \in Finishing \union {"Reject"}
    PROVE  /\ inC # NoMessage /\ inC.pid \in Protocols /\ offers[inC.pid] # NoOffer
           /\ offers[inC.pid].kind \in Kinds /\ protocols[inC.pid] # "None" /\ HandledRows(offers[inC.pid].kind)
           /\ Proposing = {} /\ chanC.ref = inC.pid /\ Belongs(offers, inC)
           /\ inC.type = "Accept" => offers[inC.pid].kind = "OpenChannel" /\ chanC.state = "Established"
                                     /\ chanC.contract = inC.pid
           /\ inC.type = "RenewFinalize" => offers[inC.pid].kind \in RenewKinds /\ chanC.state = "Established"
                                            /\ chanC.contract = inC.pid
           /\ inC.type = "SettleFinalize" => offers[inC.pid].kind = "Settle" /\ chanC.state = "Settled"
           /\ inC.type = "Reject" /\ offers[inC.pid].kind \in OpenKinds => chanC.state \in {"Cancelled", "Settled"}
           /\ inC.type = "Reject" /\ offers[inC.pid].kind \notin OpenKinds =>
                chanC.state = "Established" /\ chanC.contract \in Protocols /\ offers[chanC.contract] # NoOffer
<1>1. inC # NoMessage /\ inC.type # "None"
  BY Nothing DEF Finishing
<1>2. /\ Belongs(offers, inC) /\ inC.pid \in Protocols /\ offers[inC.pid].kind \in Kinds
      /\ protocols[inC.pid] # "None" /\ offers[inC.pid] # NoOffer
  BY <1>1, TaskOver DEF InTurn, NoOffer, Kinds, OpenKinds
<1>3. HandledRows(offers[inC.pid].kind) /\ Proposing = {} /\ chanC.ref = inC.pid
  BY <1>1, TakeTurns DEF RowsOK, InTurn, TurnsOK
<1>4. /\ inC.type \notin {"None", "Reject"} => chanC.state = Coordinator(inC.type)[2]
      /\ inC.type \in {"Accept", "RenewFinalize"} => chanC.contract = inC.pid
  BY DEF InTurn, HalfwayOK
<1>5. /\ inC.type = "Accept" => offers[inC.pid].kind = "OpenChannel"
      /\ inC.type = "RenewFinalize" => offers[inC.pid].kind \in RenewKinds
      /\ inC.type = "SettleFinalize" => offers[inC.pid].kind = "Settle"
  BY <1>2 DEF Belongs, TypesOf, RenewKinds
<1>6. /\ inC.type \in {"Accept", "RenewFinalize"} => Coordinator(inC.type)[2] = "Established"
      /\ inC.type = "SettleFinalize" => Coordinator(inC.type)[2] = "Settled"
  BY DEF Coordinator
<1>7. inC.type = "Reject" =>
        /\ offers[inC.pid].kind \in OpenKinds => chanC.state \in {"Cancelled", "Settled"}
        /\ offers[inC.pid].kind \notin OpenKinds => chanC.state = "Established"
  BY <1>3 DEF HandledRows
<1>8. chanC.state = "Established" => chanC.contract \in Protocols /\ offers[chanC.contract] # NoOffer
  BY ChannelOffers, ProtocolsAssumption
<1> QED BY <1>1, <1>2, <1>3, <1>4, <1>5, <1>6, <1>7, <1>8

\* A row changes its state and nothing else.
LEMMA WithStateRows ==
    ASSUME IInv, NEW S, NEW new, positions' = WithState(S, new), NEW i \in Positions
    PROVE  /\ positions[i].state \in S => positions'[i].state = new
           /\ positions[i].state \notin S => positions'[i] = positions[i]
           /\ positions'[i].size = positions[i].size /\ positions'[i].expiry = positions[i].expiry
<1>1. positions[i] \in PositionRows
  BY DEF IInv, TypeOK
<1> QED BY <1>1 DEF WithState, PositionRows

\* The row of an offer that is put into another state.
LEMMA WithStateBecomes ==
    ASSUME InTurn, CalmNext, NEW p \in Protocols, offers[p] # NoOffer, NEW old \in Live, NEW new \in Live,
           NEW S \in SUBSET Live, old \in S, Rows({old}, p), positions' = WithState(S, new)
    PROVE  Rows({new}, p)'
<1>1. \A i \in Positions :
        /\ positions[i].state \in {old} => /\ positions'[i].state \in {new}
                                           /\ positions'[i].size = positions[i].size
                                           /\ positions'[i].expiry = positions[i].expiry
        /\ positions[i].state \notin Live => positions'[i] = positions[i]
  BY WithStateRows DEF InTurn, Calm
<1> QED BY <1>1, RowBecomes

\* A reply that does not finish its protocol.
LEMMA ReplyRows ==
    ASSUME InTurn, Calm', CalmNext, ProposalsOK, RowsOK, CompleteC, inC.type \notin Finishing
    PROVE  RowsOK'
<1> USE DEF appVars
<1>0. inC.type \in FromApp \ {"Reject", "None"} /\ DirectionsOK /\ HalfwayOK /\ inC # NoMessage
  BY Nothing DEF CompleteC, InTurn, DirectionsOK, MessageTypes, OfferTypes, AcceptTypes, FromApp
<1>1. inC.type \in {"SettleAccept", "RenewAccept"}
  BY <1>0 DEF FromApp, AcceptTypes, Finishing
<1>2. chanC.state \in {"SettledConfirmed", "RenewConfirmed"}
  BY <1>1 DEF InTurn, HalfwayOK, Coordinator
<1>3. UNCHANGED <<positions, chanC, task, offers, protocols>> /\ inC' = NoMessage
  BY DEF CompleteC
<1>4. PICK r, c, k : r = chanC.ref /\ c = chanC.contract /\ k = offers[r].kind
  OBVIOUS
<1>5. /\ OfferRows(k) /\ ~ Stuck /\ k \in Kinds /\ r \in Protocols /\ offers[r] # NoOffer
      /\ k \notin OpenKinds => c \in Protocols /\ offers[c] # NoOffer
      /\ Early(r)' <=> Early(r)
  BY <1>0, <1>2, <1>3, <1>4, ChannelOffers DEF RowsOK, Awaiting, Stuck, Early
<1>6. ASSUME NEW p \in Protocols, offers[p] # NoOffer, NEW S \in SUBSET Live, Rows(S, p) PROVE Rows(S, p)'
  BY <1>3, <1>6, RowsStay
<1>7. /\ {"Open", "Closing"} \subseteq Live /\ {"Proposed"} \subseteq Live /\ {"Closing"} \subseteq Live
      /\ {"Resizing"} \subseteq Live /\ {"Rollover"} \subseteq Live
  BY DEF Live
<1>8. NoRows => NoRows'
  BY <1>3 DEF NoRows, RowsIn
<1>9. /\ k \in OpenKinds /\ Early(r) => NoRows
      /\ k \in OpenKinds /\ ~ Early(r) => Rows({"Proposed"}, r)
      /\ k \notin OpenKinds /\ Early(r) => Rows({"Open", "Closing"}, c)
      /\ k = "Settle" /\ ~ Early(r) => Rows({"Closing"}, c)
      /\ k = "ResizePosition" /\ ~ Early(r) => Rows({"Resizing"}, r) \/ Rows({"Closing"}, c)
      /\ k = "Rollover" /\ ~ Early(r) => Rows({"Rollover"}, r)
  BY <1>4, <1>5 DEF OfferRows
<1>10. /\ k \in OpenKinds /\ Early(r)' => NoRows'
       /\ k \in OpenKinds /\ ~ Early(r)' => Rows({"Proposed"}, r)'
       /\ k \notin OpenKinds /\ Early(r)' => Rows({"Open", "Closing"}, c)'
       /\ k = "Settle" /\ ~ Early(r)' => Rows({"Closing"}, c)'
       /\ k = "ResizePosition" /\ ~ Early(r)' => Rows({"Resizing"}, r)' \/ Rows({"Closing"}, c)'
       /\ k = "Rollover" /\ ~ Early(r)' => Rows({"Rollover"}, r)'
  BY <1>5, <1>6, <1>7, <1>8, <1>9 DEF OpenKinds
<1>11. OfferRows(k)'
  BY <1>3, <1>4, <1>10 DEF OfferRows
<1>12. OfferRows(offers[chanC.ref].kind)'
  BY <1>3, <1>4, <1>11
<1> QED BY <1>2, <1>3, <1>12, Nothing DEF RowsOK, Finishing

\* A protocol is finished.
LEMMA FinishRows ==
    ASSUME InTurn, Calm', CalmNext, ProposalsOK, RowsOK, CompleteC, inC.type \in Finishing
    PROVE  RowsOK'
<1> USE DEF appVars
<1>0. /\ UNCHANGED <<chanC, task, offers>> /\ inC' = NoMessage /\ IInv
      /\ positions' \in FinishedPositions(inC.pid) /\ FinishPossible(inC.pid)
  BY DEF CompleteC, finish_dlc_protocol, InTurn, Calm
<1>1. PICK q, k : q = inC.pid /\ k = offers[q].kind
  OBVIOUS
<1>2. /\ q \in Protocols /\ offers[q] # NoOffer /\ k \in Kinds /\ HandledRows(k)
      /\ inC.type = "Accept" => k = "OpenChannel" /\ chanC.state = "Established" /\ chanC.contract = q
      /\ inC.type = "RenewFinalize" => k \in RenewKinds /\ chanC.state = "Established" /\ chanC.contract = q
      /\ inC.type = "SettleFinalize" => k = "Settle" /\ chanC.state = "Settled"
  BY <1>1, Handled
<1>3. {"Proposed", "Resizing", "Rollover", "Open"} \subseteq Live
  BY DEF Live
<1>4. CASE k # "Settle"
  <2>1. inC.type \in {"Accept", "RenewFinalize"} /\ chanC.state = "Established" /\ chanC.contract = q
    BY <1>2, <1>4 DEF Finishing
  <2>2. Rows({"Open"}, q)'
    <3>1. CASE k \in OpenKinds
      <4>1. positions' = WithState({"Proposed"}, "Open")
        BY <1>0, <1>1, <3>1 DEF FinishedPositions, OpenKinds
      <4>2. Rows({"Proposed"}, q)
        BY <1>1, <1>2, <3>1 DEF HandledRows
      <4> QED BY <1>2, <1>3, <4>1, <4>2, WithStateBecomes
    <3>2. CASE k = "ResizePosition"
      <4>1. positions' = WithState({"Resizing"}, "Open") /\ RowsIn({"Resizing"}) # {}
        BY <1>0, <1>1, <3>2 DEF FinishedPositions, FinishPossible, OpenKinds
      <4>2. ~ Alone({"Closing"})
        BY <4>1 DEF Alone, RowsIn, Live
      <4>3. Rows({"Resizing"}, q)
        BY <1>1, <1>2, <3>2, <4>2 DEF HandledRows
      <4> QED BY <1>2, <1>3, <4>1, <4>3, WithStateBecomes
    <3>3. CASE k = "Rollover"
      <4>1. positions' = WithState({"Rollover"}, "Open") /\ Rows({"Rollover"}, q)
        BY <1>0, <1>1, <1>2, <3>3 DEF FinishedPositions, HandledRows, OpenKinds
      <4> QED BY <1>2, <1>3, <4>1, WithStateBecomes
    <3> QED BY <1>2, <1>4, <3>1, <3>2, <3>3 DEF Kinds
  <2>3. Rows({"Open", "Closing"}, q)'
    BY <2>2 DEF Rows
  <2>4. Rows({"Open", "Closing"}, chanC.contract)'
    BY <1>0, <2>1, <2>3
  <2> QED BY <1>0, <2>1, <2>4, Nothing DEF RowsOK, Finishing, Awaiting
<1>5. CASE k = "Settle"
  <2>1. chanC.state = "Settled" /\ Alone({"Closing"})
    BY <1>2, <1>5 DEF Finishing, RenewKinds, HandledRows
  <2>2. PICK i \in Positions : /\ positions[i].state = "Closing"
                               /\ positions' = [positions EXCEPT ![i] = [positions[i] EXCEPT !.state = "Closed"]]
    BY <1>0, <1>1, <1>5 DEF FinishedPositions, RowsIn, OpenKinds
  <2>3. positions \in [Positions -> PositionRows]
    BY <1>0 DEF IInv, TypeOK
  <2>4. positions'[i].state = "Closed" /\ \A j \in Positions : j # i => positions'[j] = positions[j]
    BY <2>2, <2>3 DEF PositionRows
  <2>5. RowsIn(Live) = {i}
    BY <2>1, <2>2 DEF Alone, RowsIn, Live
  <2>6. NoRows'
    BY <2>4, <2>5, RowMoves DEF NoRows, Live
  <2> QED BY <1>0, <2>1, <2>6, Nothing DEF RowsOK, Finishing, Awaiting
<1> QED BY <1>4, <1>5

\* A protocol cannot be finished: its position was given up.
LEMMA FinishFailsRows ==
    ASSUME InTurn, Calm', CalmNext, ProposalsOK, RowsOK, CompleteCFails
    PROVE  RowsOK'
<1> USE DEF appVars
<1>0. /\ UNCHANGED <<chanC, task, offers, positions>> /\ inC' = NoMessage /\ inC.type \in Finishing
      /\ ~ FinishPossible(inC.pid) /\ FailMessage(inC) /\ protocols \in [Protocols -> ProtocolStates]
  BY DEF CompleteCFails, InTurn, Calm, IInv, TypeOK
<1>1. PICK q, k : q = inC.pid /\ k = offers[q].kind
  OBVIOUS
<1>2. /\ q \in Protocols /\ offers[q] # NoOffer /\ k \in Kinds /\ HandledRows(k) /\ Proposing = {}
      /\ protocols[q] # "None"
      /\ inC.type = "Accept" => k = "OpenChannel" /\ chanC.state = "Established"
      /\ inC.type = "RenewFinalize" => k \in RenewKinds /\ chanC.state = "Established"
      /\ inC.type = "SettleFinalize" => k = "Settle" /\ chanC.state = "Settled"
  BY <1>0, <1>1, Handled
<1>3. ASSUME NEW S, NEW p, Rows({S}, p), S \in Live PROVE RowsIn({S}) # {}
  BY <1>3 DEF Rows, RowsIn
<1>4. Alone({"Closing"}) => RowsIn({"Closing"}) # {}
  BY DEF Alone, RowsIn
<1>5. k = "ResizePosition" /\ RowsIn({"Resizing"}) = {}
  BY <1>0, <1>1, <1>2, <1>3, <1>4 DEF FinishPossible, HandledRows, Live, OpenKinds, Kinds
<1>6. Alone({"Closing"}) /\ chanC.state = "Established"
  BY <1>0, <1>1, <1>2, <1>3, <1>5 DEF HandledRows, Live, Finishing
<1>7. RowsIn({"Open", "Rollover"})' = {}
  BY <1>0, <1>6 DEF Alone, RowsIn, Live
<1>8. protocols'[q] = "Failed"
  BY <1>0, <1>1, <1>2 DEF FailMessage
<1>9. ~ NeverFailed("ResizePosition")'
  BY <1>0, <1>1, <1>2, <1>5, <1>8 DEF NeverFailed
<1>10. Frozen'
  BY <1>0, <1>2, <1>7, <1>9 DEF Frozen, Proposing
<1> QED BY <1>0, <1>6, <1>10, Nothing DEF RowsOK, Finishing, Awaiting

\* An offer was rejected.
LEMMA RejectRows ==
    ASSUME InTurn, Calm', CalmNext, ProposalsOK, RowsOK, CompleteReject
    PROVE  RowsOK'
<1> USE DEF appVars
<1>0. /\ UNCHANGED <<chanC, task, offers>> /\ inC' = NoMessage /\ inC.type = "Reject" /\ IInv
      /\ FailMessage(inC) /\ protocols \in [Protocols -> ProtocolStates]
      /\ positions' = IF protocols[inC.pid] = "None" THEN positions ELSE WithState(Reverted, RevertedTo)
  BY DEF CompleteReject, InTurn, Calm, IInv, TypeOK
<1>1. PICK q, k, c : q = inC.pid /\ k = offers[q].kind /\ c = chanC.contract
  OBVIOUS
<1>2. /\ q \in Protocols /\ offers[q] # NoOffer /\ k \in Kinds /\ HandledRows(k) /\ Proposing = {}
      /\ protocols[q] # "None" /\ chanC.ref = q
      /\ k \in OpenKinds => chanC.state \in {"Cancelled", "Settled"}
      /\ k \notin OpenKinds => chanC.state = "Established" /\ c \in Protocols /\ offers[c] # NoOffer
  BY <1>0, <1>1, Handled
<1>3. positions' = WithState(Reverted, RevertedTo) /\ protocols'[q] = "Failed"
  BY <1>0, <1>1, <1>2 DEF FailMessage
<1>4. CASE k \in OpenKinds
  <2>1. positions' = WithState({"Proposed"}, "Failed") /\ Rows({"Proposed"}, q)
    BY <1>1, <1>2, <1>3, <1>4 DEF Reverted, RevertedTo, HandledRows
  <2>2. NoRows'
    BY <1>0, <2>1, WithStateRows DEF NoRows, Rows, RowsIn, Live
  <2> QED BY <1>0, <1>2, <1>4, <2>2, Nothing DEF RowsOK, Finishing, Awaiting
<1>5. CASE k \notin OpenKinds
  <2>1. /\ positions' = WithState({"Closing", "Rollover"}, "Open") /\ chanC.state = "Established"
        /\ c \in Protocols /\ offers[c] # NoOffer /\ offers'[c] = offers[c]
    BY <1>0, <1>2, <1>3, <1>5 DEF Reverted, RevertedTo
  <2>2. {"Open", "Closing", "Rollover"} \subseteq Live
    BY DEF Live
  <2>3. Rows({"Closing"}, c) => Rows({"Open"}, c)'
    BY <2>1, <2>2, WithStateBecomes
  <2>4. k = "Rollover" => Rows({"Open"}, c)'
    <3>1. SUFFICES ASSUME k = "Rollover" PROVE Rows({"Open"}, c)'
      OBVIOUS
    <3>2. Rows({"Rollover"}, q) /\ offers[q].size = offers[c].size
      BY <1>0, <1>1, <1>2, <3>1 DEF HandledRows, SizeInForce
    <3>3. ~ NeverFailed("Rollover")'
      BY <1>0, <1>1, <1>2, <1>3, <3>1 DEF NeverFailed
    <3>4. PICK i \in Positions : /\ RowsIn(Live) = {i} /\ positions[i].state = "Rollover"
                                 /\ positions[i].size = offers[c].size
      BY <3>2 DEF Rows
    <3>5. positions'[i].state = "Open" /\ positions'[i].size = positions[i].size
      BY <1>0, <2>1, <3>4, WithStateRows
    <3>6. RowsIn(Live)' = {i}
      <4>1. \A j \in Positions : j # i => positions[j].state \notin {"Closing", "Rollover"}
        BY <3>4 DEF RowsIn, Live
      <4>2. \A j \in Positions : j # i => positions'[j] = positions[j]
        BY <1>0, <2>1, <4>1, WithStateRows
      <4> QED BY <2>2, <3>4, <3>5, <4>2, RowMoves
    <3> QED BY <2>1, <3>3, <3>4, <3>5, <3>6 DEF Rows
  <2>5. k = "ResizePosition" /\ Rows({"Resizing"}, q) => Frozen'
    <3>1. SUFFICES ASSUME k = "ResizePosition", Rows({"Resizing"}, q) PROVE Frozen'
      OBVIOUS
    <3>2. ~ NeverFailed("ResizePosition")'
      BY <1>0, <1>1, <1>2, <1>3, <3>1 DEF NeverFailed
    <3>3. PICK i \in Positions : RowsIn(Live) = {i} /\ positions[i].state = "Resizing"
      BY <3>1 DEF Rows
    <3>4. \A j \in Positions : positions[j].state \notin {"Open", "Closing", "Rollover"}
      BY <3>3 DEF RowsIn, Live
    <3>5. \A j \in Positions : positions'[j] = positions[j]
      BY <1>0, <2>1, <3>4, WithStateRows
    <3>6. RowsIn({"Open", "Rollover"})' = {}
      BY <3>4, <3>5 DEF RowsIn
    <3> QED BY <1>0, <1>2, <3>2, <3>6 DEF Frozen, Proposing
  <2>6. Rows({"Open"}, c)' \/ Frozen'
    BY <1>0, <1>1, <1>2, <1>5, <2>3, <2>4, <2>5 DEF HandledRows, Kinds
  <2>7. Rows({"Open"}, c)' => Rows({"Open", "Closing"}, c)'
    BY DEF Rows
  <2>8. Rows({"Open", "Closing"}, chanC.contract)' \/ Frozen'
    BY <1>0, <1>1, <2>6, <2>7
  <2> QED BY <1>0, <2>1, <2>8, Nothing DEF RowsOK, Finishing, Awaiting
<1> QED BY <1>4, <1>5

\* The rows of the table, after any step.
LEMMA RowsNext ==
    ASSUME InTurn, Calm', CalmNext, ProposalsOK, RowsOK
    PROVE  RowsOK'
<1>1. ~ RefuseC
  BY OutcomeMoves DEF InTurn
<1> QED BY <1>1, TakesRows, ProposeRows, StartFinishRows, UpdateRows, GiveUpRows, AppRows, ReceiveRows,
           ReplyRows, FinishRows, FinishFailsRows, RejectRows DEF CalmNext, HandlerC

-----------------------------------------------------------------------------
(* The position of the app *)

\* The app's position keeps its quantity and expiry.
KeepsPosition ==
    /\ posA'.state = "None" <=> posA.state = "None"
    /\ posA'.size = posA.size /\ posA'.expiry = posA.expiry

\* PosAInState changes the state of a position that there is.
LEMMA PositionInState ==
    ASSUME IInv, NEW x, x # "None", posA' = posA \/ posA' = PosAInState(x)
    PROVE  KeepsPosition
<1>1. posA \in PositionRows
  BY DEF IInv, TypeOK
<1> QED BY <1>1 DEF PosAInState, KeepsPosition, PositionRows

\* The messages that are still being handled.
Current == Underway \union {inC}

\* A message that is being handled belongs to a protocol that has not failed.
LEMMA CurrentNotFailed ==
    ASSUME InTurn, NEW m \in Current, Answered(m)
    PROVE  /\ m.pid \in Protocols /\ offers[m.pid].kind \in Kinds /\ offers[m.pid] # NoOffer
           /\ offers[m.pid].kind # "Rollover" => offers[m.pid].order \in Orders
           /\ protocols[m.pid] # "Failed" /\ Belongs(offers, m)
<1>1. m.type # "None" /\ m \in Mail
  BY DEF Answered, Current, Mail
<1>2. /\ Belongs(offers, m) /\ m.pid \in Protocols /\ offers[m.pid].kind \in Kinds
      /\ offers[m.pid].kind # "Rollover" => offers[m.pid].order \in Orders
  BY <1>1, MailBelongs DEF InTurn
<1>3. CASE m \in Underway /\ Done(m)
  BY <1>2, <1>3 DEF InTurn, OutcomesOK, NoOffer, Kinds, OpenKinds
<1>4. CASE m \in Underway /\ ~ Done(m)
  <2>1. Asks(m)
    BY <1>1, <1>4 DEF Done, Asks
  <2>2. Waits(chanC, m)
    BY <1>4, <2>1 DEF InTurn, TurnsOK
  <2>3. m.type \in MessageTypes
    BY <1>2 DEF Belongs, Messages
  <2>4. chanC.state \in Awaiting /\ chanC.ref = m.pid
    BY <1>4, <2>2, <2>3 DEF Waits, Awaiting, Answered, Done, MessageTypes, OfferTypes, AcceptTypes
  <2> QED BY <1>2, <2>4 DEF InTurn, OutcomesOK, NoOffer, Kinds, OpenKinds
<1>5. CASE m = inC
  BY <1>1, <1>2, <1>5 DEF InTurn, OutcomesOK, NoOffer, Kinds, OpenKinds
<1> QED BY <1>3, <1>4, <1>5 DEF Current

\* What was answered stays answered while the position and the filling order stay.
LEMMA AnswerKept ==
    ASSUME InTurn, CalmNext, AnswerOK, KeepsPosition,
           \A m \in Current' : Answered(m) => \E n \in Current : Answered(n) /\ n.pid = m.pid,
           \A n \in Current : Answered(n) /\ offers[n.pid].kind = "ResizePosition" =>
                posA'.state = posA.state /\ orderA'[offers[n.pid].order] = orderA[offers[n.pid].order]
    PROVE  AnswerOK'
<1>1. SUFFICES ASSUME NEW m \in Current', Answered(m) PROVE Answer(m.pid)'
  BY DEF AnswerOK, Current
<1>2. PICK n \in Current : Answered(n) /\ n.pid = m.pid
  BY <1>1
<1>3. PICK p : p = n.pid
  OBVIOUS
<1>4. /\ p \in Protocols /\ offers[p].kind \in Kinds /\ offers[p] # NoOffer /\ Answer(p)
      /\ offers[p].kind # "Rollover" => offers[p].order \in Orders
  BY <1>2, <1>3, CurrentNotFailed DEF AnswerOK, Current
<1>5. offers'[p] = offers[p]
  BY <1>4, MadeKept DEF InTurn
<1>6. offers[p].kind = "ResizePosition" => orderC'[offers[p].order].closes = orderC[offers[p].order].closes
  BY <1>4, OrderPostedOf, ClosesKept DEF InTurn
<1>7. offers[p].kind = "ResizePosition" =>
        posA'.state = posA.state /\ orderA'[offers[p].order] = orderA[offers[p].order]
  BY <1>2, <1>3
<1>8. Answer(p)'
  BY <1>4, <1>5, <1>6, <1>7 DEF Answer, Same, KeepsPosition
<1> QED BY <1>2, <1>3, <1>8

\* The position that is shown, while the channel of the app stays as it is.
LEMMA ShownKept ==
    ASSUME InTurn, CalmNext, ShownOK, KeepsPosition, chanA' = chanA,
           inA' = inA \/ inA.type \notin {"Sign", "RenewRevoke", "SettleConfirm"}
    PROVE  ShownOK'
<1>1. chanA.contract # NoProtocol => offers'[chanA.contract] = offers[chanA.contract]
  BY Typed, MadeKept DEF InTurn, Calm, CInv, ChannelsOK, Made, Channels
<1> QED BY <1>1 DEF ShownOK, Same, KeepsPosition

\* At most one order is filling, and it is the only unfinished one.
LEMMA OnlyUnfinished ==
    ASSUME Calm, NEW o \in Orders, orderA[o] = "Filling"
    PROVE  /\ \A u \in Unfinished : u = o
           /\ FillingA = {o}
           /\ \A table \in get_order_in_filling : table = orderA
<1>0. orderA \in [Orders -> AppOrderStates]
  BY DEF Calm, IInv, TypeOK
<1>1. \A u \in Unfinished : u = o
  BY DEF Calm, Orderly, Unfinished
<1>2. FillingA = {o}
  BY <1>1 DEF FillingA, Unfinished
<1>3. ASSUME NEW table \in get_order_in_filling PROVE table = orderA
  <2>1. PICK kept \in {o} : table = [u \in Orders |-> IF u \in FillingA \ {kept} THEN "FailedWithPrice" ELSE orderA[u]]
    BY <1>2 DEF get_order_in_filling
  <2>2. FillingA \ {kept} = {}
    BY <1>2
  <2> QED BY <1>0, <2>1, <2>2
<1> QED BY <1>1, <1>2, <1>3

\* What the app promised and shows, with everything it rests on.
Mirrors == InTurn /\ ProposalsOK /\ PriceOK /\ AnswerOK /\ ShownOK

\* An order that is filling is the order of no other answered resize.
LEMMA FillingOrder ==
    ASSUME InTurn, AnswerOK, NEW n \in Current, Answered(n), offers[n.pid].kind = "ResizePosition"
    PROVE  LET o == offers[n.pid].order IN
           /\ o \in Orders /\ orderA[o] = "Filling" /\ orderC[o].closes # posA.size
           /\ \A u \in Unfinished : u = o
           /\ o \notin tradeErrors
           /\ \A table \in get_order_in_filling : table = orderA
<1> DEFINE o == offers[n.pid].order
<1>1. o \in Orders /\ n.pid \in Protocols /\ protocols[n.pid] # "Failed"
  BY CurrentNotFailed
<1>2. Answer(n.pid)
  BY DEF AnswerOK, Current
<1>3. orderA[o] = "Filling" /\ orderC[o].closes # posA.size
  BY <1>2 DEF Answer
<1>4. o \notin tradeErrors
  BY <1>1 DEF InTurn, OutcomesOK
<1> QED BY <1>1, <1>3, <1>4, OnlyUnfinished DEF InTurn

\* A task that has made no offer yet changes no order that is filling.
LEMMA TakesMirror ==
    ASSUME Mirrors, CalmNext, NEW p \in Protocols, Takes(p)
    PROVE  AnswerOK' /\ ShownOK'
<1> USE DEF coordinatorVars, appVars, netVars, boundVars
<1>0. orderA \in [Orders -> AppOrderStates]
  BY DEF Mirrors, InTurn, Calm, IInv, TypeOK
<1>1. ASSUME NEW u \in Orders, orderA[u] = "Filling" PROVE orderA'[u] = orderA[u]
  <2>1. CASE NewOrder(p)
    BY <1>0, <1>1, <2>1 DEF NewOrder, SubmitOrder, CloseByCoordinator, CanSubmit
  <2>2. CASE CheckOrder(p) \/ MatchOrder(p) \/ NoMatch(p)
    BY <2>2 DEF CheckOrder, MatchOrder, NoMatch
  <2>3. CASE BeginTrade(p) \/ BeginRollover(p)
    BY <2>3 DEF BeginTrade, BeginRollover
  <2>4. CASE BeginTradeFails(p) \/ ProposeFails(p) \/ ProposeRolloverFails(p)
    BY <2>4 DEF BeginTradeFails, ProposeFails, ProposeRolloverFails, FailTrade
  <2> QED BY <2>1, <2>2, <2>3, <2>4 DEF Takes
<1>2. UNCHANGED <<posA, inA, inC, netCA, netAC, chanA>>
  BY TakesFrame
<1>3. KeepsPosition /\ Current' = Current
  BY <1>2 DEF KeepsPosition, Current, Underway
<1>4. \A n \in Current : Answered(n) /\ offers[n.pid].kind = "ResizePosition" =>
            posA'.state = posA.state /\ orderA'[offers[n.pid].order] = orderA[offers[n.pid].order]
  BY <1>1, <1>2, FillingOrder DEF Mirrors
<1>5. AnswerOK'
  BY <1>3, <1>4, AnswerKept DEF Mirrors
<1> QED BY <1>2, <1>3, <1>5, ShownKept DEF Mirrors

\* A task that makes its offer, and sends it.
LEMMA ProtocolMirror ==
    ASSUME Mirrors, CalmNext, NEW p \in Protocols,
           Propose(p) \/ StartProtocol(p) \/ UpdatePosition(p) \/ FinishTask(p)
    PROVE  AnswerOK' /\ ShownOK'
<1> USE DEF coordinatorVars, appVars, netVars, boundVars
<1>0. IInv
  BY DEF Mirrors, InTurn, Calm
<1>1. UNCHANGED <<inC, inA, chanA, posA, orderA, netAC>>
  BY <1>0, ProtocolTask
<1>2. KeepsPosition
  BY <1>1 DEF KeepsPosition
<1>3. \A m \in On(netCA') : m \in On(netCA) \/ ~ Answered(m)
  <2>1. CASE Propose(p) \/ StartProtocol(p) \/ UpdatePosition(p)
    BY <2>1 DEF Propose, StartProtocol, UpdatePosition
  <2>2. CASE FinishTask(p)
    <3>1. task[p].pc = "finish" /\ SendLastC(lastOutC)
      BY <2>2 DEF FinishTask
    <3>2. lastOutC.type = OfferType(offers[p].kind)
      BY <3>1 DEF Mirrors, InTurn, OutboxOK, Unsent, Msg
    <3>3. ~ Answered(lastOutC)
      BY <3>2 DEF Answered, OfferType, OfferTypes
    <3>4. On(netCA') \subseteq On(netCA) \union {lastOutC}
      BY <1>0, <3>1, Typed, OnResend DEF SendLastC
    <3> QED BY <3>3, <3>4
  <2> QED BY <2>1, <2>2
<1>4. \A m \in Current' : Answered(m) => m \in Current
  BY <1>1, <1>3 DEF Current, Underway
<1>5. AnswerOK'
  BY <1>1, <1>2, <1>4, AnswerKept DEF Mirrors
<1> QED BY <1>1, <1>2, <1>5, ShownKept DEF Mirrors

\* The coordinator handles a message and replies to it.
LEMMA CoordinatorMirror ==
    ASSUME Mirrors, CalmNext, HandlerC \/ \E o \in Orders : GiveUp(o)
    PROVE  AnswerOK' /\ ShownOK'
<1> USE DEF coordinatorVars, appVars, netVars, boundVars
<1>0. IInv /\ Calm /\ OwnersOK /\ DirectionsOK /\ TurnsOK /\ OutcomesOK /\ OutboxOK /\ ~ RefuseC
  BY OutcomeMoves DEF Mirrors, InTurn, Calm
<1>1. CASE \E o \in Orders : GiveUp(o)
  <2>1. UNCHANGED <<inC, inA, chanA, posA, orderA, netAC, netCA>>
    BY <1>1 DEF GiveUp
  <2>2. KeepsPosition /\ Current' = Current
    BY <2>1 DEF KeepsPosition, Current, Underway
  <2>3. AnswerOK'
    BY <2>1, <2>2, AnswerKept DEF Mirrors
  <2> QED BY <2>1, <2>2, <2>3, ShownKept DEF Mirrors
<1>2. CASE HandlerC
  <2>1. MailFromC
    BY <1>0, <1>2, HandlerCMail
  <2>2. UNCHANGED <<inA, chanA, posA, orderA>> /\ KeepsPosition
    BY <2>1 DEF MailFromC, KeepsPosition
  <2>3. \A m \in On(netCA') : m \in On(netCA) \/ (Answered(inC) /\ inC.pid = m.pid)
    <3>1. CASE CompleteC /\ Coordinator(inC.type)[3] # "None"
      <4>1. inC.type \in AcceptTypes \union {"RenewFinalize"}
        BY <3>1 DEF Coordinator, AcceptTypes
      <4>2. lastOutC.pid = inC.pid /\ Answered(inC)
        BY <1>0, <4>1 DEF OutboxOK, Msg, Answered, AcceptTypes, OfferTypes
      <4> QED BY <2>1, <4>2 DEF MailFromC
    <3>2. CASE CompleteC /\ Coordinator(inC.type)[3] = "None"
      BY <3>2 DEF CompleteC
    <3>3. CASE SkipC \/ ReceiveC
      BY <3>3 DEF SkipC, ReceiveC
    <3>4. CASE CompleteCFails \/ CompleteReject
      BY <3>4 DEF CompleteCFails, CompleteReject
    <3> QED BY <1>0, <1>2, <3>1, <3>2, <3>3, <3>4 DEF HandlerC
  <2>4. \A m \in Current' : Answered(m) => \E n \in Current : Answered(n) /\ n.pid = m.pid
    BY <2>1, <2>2, <2>3, Nothing DEF MailFromC, Current, Underway, Answered
  <2>5. AnswerOK'
    BY <2>2, <2>4, AnswerKept DEF Mirrors
  <2> QED BY <2>2, <2>5, ShownKept DEF Mirrors
<1> QED BY <1>1, <1>2

\* The trader's orders: none of them disturbs a resize that was answered.
LEMMA ShowsMirror ==
    ASSUME Mirrors, CalmNext, Shows
    PROVE  AnswerOK' /\ ShownOK'
<1> USE DEF coordinatorVars, appVars, netVars, boundVars
<1>0. IInv /\ InTurn /\ AnswerOK /\ ShownOK /\ orderA \in [Orders -> AppOrderStates] /\ NoOrder \notin Orders
  BY OrdersAssumption DEF Mirrors, InTurn, Calm, IInv, TypeOK
<1>1. UNCHANGED <<inC, inA, chanA, netCA, netAC>>
  BY DEF Shows, OrderPosted, SubmitRefused, OnTradeError, CheckOpenOrders, Tick
<1>2. Current' = Current
  BY <1>1 DEF Current, Underway
<1> DEFINE Keeps == KeepsPosition /\
          \A n \in Current : Answered(n) /\ offers[n.pid].kind = "ResizePosition" =>
            posA'.state = posA.state /\ orderA'[offers[n.pid].order] = orderA[offers[n.pid].order]
<1>3. ASSUME NEW o \in TraderOrders, OrderPosted(o) PROVE Keeps
  <2>1. /\ posA' = posA \/ posA' = PosAInState("Closing")
        /\ orderC[o].closes # posA.size => posA' = posA
        /\ o \in Unfinished /\ orderA' = orderA
    BY <1>3 DEF OrderPosted, Unfinished
  <2>2. KeepsPosition
    BY <1>0, <2>1, PositionInState
  <2> QED BY <1>0, <2>1, <2>2, FillingOrder
<1>4. ASSUME SubmitRefused PROVE Keeps
  <2>1. orderA' \in get_order_in_filling /\ posA' = posA
    BY <1>4 DEF SubmitRefused
  <2> QED BY <1>0, <2>1, FillingOrder DEF KeepsPosition
<1>5. ASSUME Tick PROVE Keeps
  BY <1>5 DEF Tick, KeepsPosition
<1>6. ASSUME NEW o \in Orders, OnTradeError(o) PROVE Keeps
  <2>1. o \in tradeErrors /\ (posA' = posA \/ posA' = PosAInState("Open"))
    BY <1>6 DEF OnTradeError, order_failed
  <2>2. KeepsPosition
    BY <1>0, <2>1, PositionInState
  <2>3. o \in Unfinished
    BY <2>1 DEF Unfinished
  <2> QED BY <1>0, <2>1, <2>2, <2>3, FillingOrder
<1>7. ASSUME NEW o \in Orders, CheckOpenOrders(o) PROVE Keeps
  <2>1. orderA[o] = "Open" /\ posA' = PosAInState("Open")
    BY <1>7 DEF CheckOpenOrders, order_failed
  <2>2. KeepsPosition
    BY <1>0, <2>1, PositionInState
  <2>3. o \in Unfinished
    BY <2>1 DEF Unfinished
  <2> QED BY <1>0, <2>1, <2>2, <2>3, FillingOrder
<1>8. Keeps
  BY <1>3, <1>4, <1>5, <1>6, <1>7 DEF Shows
<1>9. AnswerOK'
  BY <1>0, <1>2, <1>8, AnswerKept
<1> QED BY <1>0, <1>1, <1>8, <1>9, ShownKept

\* While the app handles a message nothing else was answered.
LEMMA AppHandles ==
    ASSUME InTurn, inA # NoMessage
    PROVE  /\ netAC = <<>> /\ inC = NoMessage /\ (Asks(inA) => netCA = <<>>)
           /\ \A m \in On(netCA) : ~ Answered(m)
BY DEF InTurn, TurnsOK, Answered

\* A message of rejection, or none, is not an answer.
LEMMA NoAnswer ==
    ASSUME NEW m, m.type \in {"Reject", "None"}
    PROVE  ~ Answered(m)
BY DEF Answered

\* When nothing was answered there is nothing to keep.
LEMMA NoneAnswered ==
    ASSUME netCA' = <<>>, \A m \in On(netAC') : ~ Answered(m), inA' = NoMessage, inC' = NoMessage
    PROVE  AnswerOK'
<1>1. On(<<>>) = {} /\ ~ Answered(NoMessage)
  BY NoAnswer, Nothing DEF On
<1>2. \A m \in (Underway \union {inC})' : ~ Answered(m)
  BY <1>1 DEF Underway
<1> QED BY <1>2 DEF AnswerOK

\* The rejection is all that is sent.
LEMMA RejectSent ==
    ASSUME netAC = <<>>, NEW p \in Protocols, SendReject(p), clock \in Nat
    PROVE  \A m \in On(netAC') : ~ Answered(m)
<1>1. PICK s \in Nat : SendLastA([type |-> "Reject", pid |-> p, ts |-> s])
  BY DEF SendReject
<1>2. [type |-> "Reject", pid |-> p, ts |-> s] \in Messages
  BY DEF Messages, MessageTypes
<1>3. [type |-> "Reject", pid |-> p, ts |-> s] # NoMessage
  BY DEF NoMessage
<1>4. \/ netAC' = <<>>
      \/ netAC' = Append(<<>>, [type |-> "Reject", pid |-> p, ts |-> s])
  BY <1>1, <1>3 DEF SendLastA, Resend
<1>5. \A m \in On(netAC') : m.type = "Reject"
  BY <1>2, <1>4, SingleMessage DEF On
<1> QED BY <1>5, NoAnswer

\* The app takes a message from its inbox.
LEMMA ReceiveMirror ==
    ASSUME Mirrors, CalmNext, ReceiveA \/ SkipA \/ RefuseA
    PROVE  AnswerOK' /\ ShownOK'
<1> USE DEF coordinatorVars, appVars, netVars, boundVars
<1>0. /\ IInv /\ InTurn /\ AnswerOK /\ ShownOK /\ netCA \in Seq(Messages) /\ chanA \in Channels
      /\ Sound(chanA)
  BY Typed DEF Mirrors, InTurn, Calm, CInv, ChannelsOK
<1>1. /\ inA = NoMessage /\ netCA # <<>> /\ netCA' = Tail(netCA)
      /\ UNCHANGED <<posA, orderA, netAC, inC, offers>>
      /\ inA' = inA \/ inA' = Head(netCA)
  BY DEF ReceiveA, SkipA, RefuseA
<1>2. On(netCA') \subseteq On(netCA) /\ Head(netCA) \in On(netCA) /\ Head(netCA) \in Messages
  BY <1>0, <1>1, QueueHead
<1>3. KeepsPosition /\ \A m \in Current' : m \in Current
  BY <1>1, <1>2 DEF KeepsPosition, Current, Underway
<1>4. AnswerOK'
  BY <1>0, <1>1, <1>3, AnswerKept
<1>5. CASE SkipA \/ RefuseA
  <2>1. chanA' = chanA /\ inA' = inA
    BY <1>5 DEF SkipA, RefuseA
  <2> QED BY <1>0, <1>3, <1>4, <2>1, ShownKept
<1>6. CASE ReceiveA
  <2>1. PICK m \in Messages :
            /\ m = Head(netCA) /\ inA' = m
            /\ \/ m.type \in OfferTypes /\ CanReceive(m.type) /\ chanA' = ReceivedChannel(m)
               \/ m.type \notin OfferTypes /\ Expects(chanA, m, App(m.type))
                  /\ chanA' = Advance(chanA, m, App(m.type))
    BY <1>2, <1>6 DEF ReceiveA
  <2>2. inA.type = "None" /\ UNCHANGED <<posA, offers>>
    BY <1>1, Nothing
  <2>3. CASE m.type = "Offer"
    <3>1. chanA.state \in {"None", "Cancelled"} /\ chanA'.state = "Offered" /\ chanA'.contract = NoProtocol
      BY <2>1, <2>3 DEF OfferTypes, CanReceive, ReceivedChannel, InChannel
    <3>2. posA.state = "None"
      BY <1>0, <2>2, <3>1 DEF Sound, ShownOK
    <3>3. ShownOK'
      BY <2>2, <3>1, <3>2 DEF ShownOK
    <3> QED BY <1>4, <3>3
  <2>4. CASE m.type = "SettleOffer"
    <3>1. /\ chanA.state = "Established" /\ chanA'.state = "SettledReceived"
          /\ chanA'.contract = chanA.contract
      BY <2>1, <2>4 DEF OfferTypes, CanReceive, ReceivedChannel, InChannel
    <3>2. ShownOK'
      BY <1>0, <2>2, <3>1 DEF ShownOK, Same
    <3> QED BY <1>4, <3>2
  <2>5. CASE m.type = "RenewOffer"
    <3>1. /\ chanA.state \in {"Established", "Settled"} /\ chanA'.state = "RenewOffered"
          /\ chanA'.contract = chanA.contract
      BY <2>1, <2>5 DEF OfferTypes, CanReceive, ReceivedChannel, InChannel
    <3>2. chanA.contract = NoProtocol <=> chanA.state = "Settled"
      BY <1>0, <3>1, ProtocolsAssumption DEF Sound
    <3>3. ShownOK'
      BY <1>0, <2>2, <3>1, <3>2 DEF ShownOK, Same
    <3> QED BY <1>4, <3>3
  <2>6. CASE m.type \notin OfferTypes
    <3>1. /\ chanA'.state = App(m.type)[2] /\ chanA.state = App(m.type)[1]
          /\ App(m.type)[2] = "Established" => chanA'.contract \in Protocols
      BY <1>0, <2>1, <2>6 DEF Advance, Expects, Channels, Messages
    <3>2. \/ m.type \in {"Sign", "RenewRevoke"} /\ chanA'.state = "Established"
          \/ m.type = "SettleConfirm" /\ chanA'.state = "Settled"
          \/ m.type = "RenewConfirm" /\ chanA'.state = "RenewFinalized"
      BY <1>0, <3>1 DEF App, Channels, ChannelStates
    <3>3. ShownOK'
      <4>1. CASE m.type \in {"Sign", "RenewRevoke"} /\ chanA'.state = "Established"
        BY <2>1, <4>1 DEF ShownOK
      <4>2. CASE m.type = "SettleConfirm" /\ chanA'.state = "Settled"
        BY <2>1, <4>2 DEF ShownOK
      <4>3. CASE m.type = "RenewConfirm" /\ chanA'.state = "RenewFinalized"
        BY <2>1, <4>3 DEF ShownOK
      <4> QED BY <3>2, <4>1, <4>2, <4>3
    <3> QED BY <1>4, <3>3
  <2> QED BY <2>3, <2>4, <2>5, <2>6 DEF OfferTypes
<1> QED BY <1>5, <1>6

\* The app turns an offer down.
LEMMA TurnDownMirror ==
    ASSUME Mirrors, CalmNext, ForceRejectOffer \/ RejectOffer \/ AcceptUnanswered \/ StaleOffer
    PROVE  AnswerOK' /\ ShownOK'
<1> USE DEF coordinatorVars, appVars, netVars, boundVars
<1>0. /\ IInv /\ InTurn /\ AnswerOK /\ ShownOK /\ netCA \in Seq(Messages) /\ chanA \in Channels
      /\ Sound(chanA) /\ clock \in Nat /\ TurnsOK /\ inA \in MaybeMessage
  BY Typed DEF Mirrors, InTurn, Calm, CInv, ChannelsOK, IInv, TypeOK
<1>1. CASE ForceRejectOffer
  <2>1. /\ inA = NoMessage /\ netCA # <<>> /\ Head(netCA).type \in OfferTypes /\ netCA' = Tail(netCA)
        /\ SendReject(Head(netCA).pid) /\ UNCHANGED <<chanA, inA, inC>> /\ posA' = PosAInState("Open")
    BY <1>1 DEF ForceRejectOffer, order_failed
  <2>2. Asks(Head(netCA)) /\ Head(netCA) \in Messages
    BY <1>0, <2>1, QueueHead DEF Asks, OfferTypes
  <2>3. netCA' = <<>> /\ netAC = <<>> /\ inC = NoMessage /\ Head(netCA).pid \in Protocols
    BY <1>0, <2>1, <2>2, LineTail DEF TurnsOK, Messages
  <2>4. \A m \in On(netAC') : ~ Answered(m)
    BY <1>0, <2>1, <2>3, RejectSent
  <2>5. AnswerOK'
    BY <2>1, <2>3, <2>4, NoneAnswered
  <2>6. KeepsPosition
    BY <1>0, <2>1, PositionInState
  <2> QED BY <1>0, <2>1, <2>5, <2>6, ShownKept
<1>2. ASSUME inA.type \in OfferTypes
      PROVE  /\ netCA = <<>> /\ netAC = <<>> /\ inC = NoMessage /\ inA.pid \in Protocols
             /\ inA.type \notin {"Sign", "RenewRevoke", "SettleConfirm"}
  <2>1. inA # NoMessage /\ Asks(inA)
    BY <1>2, Nothing DEF Asks, OfferTypes
  <2> QED BY <1>0, <1>2, <2>1, AppHandles DEF MaybeMessage, Messages, OfferTypes
<1>3. CASE RejectOffer
  <2>1. /\ inA.type \in OfferTypes /\ chanA.state = Acceptance(inA.type)[1] /\ SendReject(inA.pid)
        /\ chanA' = RollBack(chanA) /\ inA' = NoMessage /\ UNCHANGED <<netCA, inC, offers>>
        /\ posA' = posA \/ posA' = PosAInState("Open")
    BY <1>3 DEF RejectOffer, Pending, DoneA
  <2>2. \A m \in On(netAC') : ~ Answered(m)
    BY <1>0, <1>2, <2>1, RejectSent
  <2>3. AnswerOK'
    BY <1>2, <2>1, <2>2, NoneAnswered
  <2>4. KeepsPosition
    BY <1>0, <2>1, PositionInState
  <2>5. chanA'.state = chanA.back /\ chanA'.contract = chanA.contract
    BY <1>0, <2>1 DEF RollBack, Channels
  <2>6. chanA.state \in {"Offered", "SettledReceived", "RenewOffered"}
    BY <2>1 DEF Acceptance, OfferTypes
  <2>7. \/ chanA'.state \in {"Cancelled", "Settled"} /\ chanA.contract = NoProtocol
           /\ chanA.state \in {"Offered", "RenewOffered"}
        \/ chanA'.state = "Established" /\ chanA.contract # NoProtocol
           /\ chanA.state \in {"SettledReceived", "RenewOffered"}
    BY <1>0, <2>5, <2>6, ProtocolsAssumption DEF Sound
  <2>8. ShownOK'
    BY <1>0, <1>2, <2>1, <2>4, <2>5, <2>7 DEF ShownOK, Same, KeepsPosition
  <2> QED BY <2>3, <2>8
<1>4. CASE AcceptUnanswered
  <2>1. /\ inA.type \in OfferTypes /\ inA' = NoMessage /\ UNCHANGED <<netCA, netAC, inC, posA>>
        /\ \/ chanA' = chanA
           \/ inA.type # "Offer" /\ chanA' = [chanA EXCEPT !.state = Acceptance(inA.type)[2]]
    BY <1>4 DEF AcceptUnanswered, Pending, DoneA
  <2>2. AnswerOK'
    BY <1>2, <2>1, NoneAnswered DEF On
  <2>3. CASE chanA' = chanA
    BY <1>0, <1>2, <2>1, <2>2, <2>3, ShownKept DEF KeepsPosition
  <2>4. CASE inA.type # "Offer" /\ chanA' = [chanA EXCEPT !.state = Acceptance(inA.type)[2]]
    <3>1. chanA'.state \in {"SettledAccepted", "RenewAccepted"}
      BY <1>0, <2>1, <2>4 DEF Acceptance, OfferTypes, Channels
    <3>2. ShownOK'
      BY <3>1 DEF ShownOK
    <3> QED BY <2>2, <3>2
  <2> QED BY <2>1, <2>3, <2>4
<1>5. CASE StaleOffer
  <2>1. /\ inA.type \in OfferTypes /\ inA' = NoMessage /\ UNCHANGED <<netCA, netAC, inC, posA, chanA>>
    BY <1>5 DEF StaleOffer, DoneA
  <2>2. AnswerOK'
    BY <1>2, <2>1, NoneAnswered DEF On
  <2> QED BY <1>0, <1>2, <2>1, <2>2, ShownKept DEF KeepsPosition
<1> QED BY <1>1, <1>3, <1>4, <1>5

\* The offer that the app answers, and what the two channels say about it.
LEMMA OfferAtHand ==
    ASSUME Mirrors, Pending
    PROVE  /\ inA.pid \in Protocols /\ offers[inA.pid].kind \in Kinds /\ Belongs(offers, inA)
           /\ netCA = <<>> /\ netAC = <<>> /\ inC = NoMessage /\ Waits(chanC, inA)
           /\ offers[inA.pid].kind # "Rollover" => offers[inA.pid].order \in Orders
           /\ inA.type = "Offer" => offers[inA.pid].kind = "OpenChannel" /\ posA.state = "None"
           /\ inA.type = "SettleOffer" => offers[inA.pid].kind = "Settle"
           /\ inA.type = "RenewOffer" =>
                /\ offers[inA.pid].kind \in RenewKinds
                /\ offers[inA.pid].kind = "OpenPosition" => posA.state = "None"
                /\ offers[inA.pid].kind # "OpenPosition" => posA.state # "None"
                /\ offers[inA.pid].kind = "ResizePosition" => orderC[offers[inA.pid].order].closes # posA.size
                /\ offers[inA.pid].kind = "Rollover" => posA.size = offers[inA.pid].size
<1>0. /\ Calm /\ InTurn /\ ShownOK /\ Sound(chanA) /\ Agreed(chanC, chanA) /\ OfferedOK /\ TurnsOK
      /\ DirectionsOK /\ inA.type \in OfferTypes /\ chanA.state = Acceptance(inA.type)[1]
  BY DEF Mirrors, InTurn, Calm, CInv, ChannelsOK, AgreementOK, ProposalsOK, Pending
<1>1. inA # NoMessage /\ Asks(inA) /\ inA.type # "None" /\ inA \in Underway /\ inA \in Mail
  BY <1>0, Nothing DEF Asks, OfferTypes, Underway, Mail
<1>2. /\ Belongs(offers, inA) /\ inA.pid \in Protocols /\ offers[inA.pid].kind \in Kinds
      /\ offers[inA.pid].kind # "Rollover" => offers[inA.pid].order \in Orders
  BY <1>0, <1>1, MailBelongs
<1>3. netCA = <<>> /\ netAC = <<>> /\ inC = NoMessage /\ Waits(chanC, inA)
  BY <1>0, <1>1, AppHandles DEF TurnsOK
<1>4. inA.type = "Offer" => offers[inA.pid].kind = "OpenChannel" /\ posA.state = "None"
  <2>1. SUFFICES ASSUME inA.type = "Offer" PROVE offers[inA.pid].kind = "OpenChannel" /\ posA.state = "None"
    OBVIOUS
  <2>2. chanA.state = "Offered" /\ chanA.contract = NoProtocol
    BY <1>0, <2>1 DEF Acceptance, Sound
  <2>3. posA.state = "None"
    BY <1>0, <2>1, <2>2 DEF ShownOK
  <2> QED BY <1>2, <2>1, <2>3 DEF Belongs, TypesOf, Kinds, OpenKinds, RenewKinds
<1>5. inA.type = "SettleOffer" => offers[inA.pid].kind = "Settle"
  BY <1>2 DEF Belongs, TypesOf, Kinds, OpenKinds, RenewKinds
<1>6. ASSUME inA.type = "RenewOffer"
      PROVE  /\ offers[inA.pid].kind \in RenewKinds
             /\ offers[inA.pid].kind = "OpenPosition" => posA.state = "None"
             /\ offers[inA.pid].kind # "OpenPosition" => posA.state # "None"
             /\ offers[inA.pid].kind = "ResizePosition" => orderC[offers[inA.pid].order].closes # posA.size
             /\ offers[inA.pid].kind = "Rollover" => posA.size = offers[inA.pid].size
  <2>1. chanA.state = "RenewOffered" /\ chanC.state = "RenewOffered" /\ chanC.ref = inA.pid
    BY <1>0, <1>3, <1>6 DEF Acceptance, Waits
  <2>2. chanA.contract = chanC.contract
    BY <1>0, <2>1 DEF Agreed
  <2>3. offers[inA.pid].kind \in RenewKinds
    BY <1>2, <1>6 DEF Belongs, TypesOf, Kinds, OpenKinds, RenewKinds
  <2>4. /\ offers[inA.pid].kind = "OpenPosition" <=> chanA.contract = NoProtocol
        /\ offers[inA.pid].kind = "ResizePosition" =>
                orderC[offers[inA.pid].order].closes # offers[chanA.contract].size
        /\ offers[inA.pid].kind = "Rollover" => offers[inA.pid].size = offers[chanA.contract].size
    BY <1>0, <2>1, <2>2 DEF OfferedOK, SizeInForce
  <2>5. /\ chanA.contract = NoProtocol => posA.state = "None"
        /\ chanA.contract # NoProtocol => posA.state # "None" /\ posA.size = offers[chanA.contract].size
    BY <1>0, <1>6, <2>1 DEF ShownOK, Same
  <2> QED BY <2>3, <2>4, <2>5
<1> QED BY <1>2, <1>3, <1>4, <1>5, <1>6

\* The app accepts an offer.
LEMMA AcceptMirror ==
    ASSUME Mirrors, CalmNext, AcceptOffer
    PROVE  AnswerOK' /\ ShownOK'
<1> USE DEF coordinatorVars, appVars, netVars, boundVars
<1>0. /\ IInv /\ chanA \in Channels /\ orderA \in [Orders -> AppOrderStates] /\ posA \in PositionRows
  BY DEF Mirrors, InTurn, Calm, IInv, TypeOK
<1>1. /\ Pending /\ inA' = NoMessage /\ UNCHANGED <<netCA, inC, offers, orderC>> /\ inA.type \in OfferTypes
      /\ chanA' = [chanA EXCEPT !.state = Acceptance(inA.type)[2]]
      /\ SendLastA(Msg(Acceptance(inA.type)[3], inA.pid))
      /\ IsRollover(inA.pid) => posA' = RollingPosition(inA.pid) /\ posA.state # "None"
      /\ ~ IsRollover(inA.pid) =>
            /\ orderA' = [orderA EXCEPT ![OrderOf(inA.pid)] = "Filling"]
            /\ posA' = IF inA.type = "RenewOffer" THEN PosAInState("Resizing") ELSE posA
  BY DEF AcceptOffer, Pending, DoneA, Answerable
<1>2. PICK p \in Protocols : p = inA.pid
  BY <1>1, OfferAtHand
<1>3. chanA'.state \in {"Accepted", "SettledAccepted", "RenewAccepted"}
  BY <1>0, <1>1 DEF Acceptance, OfferTypes, Channels
<1>4. ShownOK'
  BY <1>3 DEF ShownOK
<1>5. Answer(p)'
  <2>1. /\ netCA = <<>> /\ netAC = <<>> /\ inC = NoMessage
        /\ offers[p].kind # "Rollover" => offers[p].order \in Orders
        /\ inA.type = "Offer" => offers[p].kind = "OpenChannel" /\ posA.state = "None"
        /\ inA.type = "SettleOffer" => offers[p].kind = "Settle"
        /\ inA.type = "RenewOffer" =>
             /\ offers[p].kind \in RenewKinds
             /\ offers[p].kind = "OpenPosition" => posA.state = "None"
             /\ offers[p].kind # "OpenPosition" => posA.state # "None"
             /\ offers[p].kind = "ResizePosition" => orderC[offers[p].order].closes # posA.size
             /\ offers[p].kind = "Rollover" => posA.size = offers[p].size
    BY <1>1, <1>2, OfferAtHand
  <2>2. CASE inA.type = "Offer"
    <3>1. posA' = posA
      BY <1>1, <1>2, <2>1, <2>2 DEF IsRollover
    <3> QED BY <1>1, <2>1, <2>2, <3>1 DEF Answer, OpenKinds
  <2>3. CASE inA.type = "SettleOffer"
    BY <1>1, <2>1, <2>3 DEF Answer, OpenKinds
  <2>4. CASE inA.type = "RenewOffer" /\ offers[p].kind = "Rollover"
    <3>1. posA'.state = "Rollover" /\ posA'.size = posA.size /\ posA'.expiry = offers[p].expiry
      BY <1>0, <1>1, <1>2, <2>4 DEF IsRollover, RollingPosition, PositionRows
    <3> QED BY <1>1, <2>1, <2>4, <3>1 DEF Answer, Same, OpenKinds
  <2>5. CASE inA.type = "RenewOffer" /\ offers[p].kind = "OpenPosition"
    <3>1. posA'.state = "None"
      BY <1>0, <1>1, <1>2, <2>1, <2>5 DEF IsRollover, PosAInState
    <3> QED BY <1>1, <2>5, <3>1 DEF Answer, OpenKinds
  <2>6. CASE inA.type = "RenewOffer" /\ offers[p].kind = "ResizePosition"
    <3>1. posA'.state = "Resizing" /\ posA'.size = posA.size
      BY <1>0, <1>1, <1>2, <2>1, <2>6 DEF IsRollover, PosAInState, PositionRows
    <3>2. orderA'[offers[p].order] = "Filling"
      BY <1>0, <1>1, <1>2, <2>1, <2>6 DEF IsRollover, OrderOf
    <3> QED BY <1>1, <2>1, <2>6, <3>1, <3>2 DEF Answer, OpenKinds
  <2> QED BY <1>1, <2>1, <2>2, <2>3, <2>4, <2>5, <2>6 DEF OfferTypes, RenewKinds
<1>6. \A m \in On(netAC') : m.pid = p
  <2>1. PICK r : r = Msg(Acceptance(inA.type)[3], inA.pid)
    OBVIOUS
  <2>2. r \in Messages /\ r.pid = p
    BY <1>1, <1>2, <2>1 DEF Msg, Messages, MessageTypes, Acceptance, OfferTypes, AcceptTypes
  <2>3. netAC' = <<>> \/ netAC' = Append(<<>>, r)
    BY <1>1, <2>1, OfferAtHand DEF SendLastA, Resend
  <2> QED BY <2>2, <2>3, SingleMessage DEF On
<1>7. \A m \in (Underway \union {inC})' : Answered(m) => m.pid = p
  <2>1. netCA' = <<>> /\ inC' = NoMessage /\ inA' = NoMessage
    BY <1>1, OfferAtHand
  <2>2. ~ Answered(NoMessage)
    BY NoAnswer, Nothing
  <2> QED BY <1>6, <2>1, <2>2 DEF Underway, On
<1>8. AnswerOK'
  BY <1>5, <1>7 DEF AnswerOK
<1> QED BY <1>4, <1>8

\* The app completes a protocol.
LEMMA CompleteMirror ==
    ASSUME Mirrors, CalmNext,
           CompleteOpenA \/ CompleteRolloverA \/ CompleteSettleA \/ CompleteRenewConfirmA
    PROVE  AnswerOK' /\ ShownOK'
<1> USE DEF coordinatorVars, appVars, netVars, boundVars
<1>0. /\ IInv /\ InTurn /\ AnswerOK /\ ShownOK /\ PriceOK /\ HalfwayOK /\ OutboxOK /\ ProposalsOK
      /\ Sound(chanA) /\ lastOutA \in MaybeMessage
  BY Typed DEF Mirrors, InTurn, Calm, CInv, ChannelsOK
<1>1. /\ inA.type \in {"Sign", "RenewRevoke", "SettleConfirm", "RenewConfirm"}
      /\ inA' = NoMessage /\ UNCHANGED <<inC, chanA, offers, netCA>>
  BY DEF CompleteOpenA, CompleteRolloverA, CompleteSettleA, CompleteRenewConfirmA, DoneA
<1>2. /\ inA # NoMessage /\ Answered(inA) /\ inA \in Current /\ inA \in Mail
  BY <1>1, Nothing DEF Answered, OfferTypes, Current, Underway, Mail
<1>3. /\ netAC = <<>> /\ inC = NoMessage /\ (Asks(inA) => netCA = <<>>) /\ \A m \in On(netCA) : ~ Answered(m)
  BY <1>0, <1>2, AppHandles
<1>4. PICK p \in Protocols :
        /\ p = inA.pid /\ offers[p].kind \in Kinds /\ offers[p] # NoOffer /\ Belongs(offers, inA)
        /\ Answer(p) /\ (offers[p].kind # "Rollover" => HasPrice(offers[p].order))
  BY <1>0, <1>2, CurrentNotFailed DEF AnswerOK, Current, PriceOK
<1>5. ASSUME netAC' = netAC PROVE AnswerOK'
  <2>1. \A m \in (Underway \union {inC})' : ~ Answered(m)
    <3>1. ~ Answered(NoMessage)
      BY NoAnswer, Nothing
    <3> QED BY <1>1, <1>3, <1>5, <3>1 DEF Underway, On
  <2> QED BY <2>1 DEF AnswerOK
<1>6. CASE CompleteOpenA
  <2>1. /\ inA.type \in {"Sign", "RenewRevoke"} /\ offers[p].kind # "Rollover" /\ netAC' = netAC
        /\ posA' = IF posA.state \in {"None", "Resizing"} /\ HasPrice(offers[p].order)
                   THEN [state |-> "Open", size |-> p, expiry |-> offers[p].expiry] ELSE posA
    BY <1>4, <1>6 DEF CompleteOpenA, IsRollover, OrderOf
  <2>2. offers[p].kind \in OpenKinds \union {"ResizePosition"}
    BY <1>4, <2>1 DEF Belongs, TypesOf, Kinds, OpenKinds, RenewKinds
  <2>3. posA.state \in {"None", "Resizing"} /\ HasPrice(offers[p].order)
    BY <1>4, <2>1, <2>2 DEF Answer
  <2>4. posA'.state = "Open" /\ posA'.size = p /\ posA'.expiry = offers[p].expiry
    BY <2>1, <2>3
  <2>5. offers[p].size = p /\ chanA.state = "Established" /\ chanA.contract = p
    BY <1>0, <1>4, <2>1 DEF ProposalsOK, HalfwayOK
  <2>6. ShownOK'
    BY <1>1, <2>4, <2>5 DEF ShownOK, Same
  <2> QED BY <1>5, <2>1, <2>6
<1>7. CASE CompleteRolloverA
  <2>1. /\ inA.type = "RenewRevoke" /\ offers[p].kind = "Rollover" /\ netAC' = netAC
        /\ posA' = PosAInState("Open")
    BY <1>4, <1>7 DEF CompleteRolloverA, IsRollover
  <2>2. KeepsPosition
    BY <1>0, <2>1, PositionInState
  <2>3. Same(p) /\ chanA.state = "Established" /\ chanA.contract = p
    BY <1>0, <1>4, <2>1 DEF Answer, HalfwayOK
  <2>4. ShownOK'
    BY <1>1, <2>2, <2>3 DEF ShownOK, Same, KeepsPosition
  <2> QED BY <1>5, <2>1, <2>4
<1>8. CASE CompleteSettleA
  <2>1. SendLastA(lastOutA) \/ UNCHANGED netAC
    BY <1>8 DEF CompleteSettleA
  <2>2. inA.type = "SettleConfirm"
    BY <1>8 DEF CompleteSettleA
  <2>3. offers[p].kind = "Settle"
    BY <1>4, <2>2 DEF Belongs, TypesOf, Kinds, OpenKinds, RenewKinds
  <2>4. posA'.state = "None"
    BY <1>4, <1>8, <2>3 DEF CompleteSettleA, OrderOf
  <2>5. chanA.state = "Settled" /\ lastOutA.pid = p
    BY <1>0, <1>4, <2>2 DEF HalfwayOK, OutboxOK, Msg
  <2>6. ShownOK'
    BY <1>1, <2>4, <2>5 DEF ShownOK
  <2>7. On(netAC') \subseteq {lastOutA}
    <3>1. On(Resend(<<>>, lastOutA)) \subseteq {lastOutA}
      BY <1>0, SingleMessage DEF Resend, MaybeMessage, On
    <3> QED BY <1>3, <2>1, <3>1 DEF SendLastA, On
  <2>8. \A m \in (Underway \union {inC})' : Answered(m) => m.pid = p
    <3>1. ~ Answered(NoMessage)
      BY NoAnswer, Nothing
    <3> QED BY <1>1, <1>3, <2>5, <2>7, <3>1 DEF Underway, On
  <2>9. Answer(p)'
    BY <1>1, <2>3 DEF Answer, OpenKinds
  <2>10. AnswerOK'
    BY <2>8, <2>9 DEF AnswerOK
  <2> QED BY <2>6, <2>10
<1>9. CASE CompleteRenewConfirmA
  <2>1. inA.type = "RenewConfirm" /\ SendLastA(lastOutA) /\ UNCHANGED <<orderA, posA>>
    BY <1>9 DEF CompleteRenewConfirmA
  <2>2. lastOutA.pid = p /\ KeepsPosition
    BY <1>0, <1>4, <2>1 DEF OutboxOK, Msg, KeepsPosition
  <2>3. On(netAC') \subseteq {lastOutA}
    <3>1. On(Resend(<<>>, lastOutA)) \subseteq {lastOutA}
      BY <1>0, SingleMessage DEF Resend, MaybeMessage, On
    <3> QED BY <1>3, <2>1, <3>1 DEF SendLastA, On
  <2>4. \A m \in Current' : Answered(m) => m.pid = p
    <3>1. ~ Answered(NoMessage)
      BY NoAnswer, Nothing
    <3> QED BY <1>1, <1>3, <2>2, <2>3, <3>1 DEF Current, Underway, On
  <2>5. AnswerOK'
    BY <1>0, <1>2, <1>4, <2>1, <2>2, <2>4, AnswerKept
  <2> QED BY <1>0, <1>1, <2>1, <2>2, <2>5, ShownKept
<1> QED BY <1>6, <1>7, <1>8, <1>9

\* Every step of orderly trading keeps what the app promised and shows.
LEMMA MirrorNext ==
    ASSUME Mirrors, CalmNext
    PROVE  AnswerOK' /\ ShownOK'
<1>1. HandlerA => AnswerOK' /\ ShownOK'
  BY ReceiveMirror, TurnDownMirror, AcceptMirror, CompleteMirror DEF HandlerA
<1> QED BY <1>1, TakesMirror, ProtocolMirror, CoordinatorMirror, ShowsMirror DEF CalmNext

-----------------------------------------------------------------------------
(* Orderly trading *)

\* Nothing has happened yet.
LEMMA InitM ==
    ASSUME Init
    PROVE  MInv
<1>1. /\ \A p \in Protocols : task[p] = Idle /\ offers[p] = NoOffer
      /\ \A o \in Orders : orderA[o] = "None"
      /\ lastOutC = NoMessage /\ inC = NoMessage /\ lastOutA = NoMessage /\ inA = NoMessage
      /\ netCA = <<>> /\ netAC = <<>> /\ tradeErrors = {} /\ posting = {}
      /\ connected /\ ~ matchCheck /\ posA.state = "None"
      /\ chanC.state = "None" /\ chanC.contract = NoProtocol
      /\ chanA.state = "None" /\ chanA.contract = NoProtocol
      /\ \A i \in Positions : positions[i].state = "None"
  BY DEF Init, InChannel
<1>2. /\ Idle.pc = "idle" /\ Idle.order = NoOrder /\ NoOffer.order = NoOrder /\ NoOrder \notin Orders
      /\ NoMessage.type = "None" /\ On(<<>>) = {}
  BY OrdersAssumption DEF Idle, NoOffer, NoMessage, On
<1>3. Underway = {NoMessage} /\ Unsent = {} /\ Proposing = {} /\ Unfinished = {}
  BY <1>1, <1>2 DEF Underway, Unsent, Proposing, Unfinished
<1>4. Orderly
  BY <1>1, <1>3 DEF Orderly
<1>5. CalmOK /\ OwnersOK
  BY <1>1, <1>2, <1>3 DEF CalmOK, OwnersOK, HasTask
<1>6. DirectionsOK /\ OutboxOK /\ HalfwayOK
  BY <1>1, <1>2, <1>3 DEF DirectionsOK, OutboxOK, HalfwayOK, AcceptTypes
<1>7. TurnsOK /\ OutcomesOK
  <2>1. Line(netCA) /\ ~ Asks(NoMessage) /\ ~ Done(NoMessage)
    BY <1>1, <1>2 DEF Line, Asks, Done
  <2> QED BY <1>1, <1>2, <1>3, <2>1 DEF TurnsOK, OutcomesOK, Awaiting
<1>8. PriceOK /\ AnswerOK
  <2>1. ~ Answered(NoMessage)
    BY <1>2 DEF Answered
  <2> QED BY <1>1, <1>3, <2>1 DEF PriceOK, AnswerOK, Mail
<1>9. ProposalsOK
  BY <1>1, <1>2 DEF ProposalsOK, OfferedOK, Awaiting
<1>10. RowsOK
  BY <1>1, <1>2 DEF RowsOK, NoRows, RowsIn, Live, Awaiting, Finishing
<1>11. ShownOK
  BY <1>1 DEF ShownOK
<1> QED BY <1>4, <1>5, <1>6, <1>7, <1>8, <1>9, <1>10, <1>11, InitOK, InitR, InitC DEF MInv, MirrorInv

\* A lost connection is never forgotten.
LEMMA LossesCount ==
    ASSUME IInv, Next, disconnects' = 0
    PROVE  disconnects = 0
<1> USE DEF boundVars
<1>0. disconnects \in Nat
  BY DEF IInv, TypeOK
<1>1. ASSUME NEW p \in Protocols, NewOrder(p) \/ ProcessOrder(p) \/ BeginRollover(p)
      PROVE  disconnects' = disconnects
  BY <1>1 DEF NewOrder, SubmitOrder, CloseByCoordinator, ProcessOrder, CheckOrder,
     MatchOrder, NoMatch, ProcessPendingMatch, BeginTrade, BeginTradeFails, SkipTrade, FailTrade,
     BeginRollover
<1>2. ASSUME NEW p \in Protocols, RunProtocol(p) PROVE disconnects' = disconnects
  BY <1>2 DEF RunProtocol, Propose, ProposeFails, ProposeRolloverFails, StartProtocol, UpdatePosition,
     FinishTask, FailTrade
<1>3. HandlerC => disconnects' = disconnects
  BY DEF HandlerC, SkipC, ReceiveC, RefuseC, CompleteC, CompleteCFails, CompleteReject
<1>4. HandlerA => disconnects' = disconnects
  BY DEF HandlerA, SkipA, ReceiveA, ForceRejectOffer, RefuseA, AcceptOffer, RejectOffer,
     AcceptUnanswered, StaleOffer, CompleteOpenA, CompleteRolloverA, CompleteSettleA,
     CompleteRenewConfirmA
<1>5. ASSUME NEW o \in Orders, GiveUp(o) \/ OnTradeError(o) \/ CheckOpenOrders(o)
      PROVE  disconnects' = disconnects
  BY <1>5 DEF GiveUp, OnTradeError, CheckOpenOrders
<1>6. ASSUME NEW o \in TraderOrders, SubmitInVain(o) \/ OrderPosted(o) \/ OrderNotPosted(o)
      PROVE  disconnects' = disconnects
  BY <1>6 DEF SubmitInVain, OrderPosted, OrderNotPosted
<1>7. SubmitRefused \/ Tick \/ Connect => disconnects' = disconnects
  BY DEF SubmitRefused, Tick, Connect, ConnectAndResend, ConnectAndReject
<1>8. Disconnect \/ CrashC \/ CrashA => disconnects' = disconnects + 1
  BY DEF Disconnect, CrashC, CrashA
<1> QED BY <1>0, <1>1, <1>2, <1>3, <1>4, <1>5, <1>6, <1>7, <1>8 DEF Next

\* Nothing happens.
LEMMA MirrorStutters ==
    ASSUME MirrorInv, UNCHANGED vars
    PROVE  MirrorInv'
<1>1. /\ UNCHANGED <<orderC, task, offers, chanC, protocols, positions, lastOutC, inC, matchCheck>>
      /\ UNCHANGED <<orderA, chanA, posA, lastOutA, inA, netCA, netAC, tradeErrors, connected>>
  BY DEF vars
<1>2. CalmOK' /\ OwnersOK'
  BY <1>1 DEF MirrorInv, CalmOK, OwnersOK, HasTask, Unsent
<1>3. DirectionsOK' /\ OutboxOK' /\ HalfwayOK'
  BY <1>1 DEF MirrorInv, DirectionsOK, OutboxOK, HalfwayOK, Unsent
<1>4. Underway' = Underway /\ Unsent' = Unsent /\ Mail' = Mail /\ Proposing' = Proposing
  BY <1>1 DEF Underway, Unsent, Mail, Proposing
<1>5. Silent' = Silent /\ \A m : Waits(chanC, m)' = Waits(chanC, m)
  BY <1>1, <1>4 DEF Silent, Waits
<1>6. TurnsOK'
  BY <1>1, <1>4, <1>5 DEF MirrorInv, TurnsOK
<1>7. OutcomesOK' /\ PriceOK'
  BY <1>1, <1>4 DEF MirrorInv, OutcomesOK, PriceOK, HasPrice
<1>8. ProposalsOK'
  BY <1>1 DEF MirrorInv, ProposalsOK, Proposal, OfferedOK, SizeInForce
<1>9. RowsOK'
  <2>1. /\ \A S, p : Rows(S, p)' = Rows(S, p)
        /\ \A S : Alone(S)' = Alone(S)
        /\ NoRows' = NoRows
    BY <1>1 DEF Rows, Alone, NoRows, RowsIn, NeverFailed
  <2>2. Frozen' = Frozen /\ Stuck' = Stuck /\ \A p : Early(p)' = Early(p)
    BY <1>1, <1>4, <1>5 DEF Frozen, Stuck, Early, RowsIn, NeverFailed
  <2>3. /\ \A k : OfferRows(k)' = OfferRows(k)
        /\ \A k : HandledRows(k)' = HandledRows(k)
    BY <1>1, <2>1, <2>2 DEF OfferRows, HandledRows, SizeInForce
  <2> QED BY <1>1, <2>1, <2>2, <2>3 DEF MirrorInv, RowsOK
<1>10. AnswerOK' /\ ShownOK'
  BY <1>1, <1>4 DEF MirrorInv, AnswerOK, ShownOK, Answer, Same
<1> QED BY <1>2, <1>3, <1>6, <1>7, <1>8, <1>9, <1>10 DEF MirrorInv

\* Every step of orderly trading keeps the invariant.
LEMMA NextM ==
    ASSUME MInv, [Next /\ Orderly']_vars
    PROVE  MInv'
<1>0. IInv' /\ RInv' /\ CInv'
  BY NextOK, NextR, NextC DEF MInv
<1>1. CASE UNCHANGED vars
  <2>1. UNCHANGED <<inC, task, orderA, posting, tradeErrors, disconnects>>
    BY <1>1 DEF vars
  <2>2. Orderly'
    BY <2>1 DEF MInv, Orderly, Proposing, Unfinished
  <2> QED BY <1>0, <1>1, <2>1, <2>2, MirrorStutters DEF MInv
<1>2. CASE Next /\ Orderly'
  <2>1. SUFFICES ASSUME disconnects' = 0 PROVE MirrorInv'
    BY <1>0, <1>2 DEF MInv
  <2>2. Calm /\ Calm' /\ MirrorInv
    BY <1>0, <1>2, <2>1, LossesCount DEF MInv, Calm
  <2>3. CalmNext
    BY <1>2, <2>2, CalmMoves DEF MirrorInv
  <2>4. CalmOK' /\ OwnersOK' /\ DirectionsOK'
    BY <1>2, <2>2, OwnersNext, DirectionsNext DEF MirrorInv
  <2>5. OutboxOK' /\ HalfwayOK' /\ TurnsOK'
    BY <1>2, <2>2, <2>4, OutboxNext, TurnsNext DEF MirrorInv
  <2>6. OutcomesOK' /\ PriceOK'
    BY <1>2, <2>2, <2>4, <2>5, OutcomesNext, PriceNext DEF MirrorInv
  <2>7. InTurn /\ Mirrors
    BY <2>2 DEF MirrorInv, InTurn, Mirrors
  <2>8. ProposalsOK' /\ RowsOK'
    BY <2>2, <2>3, <2>7, ProposalsNext, RowsNext DEF MirrorInv
  <2>9. AnswerOK' /\ ShownOK'
    BY <2>3, <2>7, MirrorNext
  <2> QED BY <2>4, <2>5, <2>6, <2>8, <2>9 DEF MirrorInv
<1> QED BY <1>1, <1>2

\* The inductive invariant of orderly trading: as long as the connection was never lost,
\* the two sides take turns, and what each stored, answered, wrote and shows is what the
\* state of the coordinator's channel says (execute_internal, process_dlc_message).
THEOREM MirrorInvariance == OrderlySpec => []MInv
<1>1. Init => MInv
  BY InitM
<1>2. MInv /\ [Next /\ Orderly']_vars => MInv'
  BY NextM
<1> QED BY <1>1, <1>2, PTL DEF OrderlySpec

\* In orderly trading the position the app shows is the contract of its channel, for any
\* number of orders, protocols and rollovers (update_position_after_order_submitted,
\* handle_renew_offer, handle_rollover_offer and
\* update_position_after_dlc_channel_creation_or_update of the app's position handler).
THEOREM AppMirrorsAlways == OrderlySpec => []AppMirrorsChannel
<1>1. MInv => AppMirrorsChannel
  BY Nothing, ProtocolsAssumption
     DEF MInv, MirrorInv, ShownOK, Same, AppMirrorsChannel, CInv, ChannelsOK, Sound
<1> QED BY <1>1, MirrorInvariance, PTL

\* In orderly trading, as long as no resize was rejected, the positions table has the one
\* live row that the coordinator's channel calls for, and none without a contract, for any
\* number of orders, protocols and rows (execute_internal, finish_dlc_protocol,
\* fail_dlc_protocol).
THEOREM DatabaseMirrorsAlways == OrderlySpec => []DatabaseMirrorsChannel
<1>1. MInv => DatabaseMirrorsChannel
  BY DEF MInv, MirrorInv, RowsOK, Rows, NoRows, Frozen, Quiet, DatabaseMirrorsChannel
<1> QED BY <1>1, MirrorInvariance, PTL
=============================================================================
