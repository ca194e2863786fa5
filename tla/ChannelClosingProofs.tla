------------------------ MODULE ChannelClosingProofs ------------------------
(***************************************************************************)
(* TypeOK, ClosedOnlyWhenSpent and NoOpenPositionAfterClose for any number *)
(* of protocols, payouts, reverts and restarts.                            *)
(*                                                                         *)
(* The tables follow channel events that may be handled late, against a    *)
(* channel that has moved on, or never.  What holds all the same: an event *)
(* of a collaborative close that can still find its channel was sent after *)
(* the transaction; what spends the funding output is never replaced once  *)
(* it is the close or the CET; and once a close was offered or published,  *)
(* no trade can put the position back to Open.                             *)
(***************************************************************************)
EXTENDS ChannelClosing, TLAPS

-----------------------------------------------------------------------------
(* The inductive invariant *)

\* What the records of the channels and of the trade hold in the states that use it
ShapesOK ==
    /\ chanC.state = "Updating" => chanC.back \in {"Established", "Settled"}
    /\ chanC.state = "Settled" => chanC.payout \in Payouts
    /\ chanC.state = "Updating" /\ chanC.back = "Settled" => chanC.payout \in Payouts
    /\ chanA.state = "Settled" => chanA.payout \in Payouts
    /\ trade.kind = "Settle" => trade.payout \in Payouts
    /\ reverts <= proposed

Types == TypeOK /\ ShapesOK

\* The trade's row is of its kind: no close takes its reference id.
TradeOK ==
    /\ trade.pc \in {"run", "finish"} => protocols[trade.ref].type = trade.kind
    /\ trade # NoTrade => trade.ref \notin {offerC.ref, offerA.ref}
    /\ closeTask # NoProtocol => closeTask = offerC.ref

\* An event of a collaborative close that may find its channel follows the transaction.
EventsOK ==
    \A k \in 1 .. Len(events) :
        events[k].type = "CollaborativelyClosed" => spend = "close" \/ events[k].ref = NoProtocol

SpentOK ==
    /\ contract = "Attested" => spend = "cet"
    /\ ClosedOnlyWhenSpent

\* The contract is settled, and no new one was set up.
AfterSettlement ==
    \/ chanC.state \in {"Settled", "CloseOffered", "CloseReceived"}
    \/ chanC.state = "Updating" /\ chanC.back = "Settled"

\* A trade that has yet to open its position
Opening == trade.pc = "finish" /\ trade.kind # "Settle"

\* The coordinator has offered to close, or a close is published.
Leaving == offerC # NoOffer \/ spend = "close"

HasRow == \E q \in Protocols : protocols[q] # NoRow

PositionOK ==
    /\ trade.kind = "Settle" /\ trade.pc \in {"run", "finish"} => position # "Open"
    /\ trade.kind = "Settle" /\ chanC.state = "Updating" /\ chanC.ref = trade.ref =>
            chanC.back = "Established"
    /\ AfterSettlement => position # "Open" /\ ~ Opening
    /\ Leaving => /\ position # "Open" /\ ~ Opening
                  /\ chanC.state \notin {"Offered", "Established", "Settled", "Updating"}
    /\ chanA.state = "CloseReceived" => offerC # NoOffer
    /\ chanC.state \in {"Established", "Settled", "Updating", "CloseOffered", "CloseReceived"}
            \/ Leaving => HasRow

IInv == Types /\ TradeOK /\ EventsOK /\ SpentOK /\ PositionOK

-----------------------------------------------------------------------------
(* What the steps have in common *)

\* A sequence that is not empty starts with its first element.
LEMMA NonEmptySeq ==
    ASSUME NEW S, NEW q \in Seq(S), q # <<>>
    PROVE  Len(q) # 0 /\ Head(q) = q[1] /\ Head(q) \in S
<1>1. Len(q) # 0
  OBVIOUS
<1>2. Head(q) = q[1]
  OBVIOUS
<1> QED BY <1>1, <1>2

\* The queue of channel events after UpsertChannel has sent one more.
LEMMA EventType ==
    ASSUME TypeOK, NEW t \in EventTypes, NEW r \in ProtocolIds
    PROVE  /\ Append(events, Event(t, r)) \in Seq([type : EventTypes, ref : ProtocolIds])
           /\ Len(Append(events, Event(t, r))) = Len(events) + 1
           /\ Append(events, Event(t, r))[Len(events) + 1] = Event(t, r)
           /\ \A k \in 1 .. Len(events) : Append(events, Event(t, r))[k] = events[k]
           /\ Len(events) \in Nat
<1>1. Event(t, r) \in [type : EventTypes, ref : ProtocolIds]
  BY DEF Event
<1> QED BY <1>1 DEF TypeOK

\* A new event keeps EventsOK unless it claims a collaborative close too early.
LEMMA EventAppended ==
    ASSUME Types, EventsOK, NEW t \in EventTypes, NEW r \in ProtocolIds,
           events' = Append(events, Event(t, r)),
           spend = "close" => spend' = "close",
           t = "CollaborativelyClosed" => spend' = "close" \/ r = NoProtocol
    PROVE  EventsOK'
<1>1. Event(t, r).type = t /\ Event(t, r).ref = r
  BY DEF Event
<1>2. ASSUME NEW k \in 1 .. Len(events'), events'[k].type = "CollaborativelyClosed"
      PROVE  spend' = "close" \/ events'[k].ref = NoProtocol
  <2>1. CASE k = Len(events) + 1
    BY <1>1, <1>2, <2>1, EventType DEF Types
  <2>2. CASE k # Len(events) + 1
    <3>1. k \in 1 .. Len(events)
      BY <1>2, <2>2, EventType DEF Types
    <3> QED BY <1>2, <3>1, EventType DEF Types, EventsOK
  <2> QED BY <2>1, <2>2
<1> QED BY <1>2 DEF EventsOK

\* A fresh reference id is in no table, message or channel.
LEMMA FreshIsNew ==
    ASSUME NEW p, Fresh(p)
    PROVE  /\ p \in Protocols /\ protocols[p] = NoRow
           /\ p \notin {chanC.ref, trade.ref, offerA.ref, offerC.ref, row.open}
BY DEF Fresh, Unused

\* What a step that leaves the channel, its tables and its trade alone keeps.
LEMMA Aside ==
    ASSUME IInv, Types',
           UNCHANGED <<chanC, contract, events, row, protocols, position, trade, closeTask,
                       offerA, offerC>>,
           spend' \in {spend, "buffer", "settle", "revert"},
           spend \in {"close", "cet"} => spend' = spend,
           chanA'.state = "CloseReceived" => chanA.state = "CloseReceived"
    PROVE  IInv'
<1>1. TradeOK' BY DEF IInv, TradeOK
<1>2. EventsOK' BY DEF IInv, EventsOK
<1>3. SpentOK' BY DEF IInv, SpentOK, ClosedOnlyWhenSpent
<1>4. PositionOK' BY DEF IInv, PositionOK, AfterSettlement, Opening, Leaving, HasRow
<1> QED BY <1>1, <1>2, <1>3, <1>4 DEF IInv

-----------------------------------------------------------------------------
(* Trades *)

\* The offer of a trade (propose_dlc_channel and the others).
LEMMA ProposeTradeStep ==
    ASSUME IInv, NEW kind \in {"OpenChannel", "OpenPosition", "Settle"}, NEW p \in Protocols,
           NEW x \in Payouts \cup {0}, ProposeTrade(kind, p, x)
    PROVE  IInv'
<1>0. Types /\ TypeOK
  BY DEF IInv, Types
<1>1. /\ p \notin {chanC.ref, trade.ref, offerA.ref, offerC.ref}
      /\ trade = NoTrade /\ chanC.state = StateBefore(kind)
  BY FreshIsNew DEF ProposeTrade
<1>2. PICK t \in Trades : t = [kind |-> kind, ref |-> p, pc |-> "store", payout |-> x]
  BY DEF Trades
<1>3. trade' = t /\ trade'.kind = kind /\ trade'.ref = p /\ trade'.pc = "store" /\ trade'.payout = x
  BY <1>2 DEF ProposeTrade
<1>4. /\ chanC' \in Channel /\ chanC'.ref = p /\ chanC'.payout = chanC.payout
      /\ chanC'.state = IF kind = "OpenChannel" THEN "Offered" ELSE "Updating"
      /\ chanC'.back = IF kind = "OpenChannel" THEN chanC.back ELSE chanC.state
  <2>1. kind # "OpenChannel" => chanC.state \in {"Established", "Settled"}
    BY <1>1 DEF StateBefore
  <2> QED BY ZenonT(40), <1>0, <2>1 DEF ProposeTrade, UpsertChannel, TypeOK, Channel, ChannelStates, SignedStates,
     ProtocolIds
<1>5. kind = "OpenChannel" => events' = Append(events, Event("Offered", p))
  BY <1>4 DEF ProposeTrade, UpsertChannel
<1>6. kind # "OpenChannel" => events' = events
  BY DEF ProposeTrade
<1>7. UNCHANGED <<chanA, contract, row, protocols, position, posA, spend, closeTask, inC,
                  offerA, offerC, processed, reverts, revertAsk, confirm, proposed, crashes>>
  BY DEF ProposeTrade
<1>8. Types'
  <2>1. events' \in Seq([type : EventTypes, ref : ProtocolIds])
    <3>1. "Offered" \in EventTypes /\ p \in ProtocolIds
      BY DEF EventTypes, ProtocolIds
    <3>2. CASE kind = "OpenChannel"
      BY <1>0, <1>5, <3>1, <3>2, EventType
    <3>3. CASE kind # "OpenChannel"
      BY <1>0, <1>6, <3>3 DEF TypeOK
    <3> QED BY <3>2, <3>3
  <2>2. TypeOK'
    BY <1>0, <1>3, <1>4, <1>7, <2>1 DEF TypeOK
  <2>3. ShapesOK'
    BY <1>0, <1>1, <1>3, <1>4, <1>7 DEF Types, ShapesOK, ProposeTrade, StateBefore
  <2> QED BY <2>2, <2>3 DEF Types
<1>9. EventsOK'
  <2>1. CASE kind = "OpenChannel"
    BY <1>0, <1>5, <1>7, <2>1, EventAppended DEF IInv, EventTypes, ProtocolIds
  <2>2. CASE kind # "OpenChannel"
    BY <1>6, <1>7, <2>2 DEF IInv, EventsOK
  <2> QED BY <2>1, <2>2
<1>10. TradeOK'
  BY <1>1, <1>3, <1>7 DEF IInv, TradeOK
<1>11. SpentOK'
  BY <1>7 DEF IInv, SpentOK, ClosedOnlyWhenSpent
<1>12. PositionOK'
  <2>1. kind = "OpenChannel" => ~ HasRow
    BY DEF ProposeTrade, HasRow
  <2>2. ~ Opening'
    BY <1>3 DEF Opening
  <2>3. Leaving' = Leaving /\ HasRow' = HasRow
    BY <1>7 DEF Leaving, HasRow
  <2>4. ~ Leaving
    BY <1>1, <2>1 DEF IInv, PositionOK, StateBefore
  <2>5. AfterSettlement' => position' # "Open"
    BY <1>1, <1>4, <1>7 DEF IInv, PositionOK, AfterSettlement, StateBefore
  <2>6. kind # "OpenChannel" => HasRow
    BY <1>1 DEF IInv, PositionOK, StateBefore
  <2> QED BY <1>1, <1>3, <1>4, <1>7, <2>2, <2>3, <2>4, <2>5, <2>6 DEF IInv, PositionOK, StateBefore
<1> QED BY <1>8, <1>9, <1>10, <1>11, <1>12 DEF IInv

\* The row of a trade (start_open_channel_protocol, start_settle_protocol, ...).
LEMMA StoreTradeStep ==
    ASSUME IInv, StoreTrade
    PROVE  IInv'
<1>0. Types /\ TypeOK
  BY DEF IInv, Types
<1>1. trade \in Trades /\ trade.pc = "store" /\ trade # NoTrade /\ trade.ref \in Protocols
  BY <1>0 DEF TypeOK, Trades, StoreTrade, NoTrade
<1>2. /\ trade' \in Trades /\ trade'.kind = trade.kind /\ trade'.ref = trade.ref
      /\ trade'.pc = "run" /\ trade'.payout = trade.payout
      /\ trade.kind \in {"OpenChannel", "OpenPosition", "Settle"}
  BY <1>1 DEF StoreTrade, Trades
<1>3. PICK w \in ProtocolRow : w = [type |-> trade.kind, state |-> "Pending", contract |-> TRUE]
  BY <1>2 DEF ProtocolRow, ProtocolTypes
<1>4. protocols' = [protocols EXCEPT ![trade.ref] = w] /\ w # NoRow
  BY <1>2, <1>3 DEF StoreTrade, create, NoRow
<1>5. UNCHANGED <<chanC, chanA, contract, events, row, posA, spend, closeTask, inC,
                  offerA, offerC, processed, reverts, revertAsk, confirm, proposed, crashes>>
  BY DEF StoreTrade
<1>6. /\ position' \in {"None", "Open", "Closing", "Closed"}
      /\ position' = "Open" => position = "Open" /\ trade.kind # "Settle"
  BY <1>0 DEF StoreTrade, TypeOK
<1>7. protocols' \in [Protocols -> ProtocolRow]
  BY <1>0, <1>4 DEF TypeOK
<1>8. Types'
  BY <1>0, <1>2, <1>5, <1>6, <1>7 DEF Types, TypeOK, ShapesOK
<1>9. EventsOK'
  BY <1>5 DEF IInv, EventsOK
<1>10. protocols'[trade.ref] = w /\ \A q \in Protocols \ {trade.ref} : protocols'[q] = protocols[q]
  BY <1>0, <1>1, <1>4 DEF TypeOK
<1>11. TradeOK'
  BY <1>1, <1>2, <1>3, <1>5, <1>10 DEF IInv, TradeOK, NoTrade
<1>12. SpentOK'
  BY <1>3, <1>5, <1>10 DEF IInv, SpentOK, ClosedOnlyWhenSpent
<1>13. PositionOK'
  <2>1. HasRow'
    BY <1>1, <1>4, <1>10 DEF HasRow
  <2>2. ~ Opening'
    BY <1>2 DEF Opening
  <2>3. Leaving' = Leaving /\ AfterSettlement' = AfterSettlement
    BY <1>5 DEF Leaving, AfterSettlement
  <2> QED BY <1>2, <1>5, <1>6, <2>1, <2>2, <2>3 DEF IInv, PositionOK
<1> QED BY <1>8, <1>9, <1>11, <1>12, <1>13 DEF IInv

\* Both sides complete the protocol in rust-dlc.
LEMMA CompleteTradeStep ==
    ASSUME IInv, CompleteTrade
    PROVE  IInv'
<1>0. Types /\ TypeOK
  BY DEF IInv, Types
<1>1. /\ trade \in Trades /\ trade.pc = "run" /\ trade # NoTrade /\ chanC.ref = trade.ref
      /\ chanC.state = IF trade.kind = "OpenChannel" THEN "Offered" ELSE "Updating"
      /\ trade.kind \in {"OpenChannel", "OpenPosition", "Settle"}
      /\ trade.ref \in Protocols /\ trade.payout \in Payouts \cup {0}
  BY <1>0 DEF TypeOK, Trades, CompleteTrade, TradeRuns, NoTrade
<1>2. /\ trade' \in Trades /\ trade'.kind = trade.kind /\ trade'.ref = trade.ref
      /\ trade'.pc = "finish" /\ trade'.payout = trade.payout
  BY <1>1 DEF CompleteTrade, Trades
<1>3. /\ chanC' \in Channel /\ chanC'.ref = trade.ref /\ chanC'.payout = trade.payout
      /\ chanC'.state = StateAfter(trade.kind) /\ chanC'.back = "None" /\ chanA' = chanC'
  BY <1>0, <1>1 DEF CompleteTrade, UpsertChannel, TypeOK, Channel, ChannelStates, SignedStates,
     StateAfter
<1>4. PICK s \in {"Established", "Settled"} : s = StateAfter(trade.kind)
  BY DEF StateAfter
<1>5. events' = Append(events, Event(s, trade.ref))
  BY <1>0, <1>3, <1>4 DEF CompleteTrade, UpsertChannel, TypeOK, Channel
<1>6. UNCHANGED <<row, protocols, position, spend, closeTask, inC, offerA, offerC,
                  processed, reverts, revertAsk, confirm, proposed, crashes>>
  BY DEF CompleteTrade
<1>7. /\ contract' \in {"Confirmed", "Settled"}
      /\ posA' \in BOOLEAN
  BY DEF CompleteTrade
<1>8. Types'
  <2>1. events' \in Seq([type : EventTypes, ref : ProtocolIds])
    BY <1>0, <1>1, <1>5, EventType DEF EventTypes, ProtocolIds
  <2>2. TypeOK'
    BY <1>0, <1>2, <1>3, <1>6, <1>7, <2>1 DEF TypeOK
  <2>3. ShapesOK'
    BY <1>0, <1>2, <1>3, <1>6 DEF Types, ShapesOK, StateAfter
  <2> QED BY <2>2, <2>3 DEF Types
<1>9. EventsOK'
  BY <1>0, <1>1, <1>5, <1>6, EventAppended DEF IInv, EventTypes, ProtocolIds
<1>10. TradeOK'
  BY <1>1, <1>2, <1>6 DEF IInv, TradeOK
<1>11. SpentOK'
  BY <1>6, <1>7 DEF IInv, SpentOK, ClosedOnlyWhenSpent
<1>12. PositionOK'
  <2>1. HasRow'
    BY <1>1, <1>6 DEF IInv, TradeOK, HasRow, NoRow
  <2>2. ~ Leaving'
    BY <1>1, <1>6 DEF IInv, PositionOK, Leaving
  <2>3. AfterSettlement' => position' # "Open" /\ ~ Opening'
    BY <1>1, <1>2, <1>3, <1>6 DEF IInv, PositionOK, AfterSettlement, Opening, StateAfter
  <2> QED BY <1>1, <1>2, <1>3, <1>6, <2>1, <2>2, <2>3 DEF IInv, PositionOK, StateAfter
<1> QED BY <1>8, <1>9, <1>10, <1>11, <1>12 DEF IInv

\* finish_dlc_protocol of the trade.
LEMMA FinishTradeStep ==
    ASSUME IInv, FinishTrade
    PROVE  IInv'
<1>0. Types /\ TypeOK
  BY DEF IInv, Types
<1>1. /\ trade \in Trades /\ trade.pc = "finish" /\ trade.ref \in Protocols
      /\ trade.kind \in {"OpenChannel", "OpenPosition", "Settle"}
  BY <1>0 DEF TypeOK, Trades, FinishTrade, NoTrade
<1>2. /\ trade' = NoTrade /\ trade' \in Trades
      /\ trade'.kind = "None" /\ trade'.pc = "done" /\ trade'.ref = NoProtocol
  BY DEF FinishTrade, Trades, NoTrade
<1>3. /\ protocols' \in [Protocols -> ProtocolRow]
      /\ protocols'[trade.ref].type = trade.kind
      /\ \A q \in Protocols \ {trade.ref} : protocols'[q] = protocols[q]
  BY <1>0, <1>1 DEF IInv, TradeOK, TypeOK, FinishTrade, set_dlc_protocol_state_to_success, ProtocolRow
<1>4. UNCHANGED <<chanC, chanA, contract, events, row, posA, spend, closeTask, inC,
                  offerA, offerC, processed, reverts, revertAsk, confirm, proposed, crashes>>
  BY DEF FinishTrade
<1>5. /\ position' \in {"None", "Open", "Closing", "Closed"}
      /\ position' = "Open" => Opening \/ position = "Open"
  BY <1>0, <1>1 DEF FinishTrade, TypeOK, Opening
<1>6. Types'
  BY <1>0, <1>2, <1>3, <1>4, <1>5 DEF Types, TypeOK, ShapesOK
<1>7. EventsOK'
  BY <1>4 DEF IInv, EventsOK
<1>8. TradeOK'
  BY <1>2, <1>4 DEF IInv, TradeOK
<1>9. SpentOK'
  BY <1>1, <1>3, <1>4 DEF IInv, SpentOK, ClosedOnlyWhenSpent
<1>10. PositionOK'
  <2>1. HasRow'
    BY <1>1, <1>3 DEF HasRow, NoRow
  <2>2. ~ Opening'
    BY <1>2 DEF Opening
  <2>3. Leaving' = Leaving /\ AfterSettlement' = AfterSettlement
    BY <1>4 DEF Leaving, AfterSettlement
  <2> QED BY <1>2, <1>4, <1>5, <2>1, <2>2, <2>3 DEF IInv, PositionOK
<1> QED BY <1>6, <1>7, <1>8, <1>9, <1>10 DEF IInv

\* The app rejects the offer of a trade.
LEMMA RejectTradeStep ==
    ASSUME IInv, RejectTrade
    PROVE  IInv'
<1>0. Types /\ TypeOK
  BY DEF IInv, Types
<1>1. /\ trade \in Trades /\ trade.pc = "run" /\ chanC.ref = trade.ref
      /\ chanC.state = IF trade.kind = "OpenChannel" THEN "Offered" ELSE "Updating"
      /\ trade.kind \in {"OpenChannel", "OpenPosition", "Settle"}
      /\ trade.ref \in Protocols
  BY <1>0 DEF TypeOK, Trades, RejectTrade, TradeRuns, NoTrade
<1>2. /\ trade' = NoTrade /\ trade' \in Trades
      /\ trade'.kind = "None" /\ trade'.pc = "done" /\ trade'.ref = NoProtocol
  BY DEF RejectTrade, Trades, NoTrade
<1>3. PICK s \in {"Cancelled", "Established", "Settled"} :
         s = IF trade.kind = "OpenChannel" THEN "Cancelled" ELSE chanC.back
  BY <1>0, <1>1 DEF Types, ShapesOK
<1>4. /\ chanC' \in Channel /\ chanC'.ref = trade.ref /\ chanC'.payout = chanC.payout
      /\ chanC'.state = s
  BY <1>0, <1>1, <1>3 DEF RejectTrade, UpsertChannel, TypeOK, Channel, ChannelStates, SignedStates
<1>5. events' = Append(events, Event(s, trade.ref))
  BY <1>0, <1>1, <1>3, <1>4 DEF RejectTrade, UpsertChannel
<1>6. /\ protocols' \in [Protocols -> ProtocolRow]
      /\ protocols'[trade.ref].type = trade.kind
      /\ \A q \in Protocols \ {trade.ref} : protocols'[q] = protocols[q]
  BY <1>0, <1>1 DEF IInv, TradeOK, TypeOK, RejectTrade, set_dlc_protocol_state_to_failed, ProtocolRow
<1>7. UNCHANGED <<chanA, contract, row, posA, spend, closeTask, inC, offerA, offerC,
                  processed, reverts, revertAsk, confirm, proposed, crashes>>
  BY DEF RejectTrade
<1>8. /\ position' \in {"None", "Open", "Closing", "Closed"}
      /\ position' = "Open" => trade.kind = "Settle" \/ position = "Open"
  BY <1>0 DEF RejectTrade, TypeOK
<1>9. Types'
  <2>1. events' \in Seq([type : EventTypes, ref : ProtocolIds])
    <3>1. s \in EventTypes /\ trade.ref \in ProtocolIds
      BY <1>1 DEF EventTypes, ProtocolIds
    <3> QED BY <1>0, <1>5, <3>1, EventType
  <2>2. TypeOK'
    BY <1>0, <1>2, <1>4, <1>6, <1>7, <1>8, <2>1 DEF TypeOK
  <2>3. ShapesOK'
    BY <1>0, <1>1, <1>2, <1>3, <1>4, <1>7 DEF Types, ShapesOK
  <2> QED BY <2>2, <2>3 DEF Types
<1>10. EventsOK'
  BY <1>0, <1>1, <1>5, <1>7, EventAppended DEF IInv, EventTypes, ProtocolIds
<1>11. TradeOK'
  BY <1>2, <1>7 DEF IInv, TradeOK
<1>12. SpentOK'
  BY <1>1, <1>6, <1>7 DEF IInv, SpentOK, ClosedOnlyWhenSpent
<1>13. PositionOK'
  <2>1. HasRow'
    BY <1>1, <1>6 DEF HasRow, NoRow
  <2>2. ~ Leaving'
    BY <1>1, <1>7 DEF IInv, PositionOK, Leaving
  <2>3. ~ Opening'
    BY <1>2 DEF Opening
  <2>4. AfterSettlement' => position' # "Open"
    BY <1>1, <1>3, <1>4, <1>8 DEF IInv, PositionOK, AfterSettlement
  <2> QED BY <1>1, <1>2, <1>3, <1>4, <1>7, <2>1, <2>2, <2>3, <2>4 DEF IInv, PositionOK
<1> QED BY <1>9, <1>10, <1>11, <1>12, <1>13 DEF IInv

-----------------------------------------------------------------------------
(* Collaborative close *)

\* Node::close_dlc_channel of the coordinator, up to the offer.
LEMMA CloseDlcChannelStep ==
    ASSUME IInv, NEW p \in Protocols, close_dlc_channel(p)
    PROVE  IInv'
<1>0. Types /\ TypeOK
  BY DEF IInv, Types
<1>1. p \notin {trade.ref, offerA.ref} /\ chanC.state = "Settled" /\ chanC.payout \in Payouts
  BY <1>0, FreshIsNew DEF close_dlc_channel, Types, ShapesOK
<1>2. /\ chanC' \in Channel /\ chanC'.ref = p /\ chanC'.state = "CloseOffered"
      /\ chanC'.payout = chanC.payout
  BY <1>0 DEF close_dlc_channel, UpsertChannel, TypeOK, Channel, ChannelStates, SignedStates, ProtocolIds
<1>3. events' = Append(events, Event("CollaborativeCloseOffered", p))
  BY <1>2 DEF close_dlc_channel, UpsertChannel
<1>4. offerC' \in CloseOffer /\ offerC'.ref = p /\ offerC' # NoOffer /\ closeTask' = p
  BY <1>1, ClosingAssumption DEF close_dlc_channel, CloseOffer, NoOffer
<1>5. UNCHANGED <<chanA, contract, row, protocols, position, posA, trade, spend, inC, offerA,
                  processed, reverts, revertAsk, confirm, proposed, crashes>>
  BY DEF close_dlc_channel
<1>6. "CollaborativeCloseOffered" \in EventTypes /\ p \in ProtocolIds
  BY DEF EventTypes, ProtocolIds
<1>7. Types'
  <2>1. events' \in Seq([type : EventTypes, ref : ProtocolIds])
    BY <1>0, <1>3, <1>6, EventType
  <2>2. TypeOK'
    BY <1>0, <1>2, <1>4, <1>5, <1>6, <2>1 DEF TypeOK
  <2> QED BY <1>0, <1>2, <1>5, <2>2 DEF Types, ShapesOK
<1>8. EventsOK'
  BY <1>0, <1>3, <1>5, <1>6, EventAppended DEF IInv
<1>9. TradeOK'
  BY <1>1, <1>4, <1>5 DEF IInv, TradeOK
<1>10. SpentOK'
  BY <1>5 DEF IInv, SpentOK, ClosedOnlyWhenSpent
<1>11. PositionOK'
  <2>1. HasRow' /\ position' # "Open" /\ ~ Opening'
    BY <1>1, <1>5 DEF IInv, PositionOK, AfterSettlement, HasRow, Opening
  <2> QED BY <1>2, <1>4, <1>5, <2>1 DEF IInv, PositionOK
<1> QED BY <1>7, <1>8, <1>9, <1>10, <1>11 DEF IInv

\* The row of the coordinator's own close.
LEMMA StartCloseStep ==
    ASSUME IInv, start_close_channel_protocol
    PROVE  IInv'
<1>0. Types /\ TypeOK
  BY DEF IInv, Types
<1>1. closeTask \in Protocols /\ closeTask = offerC.ref
  BY <1>0 DEF IInv, TradeOK, TypeOK, start_close_channel_protocol, ProtocolIds
<1>2. PICK w \in ProtocolRow : w = [type |-> "Close", state |-> "Pending", contract |-> FALSE]
  BY DEF ProtocolRow, ProtocolTypes
<1>3. /\ protocols' \in [Protocols -> ProtocolRow] /\ protocols'[closeTask] = w
      /\ \A q \in Protocols \ {closeTask} : protocols'[q] = protocols[q]
  BY <1>0, <1>1, <1>2 DEF start_close_channel_protocol, create, TypeOK
<1>4. UNCHANGED <<chanC, chanA, contract, events, row, position, posA, trade, spend, inC,
                  offerA, offerC, processed, reverts, revertAsk, confirm, proposed, crashes>>
      /\ closeTask' = NoProtocol
  BY DEF start_close_channel_protocol
<1>5. Types'
  BY <1>0, <1>3, <1>4 DEF Types, TypeOK, ShapesOK, ProtocolIds
<1>6. EventsOK'
  BY <1>4 DEF IInv, EventsOK
<1>7. TradeOK'
  <2>1. trade.pc \in {"run", "finish"} => trade.ref \in Protocols /\ trade # NoTrade
    BY <1>0 DEF TypeOK, Trades, NoTrade
  <2> QED BY <1>1, <1>3, <1>4, <2>1 DEF IInv, TradeOK
<1>8. SpentOK'
  BY <1>1, <1>2, <1>3, <1>4 DEF IInv, SpentOK, ClosedOnlyWhenSpent
<1>9. PositionOK'
  <2>1. HasRow'
    BY <1>1, <1>2, <1>3 DEF HasRow, NoRow
  <2> QED BY <1>4, <2>1 DEF IInv, PositionOK, AfterSettlement, Opening, Leaving
<1> QED BY <1>5, <1>6, <1>7, <1>8, <1>9 DEF IInv

\* close_channel of the app.
LEMMA CloseChannelAStep ==
    ASSUME IInv, NEW p \in Protocols, CloseChannelA(p)
    PROVE  IInv'
<1>0. Types /\ TypeOK
  BY DEF IInv, Types
<1>1. /\ p # trade.ref /\ chanA' \in Channel /\ chanA'.state = "CloseOffered"
      /\ chanA.payout \in Payouts
  BY <1>0, FreshIsNew DEF CloseChannelA, TypeOK, Channel, ChannelStates, SignedStates, ProtocolIds,
     Types, ShapesOK
<1>2. offerA' \in CloseOffer /\ offerA'.ref = p
  BY <1>1 DEF CloseChannelA, CloseOffer
<1>3. UNCHANGED <<chanC, contract, events, row, protocols, position, posA, trade, spend,
                  closeTask, inC, offerC, processed, reverts, revertAsk, confirm, proposed, crashes>>
  BY DEF CloseChannelA
<1>4. Types'
  BY <1>0, <1>1, <1>2, <1>3 DEF Types, TypeOK, ShapesOK
<1>5. EventsOK'
  BY <1>3 DEF IInv, EventsOK
<1>6. TradeOK'
  BY <1>1, <1>2, <1>3 DEF IInv, TradeOK
<1>7. SpentOK'
  BY <1>3 DEF IInv, SpentOK, ClosedOnlyWhenSpent
<1>8. PositionOK'
  BY <1>1, <1>3 DEF IInv, PositionOK, AfterSettlement, Opening, Leaving, HasRow
<1> QED BY <1>4, <1>5, <1>6, <1>7, <1>8 DEF IInv

\* verify_collab_close_offer: the row of the app's close.
LEMMA VerifyCloseOfferStep ==
    ASSUME IInv, verify_collab_close_offer
    PROVE  IInv'
<1>0. Types /\ TypeOK
  BY DEF IInv, Types
<1>1. offerA \in CloseOffer /\ offerA.ref \in Protocols
  BY <1>0 DEF TypeOK, verify_collab_close_offer, CloseOffer
<1>2. PICK w \in ProtocolRow : w = [type |-> "Close", state |-> "Pending", contract |-> FALSE]
  BY DEF ProtocolRow, ProtocolTypes
<1>3. /\ protocols' \in [Protocols -> ProtocolRow] /\ protocols'[offerA.ref] = w
      /\ \A q \in Protocols \ {offerA.ref} : protocols'[q] = protocols[q]
  BY <1>0, <1>1, <1>2 DEF verify_collab_close_offer, create, TypeOK
<1>4. UNCHANGED <<chanC, chanA, contract, events, row, position, posA, trade, spend, closeTask,
                  offerA, offerC, processed, reverts, revertAsk, confirm, proposed, crashes>>
      /\ inC' = offerA
  BY DEF verify_collab_close_offer
<1>5. Types'
  BY <1>0, <1>1, <1>3, <1>4 DEF Types, TypeOK, ShapesOK
<1>6. EventsOK'
  BY <1>4 DEF IInv, EventsOK
<1>7. TradeOK'
  <2>1. trade.pc \in {"run", "finish"} => trade.ref \in Protocols /\ trade # NoTrade
    BY <1>0 DEF TypeOK, Trades, NoTrade
  <2> QED BY <1>1, <1>3, <1>4, <2>1 DEF IInv, TradeOK
<1>8. SpentOK'
  BY <1>1, <1>2, <1>3, <1>4 DEF IInv, SpentOK, ClosedOnlyWhenSpent
<1>9. PositionOK'
  <2>1. HasRow'
    BY <1>1, <1>2, <1>3 DEF HasRow, NoRow
  <2> QED BY <1>4, <2>1 DEF IInv, PositionOK, AfterSettlement, Opening, Leaving
<1> QED BY <1>5, <1>6, <1>7, <1>8, <1>9 DEF IInv

\* What a step keeps that moves the channel on and leaves the tables and the trade alone.
LEMMA ChannelMoves ==
    ASSUME IInv, Types', EventsOK',
           UNCHANGED <<row, protocols, position, trade, closeTask, offerA, offerC>>,
           contract' = "Attested" => spend' = "cet",
           spend \in {"close", "cet"} => spend' = spend,
           spend' = "close" => spend = "close" \/ AfterSettlement \/ Leaving,
           AfterSettlement' => AfterSettlement,
           chanC' = chanC \/ chanC'.state \notin {"Offered", "Established", "Settled", "Updating"},
           chanC' = chanC /\ spend' = "close" => Leaving,
           chanA'.state = "CloseReceived" => offerC # NoOffer
    PROVE  IInv'
<1>1. TradeOK' BY DEF IInv, TradeOK
<1>2. SpentOK' BY DEF IInv, SpentOK, ClosedOnlyWhenSpent
<1>3. PositionOK'
  <2>1. Opening' = Opening /\ HasRow' = HasRow
    BY DEF Opening, HasRow
  <2>2. Leaving' => Leaving \/ AfterSettlement
    BY DEF Leaving
  <2>3. chanC' = chanC /\ Leaving' => Leaving
    BY DEF Leaving
  <2>4. AfterSettlement => chanC.state \in {"Settled", "Updating", "CloseOffered", "CloseReceived"}
    BY DEF AfterSettlement
  <2>5. chanC'.state \in {"CloseOffered", "CloseReceived"} => AfterSettlement
    BY DEF AfterSettlement
  <2> QED BY <2>1, <2>2, <2>3, <2>4, <2>5 DEF IInv, PositionOK
<1> QED BY <1>1, <1>2, <1>3 DEF IInv

\* rust-dlc takes the app's close offer in Settled, or refuses it.
LEMMA ProcessCloseOfferCStep ==
    ASSUME IInv, ProcessCloseOfferC
    PROVE  IInv'
<1>0. Types /\ TypeOK
  BY DEF IInv, Types
<1>1. inC \in CloseOffer /\ inC.ref \in Protocols /\ inC.ref \in ProtocolIds
  BY <1>0 DEF TypeOK, ProcessCloseOfferC, CloseOffer, ProtocolIds
<1>2. UNCHANGED <<chanA, contract, row, protocols, position, posA, trade, spend, closeTask,
                  offerA, offerC, reverts, revertAsk, confirm, proposed, crashes>>
  BY DEF ProcessCloseOfferC
<1>3. CASE chanC.state = "Settled"
  <2>1. /\ chanC' \in Channel /\ chanC'.state = "CloseReceived" /\ chanC'.ref = inC.ref
        /\ chanC'.payout = chanC.payout
        /\ processed' \subseteq Protocols /\ inC' = inC
    BY <1>0, <1>1, <1>3 DEF ProcessCloseOfferC, UpsertChannel, TypeOK, Channel, ChannelStates, SignedStates
  <2>2. events' = Append(events, Event("CollaborativeCloseOffered", inC.ref))
    BY <1>3, <2>1 DEF ProcessCloseOfferC, UpsertChannel
  <2>3. "CollaborativeCloseOffered" \in EventTypes
    BY DEF EventTypes
  <2>4. events' \in Seq([type : EventTypes, ref : ProtocolIds])
    BY <1>0, <1>1, <2>2, <2>3, EventType
  <2>5. Types'
    BY <1>0, <1>2, <2>1, <2>4 DEF Types, TypeOK, ShapesOK
  <2>6. EventsOK'
    BY <1>0, <1>1, <1>2, <2>2, <2>3, EventAppended DEF IInv
  <2>7. AfterSettlement
    BY <1>3 DEF AfterSettlement
  <2>8. /\ contract = "Attested" => spend = "cet"
        /\ chanA.state = "CloseReceived" => offerC # NoOffer
        /\ spend = "close" => Leaving
    BY DEF IInv, SpentOK, PositionOK, Leaving
  <2> QED BY <1>2, <2>1, <2>5, <2>6, <2>7, <2>8, ChannelMoves
<1>4. CASE chanC.state # "Settled"
  <2>1. UNCHANGED <<chanC, events, processed>> /\ inC' = NoOffer
    BY <1>4 DEF ProcessCloseOfferC
  <2>2. Types'
    BY <1>0, <1>2, <2>1 DEF Types, TypeOK, ShapesOK
  <2> QED BY <1>2, <2>1, <2>2, Aside
<1> QED BY <1>3, <1>4

\* accept_dlc_channel_collaborative_close of the coordinator.
LEMMA AcceptCloseCStep ==
    ASSUME IInv, AcceptCloseC
    PROVE  IInv'
<1>0. Types /\ TypeOK
  BY DEF IInv, Types
<1>1. /\ chanC' \in Channel /\ chanC'.state = "CollaborativelyClosed" /\ chanC'.ref = chanC.ref
      /\ chanC'.payout = chanC.payout /\ chanC.ref \in ProtocolIds
      /\ inC' = NoOffer /\ spend' = "close"
  BY <1>0 DEF AcceptCloseC, UpsertChannel, TypeOK, Channel, ChannelStates, ClosedStates
<1>2. events' = Append(events, Event("CollaborativelyClosed", chanC.ref))
  BY <1>1 DEF AcceptCloseC, UpsertChannel
<1>3. UNCHANGED <<chanA, contract, row, protocols, position, posA, trade, closeTask, offerA,
                  offerC, processed, reverts, revertAsk, confirm, proposed, crashes>>
      /\ spend = "none" /\ chanC.state = "CloseReceived"
  BY DEF AcceptCloseC
<1>4. "CollaborativelyClosed" \in EventTypes
  BY DEF EventTypes
<1>5. events' \in Seq([type : EventTypes, ref : ProtocolIds])
  BY <1>0, <1>1, <1>2, <1>4, EventType
<1>6. Types'
  BY <1>0, <1>1, <1>3, <1>5 DEF Types, TypeOK, ShapesOK
<1>7. EventsOK'
  BY <1>0, <1>1, <1>2, <1>4, EventAppended DEF IInv
<1>8. AfterSettlement /\ contract # "Attested"
  BY <1>3 DEF AfterSettlement, IInv, SpentOK
<1> QED BY <1>1, <1>3, <1>6, <1>7, <1>8, ChannelMoves DEF IInv, SpentOK, PositionOK

\* The app takes the coordinator's close offer.
LEMMA ProcessCloseOfferAStep ==
    ASSUME IInv, ProcessCloseOfferA
    PROVE  IInv'
<1>0. Types /\ TypeOK
  BY DEF IInv, Types
<1>1. offerC \in CloseOffer /\ offerC.ref \in Protocols /\ offerC.ref \in ProtocolIds /\ offerC # NoOffer
  BY <1>0 DEF TypeOK, ProcessCloseOfferA, CloseOffer, ProtocolIds
<1>2. chanA' \in Channel /\ chanA'.state = "CloseReceived" /\ processed' \subseteq Protocols
  BY <1>0, <1>1 DEF ProcessCloseOfferA, TypeOK, Channel, ChannelStates, SignedStates
<1>3. UNCHANGED <<chanC, contract, events, row, protocols, position, posA, trade, spend,
                  closeTask, inC, offerA, offerC, reverts, revertAsk, confirm, proposed, crashes>>
  BY DEF ProcessCloseOfferA
<1>4. Types'
  BY <1>0, <1>2, <1>3 DEF Types, TypeOK, ShapesOK
<1>5. EventsOK'
  BY <1>3 DEF IInv, EventsOK
<1>6. (AfterSettlement' => AfterSettlement) /\ Leaving
  BY <1>1, <1>3 DEF AfterSettlement, Leaving
<1> QED BY <1>1, <1>3, <1>4, <1>5, <1>6, ChannelMoves DEF IInv, SpentOK

\* The app accepts the coordinator's offer and publishes the close.
LEMMA AcceptCloseAStep ==
    ASSUME IInv, AcceptCloseA
    PROVE  IInv'
<1>0. Types /\ TypeOK
  BY DEF IInv, Types
<1>1. /\ chanA' \in Channel /\ chanA'.state = "CollaborativelyClosed"
      /\ chanA.state = "CloseReceived" /\ spend = "none" /\ spend' = "close"
  BY <1>0 DEF AcceptCloseA, TypeOK, Channel, ChannelStates, ClosedStates
<1>2. UNCHANGED <<chanC, contract, events, row, protocols, position, posA, trade, closeTask,
                  inC, offerA, offerC, processed, reverts, revertAsk, confirm, proposed, crashes>>
  BY DEF AcceptCloseA
<1>3. Types'
  BY <1>0, <1>1, <1>2 DEF Types, TypeOK, ShapesOK
<1>4. EventsOK'
  BY <1>1, <1>2 DEF IInv, EventsOK
<1>5. Leaving /\ (AfterSettlement' => AfterSettlement)
  BY <1>1, <1>2 DEF IInv, PositionOK, Leaving, AfterSettlement
<1> QED BY <1>1, <1>2, <1>3, <1>4, <1>5, ChannelMoves DEF IInv, SpentOK

-----------------------------------------------------------------------------
(* Force close and the periodic check *)

\* Node::force_close_dlc_channel of the coordinator.
LEMMA ForceCloseStep ==
    ASSUME IInv, NEW p \in Protocols, force_close_dlc_channel(p)
    PROVE  IInv'
<1>0. Types /\ TypeOK
  BY DEF IInv, Types
<1>1. PICK s \in {"SignedClosing", "SignedSettledClosing"} : s = ClosingState(Stable(chanC))
  BY DEF ClosingState
<1>2. PICK t \in {"Closing", "SettledClosing"} :
         t = IF Stable(chanC) = "Established" THEN "Closing" ELSE "SettledClosing"
  OBVIOUS
<1>3. /\ chanC' \in Channel /\ chanC'.state = s /\ chanC'.ref = p
      /\ chanC'.payout = chanC.payout
  BY <1>0, <1>1 DEF force_close_dlc_channel, UpsertChannel, TypeOK, Channel, ChannelStates, SignedStates,
     ProtocolIds
<1>4. events' = Append(events, Event(t, p))
  BY <1>2, <1>3 DEF force_close_dlc_channel, UpsertChannel
<1>5. UNCHANGED <<chanA, contract, row, protocols, position, posA, trade, closeTask, inC,
                  offerA, offerC, processed, reverts, revertAsk, confirm, proposed, crashes>>
      /\ spend = "none" /\ spend' \in {"buffer", "settle"}
  BY DEF force_close_dlc_channel, TxOf
<1>6. t \in EventTypes /\ p \in ProtocolIds
  BY DEF EventTypes, ProtocolIds
<1>7. events' \in Seq([type : EventTypes, ref : ProtocolIds])
  BY <1>0, <1>4, <1>6, EventType
<1>8. Types'
  BY <1>0, <1>3, <1>5, <1>7 DEF Types, TypeOK, ShapesOK
<1>9. EventsOK'
  BY <1>0, <1>4, <1>5, <1>6, EventAppended DEF IInv
<1>10. ~ AfterSettlement' /\ contract # "Attested"
  BY <1>3, <1>5 DEF AfterSettlement, IInv, SpentOK
<1> QED BY <1>3, <1>5, <1>8, <1>9, <1>10, ChannelMoves DEF IInv, PositionOK

\* The app's force close.
LEMMA ForceCloseAStep ==
    ASSUME IInv, ForceCloseA
    PROVE  IInv'
<1>0. Types /\ TypeOK
  BY DEF IInv, Types
<1>1. /\ chanA' \in Channel /\ chanA'.state \in {"SignedClosing", "SignedSettledClosing"}
      /\ spend = "none" /\ spend' \in {"buffer", "settle"}
  BY <1>0 DEF ForceCloseA, ClosingState, TxOf, TypeOK, Channel, ChannelStates, SignedStates
<1>2. UNCHANGED <<chanC, contract, events, row, protocols, position, posA, trade, closeTask,
                  inC, offerA, offerC, processed, reverts, revertAsk, confirm, proposed, crashes>>
  BY DEF ForceCloseA
<1>3. Types'
  BY <1>0, <1>1, <1>2 DEF Types, TypeOK, ShapesOK
<1> QED BY <1>1, <1>2, <1>3, Aside

\* What the periodic check makes of a channel.
LEMMA ChainStep ==
    ASSUME NEW ch, NEW o \in Observes(ch)
    PROVE  /\ o[3] \in {"SignedClosing", "Closing", "SettledClosing", "Closed", "CounterClosed",
                        "CollaborativelyClosed"}
           /\ o[4] \in {"buffer", "cet", "settle", "close"}
           /\ o[4] = spend \/ spend = "buffer"
           /\ spend = "buffer" => o[4] \in {"buffer", "cet"}
           /\ o[3] = "CollaborativelyClosed" => spend = "close"
BY DEF Observes, ChainSteps

\* dlc_manager.periodic_check of the coordinator.
LEMMA PeriodicCheckCStep ==
    ASSUME IInv, PeriodicCheckC
    PROVE  IInv'
<1>0. Types /\ TypeOK
  BY DEF IInv, Types
<1>1. PICK o \in Observes(chanC) :
        /\ spend' = o[4]
        /\ UpsertChannel([chanC EXCEPT !.state = o[3]], EventOf(o[3]))
        /\ contract' = IF o[4] = "cet" /\ o[3] # "SignedClosing" THEN "Attested" ELSE contract
        /\ UNCHANGED <<chanA, row, protocols, position, posA, trade, closeTask, inC,
                       offerA, offerC, processed, reverts, revertAsk, confirm, proposed, crashes>>
  BY DEF PeriodicCheckC
<1>2. PICK s \in {"SignedClosing", "Closing", "SettledClosing", "Closed", "CounterClosed",
                  "CollaborativelyClosed"} : s = o[3]
  BY ChainStep
<1>3. PICK x \in {"buffer", "cet", "settle", "close"} : x = o[4]
  BY ChainStep
<1>4. /\ x = spend \/ (spend = "buffer" /\ x \in {"buffer", "cet"})
      /\ s = "CollaborativelyClosed" => spend = "close"
  <2>1. /\ o[4] = spend \/ spend = "buffer"
        /\ spend = "buffer" => o[4] \in {"buffer", "cet"}
        /\ o[3] = "CollaborativelyClosed" => spend = "close"
    BY ChainStep
  <2> QED BY <1>2, <1>3, <2>1
<1>5. PICK t \in EventTypes : t = EventOf(s)
  BY DEF EventOf, EventTypes
<1>6. t = "CollaborativelyClosed" => s = "CollaborativelyClosed"
  BY <1>5 DEF EventOf
<1>7. /\ chanC' \in Channel /\ chanC'.state = s /\ chanC'.ref = chanC.ref /\ chanC.ref \in ProtocolIds
      /\ chanC'.payout = chanC.payout
  BY <1>0, <1>1, <1>2 DEF UpsertChannel, TypeOK, Channel, ChannelStates, SignedStates, ClosedStates
<1>8. events' = Append(events, Event(t, chanC.ref))
  BY <1>1, <1>2, <1>5, <1>7 DEF UpsertChannel
<1>9. /\ UNCHANGED <<chanA, row, protocols, position, posA, trade, closeTask, inC,
                     offerA, offerC, processed, reverts, revertAsk, confirm, proposed, crashes>>
      /\ spend' = x /\ contract' \in {contract, "Attested"}
      /\ contract' # contract => x = "cet"
  BY <1>1, <1>3
<1>10. events' \in Seq([type : EventTypes, ref : ProtocolIds])
  BY <1>0, <1>7, <1>8, EventType
<1>11. Types'
  BY <1>0, <1>7, <1>9, <1>10 DEF Types, TypeOK, ShapesOK
<1>12. EventsOK'
  BY <1>0, <1>4, <1>6, <1>7, <1>8, <1>9, EventAppended DEF IInv
<1>13. ~ AfterSettlement'
  BY <1>7 DEF AfterSettlement
<1>14. contract' = "Attested" => spend' = "cet"
  BY <1>4, <1>9 DEF IInv, SpentOK
<1> QED BY <1>4, <1>7, <1>9, <1>11, <1>12, <1>13, <1>14, ChannelMoves DEF IInv, PositionOK, Leaving

\* dlc_manager.periodic_check of the app.
LEMMA PeriodicCheckAStep ==
    ASSUME IInv, PeriodicCheckA
    PROVE  IInv'
<1>0. Types /\ TypeOK
  BY DEF IInv, Types
<1>1. PICK o \in Observes(chanA) :
        /\ spend' = o[4]
        /\ chanA' = [chanA EXCEPT !.state = o[3]]
        /\ UNCHANGED <<chanC, contract, events, row, protocols, position, posA, trade,
                       closeTask, inC, offerA, offerC, processed, reverts, revertAsk, confirm,
                       proposed, crashes>>
  BY DEF PeriodicCheckA
<1>2. /\ o[3] \in ChannelStates \ {"Settled", "CloseReceived"}
      /\ spend' \in {"buffer", "cet", "settle", "close"}
      /\ spend' = spend \/ (spend = "buffer" /\ spend' \in {"buffer", "cet"})
  <2>1. /\ o[3] \in {"SignedClosing", "Closing", "SettledClosing", "Closed", "CounterClosed",
                    "CollaborativelyClosed"}
        /\ o[4] \in {"buffer", "cet", "settle", "close"}
        /\ o[4] = spend \/ spend = "buffer"
        /\ spend = "buffer" => o[4] \in {"buffer", "cet"}
    BY ChainStep
  <2> QED BY <1>1, <2>1 DEF ChannelStates, SignedStates, ClosedStates
<1>3. chanA' \in Channel /\ chanA'.state = o[3]
  BY <1>0, <1>1, <1>2 DEF TypeOK, Channel
<1>4. Types'
  BY <1>0, <1>1, <1>2, <1>3 DEF Types, TypeOK, ShapesOK
<1>5. EventsOK'
  BY <1>1, <1>2 DEF IInv, EventsOK
<1>6. /\ AfterSettlement' => AfterSettlement
      /\ spend' = "close" => Leaving
  BY <1>1, <1>2 DEF AfterSettlement, Leaving
<1>7. contract' = "Attested" => spend' = "cet"
  BY <1>1, <1>2 DEF IInv, SpentOK
<1> QED BY <1>1, <1>2, <1>3, <1>4, <1>5, <1>6, <1>7, ChannelMoves

-----------------------------------------------------------------------------
(* Events, the operator's routes, reverts and restarts *)

\* Reading the first event keeps EventsOK.
LEMMA EventTaken ==
    ASSUME Types, EventsOK, events # <<>>, events' = Tail(events), spend' = spend
    PROVE  /\ EventsOK' /\ events' \in Seq([type : EventTypes, ref : ProtocolIds])
           /\ Head(events) \in [type : EventTypes, ref : ProtocolIds]
           /\ Head(events).type = "CollaborativelyClosed" =>
                  spend = "close" \/ Head(events).ref = NoProtocol
<1>0. events \in Seq([type : EventTypes, ref : ProtocolIds])
  BY DEF Types, TypeOK
<1>1. /\ events' \in Seq([type : EventTypes, ref : ProtocolIds])
      /\ Head(events) \in [type : EventTypes, ref : ProtocolIds]
      /\ Len(events) \in Nat /\ Len(events) >= 1 /\ Len(events') = Len(events) - 1
      /\ Head(events) = events[1]
  <2>1. events' \in Seq([type : EventTypes, ref : ProtocolIds])
    BY <1>0
  <2>2. Head(events) \in [type : EventTypes, ref : ProtocolIds] /\ Head(events) = events[1]
    BY <1>0, NonEmptySeq
  <2>3. Len(events) \in Nat /\ Len(events) # 0
    BY <1>0, NonEmptySeq
  <2>4. Len(events') = Len(events) - 1
    BY <1>0
  <2> QED BY <2>1, <2>2, <2>3, <2>4
<1>2. \A k \in 1 .. Len(events') : k + 1 \in 1 .. Len(events) /\ events'[k] = events[k + 1]
  BY <1>0, <1>1
<1>3. 1 \in 1 .. Len(events)
  BY <1>1
<1> QED BY <1>1, <1>2, <1>3 DEF EventsOK

\* process_dlc_channel_event.
LEMMA ProcessEventStep ==
    ASSUME IInv, process_dlc_channel_event
    PROVE  IInv'
<1>0. Types /\ TypeOK
  BY DEF IInv, Types
<1>1. UNCHANGED <<chanC, chanA, contract, posA, trade, spend, closeTask, inC, offerA, offerC,
                  processed, reverts, revertAsk, confirm, proposed, crashes>>
      /\ events' = Tail(events) /\ events # <<>>
  BY DEF process_dlc_channel_event
<1>2. PICK e \in [type : EventTypes, ref : ProtocolIds] : e = Head(events)
  BY <1>0, <1>1, EventTaken DEF IInv
<1>3. /\ EventsOK' /\ events' \in Seq([type : EventTypes, ref : ProtocolIds])
      /\ e.type = "CollaborativelyClosed" => spend = "close" \/ e.ref = NoProtocol
  BY <1>0, <1>1, <1>2, EventTaken DEF IInv
<1>4. CASE /\ EventHandled(e) /\ RowAfter(e) /\ position' = PositionAfter(e)
           /\ IF e.type = "CollaborativelyClosed"
              THEN set_dlc_protocol_state_to_success(e.ref, FALSE)
              ELSE protocols' = protocols
  <2>0. e.type \in EventTypes /\ e.ref \in ProtocolIds
    OBVIOUS
  <2>1. row' \in [state : RowStates, open : ProtocolIds]
    BY <1>0, <1>4, <2>0 DEF RowAfter, insert_pending_dlc_channel, SetRowByProtocol, SetRowClosing,
       set_channel_closed, TypeOK, RowStates
  <2>2. /\ position' \in {"None", "Open", "Closing", "Closed"}
        /\ position' = "Open" => position = "Open"
    BY <1>0, <1>4 DEF PositionAfter, TypeOK
  <2>3. e.type = "CollaborativelyClosed" => e.ref \in Protocols /\ spend = "close"
    BY <1>3, <1>4, <2>0 DEF EventHandled, Found, ProtocolIds
  <2>4. /\ protocols' \in [Protocols -> ProtocolRow]
        /\ \A q \in Protocols : protocols'[q].type = protocols[q].type
        /\ \A q \in Protocols : protocols'[q].state = protocols[q].state \/ spend = "close"
        /\ \A q \in Protocols : protocols[q] # NoRow => protocols'[q] # NoRow
    <3>1. CASE e.type = "CollaborativelyClosed"
      <4>1. PICK w \in ProtocolRow : /\ w = [protocols[e.ref] EXCEPT !.state = "Success", !.contract = FALSE]
                                     /\ w.type = protocols[e.ref].type /\ w.state = "Success"
        <5>1. protocols[e.ref] \in ProtocolRow
          BY <1>0, <2>3, <3>1 DEF TypeOK
        <5>2. PICK v \in ProtocolRow : v = protocols[e.ref]
          BY <5>1
        <5>3. [v EXCEPT !.state = "Success", !.contract = FALSE] \in ProtocolRow
          BY DEF ProtocolRow
        <5> QED BY <5>2, <5>3 DEF ProtocolRow
      <4>2. protocols' = [protocols EXCEPT ![e.ref] = w]
        BY <1>0, <1>4, <2>3, <3>1, <4>1 DEF set_dlc_protocol_state_to_success, TypeOK, ProtocolRow
      <4> QED BY ZenonT(40), <1>0, <2>3, <3>1, <4>1, <4>2 DEF TypeOK, NoRow
    <3>2. CASE e.type # "CollaborativelyClosed"
      BY <1>0, <1>4, <3>2 DEF TypeOK
    <3> QED BY <3>1, <3>2
  <2>5. row'.state = "Closed" => row.state = "Closed" \/ spend \in {"close", "cet"}
    <3>1. CASE e.type \in {"Closed", "CounterClosed"}
      <4>1. contract = "Attested"
        BY <1>4, <3>1 DEF EventHandled
      <4> QED BY <4>1 DEF IInv, SpentOK
    <3>2. CASE e.type = "CollaborativelyClosed"
      BY <2>3, <3>2
    <3>3. CASE e.type \notin {"Closed", "CounterClosed", "CollaborativelyClosed"}
      BY <1>0, <1>4, <3>3 DEF RowAfter, insert_pending_dlc_channel, SetRowByProtocol, SetRowClosing,
         TypeOK, RowStates
    <3> QED BY <3>1, <3>2, <3>3
  <2>6. Types'
    BY <1>0, <1>1, <1>3, <2>1, <2>2, <2>4 DEF Types, TypeOK, ShapesOK
  <2>7. TradeOK'
    <3>1. trade.pc \in {"run", "finish"} => trade.ref \in Protocols
      BY <1>0 DEF TypeOK, Trades, NoTrade
    <3> QED BY <1>1, <2>4, <3>1 DEF IInv, TradeOK
  <2>8. SpentOK'
    BY <1>1, <2>4, <2>5 DEF IInv, SpentOK, ClosedOnlyWhenSpent
  <2>9. PositionOK'
    <3>1. HasRow => HasRow'
      BY <2>4 DEF HasRow
    <3> QED BY <1>1, <2>2, <3>1 DEF IInv, PositionOK, AfterSettlement, Opening, Leaving
  <2> QED BY <1>3, <2>6, <2>7, <2>8, <2>9 DEF IInv
<1>5. CASE UNCHANGED <<row, position, protocols>>
  <2>1. Types'
    BY <1>0, <1>1, <1>3, <1>5 DEF Types, TypeOK, ShapesOK
  <2>2. TradeOK'
    BY <1>1, <1>5 DEF IInv, TradeOK
  <2>3. SpentOK'
    BY <1>1, <1>5 DEF IInv, SpentOK, ClosedOnlyWhenSpent
  <2>4. PositionOK'
    BY <1>1, <1>5 DEF IInv, PositionOK, AfterSettlement, Opening, Leaving, HasRow
  <2> QED BY <1>3, <2>1, <2>2, <2>3, <2>4 DEF IInv
<1> QED BY <1>2, <1>4, <1>5 DEF process_dlc_channel_event

\* delete_dlc_channel of the admin routes.
LEMMA DeleteChannelStep ==
    ASSUME IInv, DeleteChannel
    PROVE  IInv'
<1>0. Types /\ TypeOK
  BY DEF IInv, Types
<1>1. /\ chanC' \in Channel /\ chanC'.state = "None" /\ chanC.ref \in ProtocolIds
      /\ events' = Append(events, Event("Deleted", chanC.ref))
  BY <1>0 DEF DeleteChannel, TypeOK, Channel, ChannelStates, ProtocolIds
<1>2. UNCHANGED <<chanA, contract, row, protocols, position, posA, trade, spend, closeTask,
                  inC, offerA, offerC, processed, reverts, revertAsk, confirm, proposed, crashes>>
  BY DEF DeleteChannel
<1>3. "Deleted" \in EventTypes
  BY DEF EventTypes
<1>4. events' \in Seq([type : EventTypes, ref : ProtocolIds])
  BY <1>0, <1>1, <1>3, EventType
<1>5. Types'
  BY <1>0, <1>1, <1>2, <1>4 DEF Types, TypeOK, ShapesOK
<1>6. EventsOK'
  BY <1>0, <1>1, <1>2, <1>3, EventAppended DEF IInv
<1>7. /\ ~ AfterSettlement'
      /\ contract = "Attested" => spend = "cet"
      /\ chanA.state = "CloseReceived" => offerC # NoOffer
      /\ spend = "close" => Leaving
  BY <1>1 DEF AfterSettlement, IInv, SpentOK, PositionOK, Leaving
<1> QED BY <1>1, <1>2, <1>5, <1>6, <1>7, ChannelMoves

\* roll_back_dlc_channel of the admin routes.
LEMMA RollBackChannelStep ==
    ASSUME IInv, RollBackChannel
    PROVE  IInv'
<1>0. Types /\ TypeOK
  BY DEF IInv, Types
<1>1. PICK s \in {"Established", "Settled"} : s = chanC.back
  BY <1>0 DEF RollBackChannel, Types, ShapesOK
<1>2. /\ chanC' \in Channel /\ chanC'.state = s /\ chanC'.ref = chanC.ref /\ chanC.ref \in ProtocolIds
      /\ chanC'.payout = chanC.payout
  BY <1>0, <1>1 DEF RollBackChannel, UpsertChannel, TypeOK, Channel, ChannelStates, SignedStates
<1>3. events' = Append(events, Event(s, chanC.ref))
  BY <1>1, <1>2 DEF RollBackChannel, UpsertChannel
<1>4. UNCHANGED <<chanA, contract, row, protocols, position, posA, trade, spend, closeTask,
                  inC, offerA, offerC, processed, reverts, revertAsk, confirm, proposed, crashes>>
      /\ chanC.state = "Updating"
  BY DEF RollBackChannel
<1>5. s \in EventTypes
  BY DEF EventTypes
<1>6. events' \in Seq([type : EventTypes, ref : ProtocolIds])
  BY <1>0, <1>2, <1>3, <1>5, EventType
<1>7. Types'
  BY <1>0, <1>1, <1>2, <1>4, <1>6 DEF Types, TypeOK, ShapesOK
<1>8. EventsOK'
  BY <1>0, <1>2, <1>3, <1>4, <1>5, EventAppended DEF IInv
<1>9. TradeOK'
  BY <1>4 DEF IInv, TradeOK
<1>10. SpentOK'
  BY <1>4 DEF IInv, SpentOK, ClosedOnlyWhenSpent
<1>11. PositionOK'
  <2>1. AfterSettlement' => AfterSettlement
    BY <1>1, <1>2, <1>4 DEF AfterSettlement
  <2>2. Leaving' = Leaving /\ Opening' = Opening /\ HasRow' = HasRow
    BY <1>4 DEF Leaving, Opening, HasRow
  <2> QED BY <1>2, <1>4, <2>1, <2>2 DEF IInv, PositionOK
<1> QED BY <1>7, <1>8, <1>9, <1>10, <1>11 DEF IInv

\* The steps of a collaborative revert.
LEMMA RevertStep ==
    ASSUME IInv, RevertSteps
    PROVE  IInv'
<1>0. Types /\ TypeOK
  BY DEF IInv, Types
<1>1. CASE propose_collaborative_revert
  <2>1. revertAsk' \in BOOLEAN
    BY <1>0, <1>1, Zenon DEF propose_collaborative_revert, TypeOK
  <2>2. reverts' \in 0 .. MaxReverts /\ proposed' \in 0 .. MaxReverts /\ reverts' <= proposed'
    BY <1>0, <1>1, ClosingAssumption DEF propose_collaborative_revert, Types, TypeOK, ShapesOK
  <2>3. Types'
    BY <1>0, <1>1, <2>1, <2>2 DEF propose_collaborative_revert, Types, TypeOK, ShapesOK
  <2> QED BY <1>1, <2>3, Aside DEF propose_collaborative_revert
<1>2. CASE process_pending_collaborative_revert
  <2>1. Types'
    BY <1>0, <1>2 DEF process_pending_collaborative_revert, Types, TypeOK, ShapesOK
  <2> QED BY <1>2, <2>1, Aside DEF process_pending_collaborative_revert
<1>3. CASE collaborative_revert_channel
  <2>1. revertAsk' \in BOOLEAN /\ confirm' \in {"none", "posted"}
    BY <1>3 DEF collaborative_revert_channel
  <2>2. UNCHANGED <<chanC, chanA, contract, events, row, protocols, position, posA, trade, spend,
                    closeTask, inC, offerA, offerC, processed, reverts, proposed, crashes>>
    BY <1>3 DEF collaborative_revert_channel
  <2>3. Types'
    BY <1>0, <2>1, <2>2 DEF Types, TypeOK, ShapesOK
  <2> QED BY <1>3, <2>3, Aside DEF collaborative_revert_channel
<1>4. CASE ConfirmBroadcast
  <2>1. Types'
    BY <1>0, <1>4 DEF ConfirmBroadcast, Types, TypeOK, ShapesOK
  <2> QED BY <1>4, <2>1, Aside DEF ConfirmBroadcast
<1>5. CASE ConfirmPosition
  <2>1. Types'
    BY <1>0, <1>5 DEF ConfirmPosition, Types, TypeOK, ShapesOK
  <2>2. position' # "Open"
    BY <1>5 DEF ConfirmPosition
  <2>3. UNCHANGED <<chanC, chanA, contract, events, row, protocols, trade, spend, closeTask, offerA, offerC>>
    BY <1>5 DEF ConfirmPosition
  <2>4. EventsOK' /\ TradeOK'
    BY <2>3 DEF IInv, EventsOK, TradeOK
  <2>5. SpentOK'
    BY <2>3 DEF IInv, SpentOK, ClosedOnlyWhenSpent
  <2>6. PositionOK'
    BY <2>2, <2>3 DEF IInv, PositionOK, AfterSettlement, Opening, Leaving, HasRow
  <2> QED BY <2>1, <2>4, <2>5, <2>6 DEF IInv
<1>6. CASE ConfirmDelete
  <2>1. Types'
    BY <1>0, <1>6, ClosingAssumption DEF ConfirmDelete, Types, TypeOK, ShapesOK
  <2> QED BY <1>6, <2>1, Aside DEF ConfirmDelete
<1>7. CASE ConfirmUpsert
  <2>1. /\ chanC' \in Channel /\ chanC'.state = "CollaborativelyClosed"
        /\ NoProtocol \in ProtocolIds /\ chanC'.ref = NoProtocol
    BY <1>0, <1>7 DEF ConfirmUpsert, UpsertChannel, TypeOK, Channel, ChannelStates, ClosedStates, ProtocolIds
  <2>2. events' = Append(events, Event("CollaborativelyClosed", NoProtocol))
    BY <1>7, <2>1 DEF ConfirmUpsert, UpsertChannel
  <2>3. UNCHANGED <<chanA, contract, row, protocols, position, posA, trade, spend, closeTask,
                    inC, offerA, offerC, processed, reverts, revertAsk, proposed, crashes>>
        /\ confirm' = "confirmed"
    BY <1>7 DEF ConfirmUpsert
  <2>4. "CollaborativelyClosed" \in EventTypes
    BY DEF EventTypes
  <2>5. events' \in Seq([type : EventTypes, ref : ProtocolIds])
    BY <1>0, <2>1, <2>2, <2>4, EventType
  <2>6. Types'
    BY <1>0, <2>1, <2>3, <2>5 DEF Types, TypeOK, ShapesOK
  <2>7. EventsOK'
    BY <1>0, <2>1, <2>2, <2>3, <2>4, EventAppended DEF IInv
  <2>8. /\ ~ AfterSettlement'
        /\ contract = "Attested" => spend = "cet"
        /\ chanA.state = "CloseReceived" => offerC # NoOffer
        /\ spend = "close" => Leaving
    BY <2>1 DEF AfterSettlement, IInv, SpentOK, PositionOK, Leaving
  <2> QED BY <2>1, <2>3, <2>6, <2>7, <2>8, ChannelMoves
<1>8. CASE update_state_after_collab_revert
  <2>1. /\ chanA' \in Channel /\ posA' \in BOOLEAN
        /\ chanA' = chanA \/ chanA'.state = "CollaborativelyClosed"
    BY <1>0, <1>8 DEF update_state_after_collab_revert, TypeOK, Channel, ChannelStates, ClosedStates, ProtocolIds
  <2>2. Types'
    BY <1>0, <1>8, <2>1 DEF update_state_after_collab_revert, Types, TypeOK, ShapesOK
  <2> QED BY <1>8, <2>1, <2>2, Aside DEF update_state_after_collab_revert
<1> QED BY <1>1, <1>2, <1>3, <1>4, <1>5, <1>6, <1>7, <1>8 DEF RevertSteps

\* A restart of the coordinator.
LEMMA RestartStep ==
    ASSUME IInv, Restart
    PROVE  IInv'
<1>0. Types /\ TypeOK
  BY DEF IInv, Types
<1>1. /\ UNCHANGED <<chanC, chanA, contract, row, protocols, position, posA, spend, offerA,
                     offerC, processed, reverts, revertAsk, proposed>>
      /\ events' = <<>> /\ trade' = NoTrade /\ closeTask' = NoProtocol /\ inC' = NoOffer
      /\ trade'.kind = "None" /\ trade'.pc = "done" /\ trade'.ref = NoProtocol
  BY DEF Restart, NoTrade
<1>2. crashes' \in 0 .. MaxCrashes
  BY <1>0, ClosingAssumption DEF Restart, TypeOK
<1>3. trade' \in Trades /\ closeTask' \in ProtocolIds
  BY <1>1 DEF Trades, ProtocolIds
<1>4. confirm' \in {"none", "posted", "broadcast", "closed", "deleted", "confirmed", "refused"}
  BY <1>0 DEF Restart, TypeOK
<1>5. Types'
  BY <1>0, <1>1, <1>2, <1>3, <1>4 DEF Types, TypeOK, ShapesOK
<1>6. EventsOK'
  BY <1>1 DEF EventsOK
<1>7. TradeOK'
  BY <1>1 DEF TradeOK
<1>8. SpentOK'
  BY <1>1 DEF IInv, SpentOK, ClosedOnlyWhenSpent
<1>9. PositionOK'
  BY <1>1 DEF IInv, PositionOK, AfterSettlement, Opening, Leaving, HasRow
<1> QED BY <1>5, <1>6, <1>7, <1>8, <1>9 DEF IInv

-----------------------------------------------------------------------------
(* Theorems *)

\* The initial state.
LEMMA InitIInv ==
    ASSUME Init
    PROVE  IInv
<1>1. chanC.state = "None" /\ chanC.ref = NoProtocol /\ chanC.back = "None" /\ chanC.payout = 0
      /\ chanA = chanC /\ trade.kind = "None" /\ trade.pc = "done" /\ trade.ref = NoProtocol
  BY DEF Init, NoTrade
<1>2. TypeOK
  <2>1. chanC \in Channel /\ chanA \in Channel
    BY DEF Init, Channel, ChannelStates, ProtocolIds
  <2>2. row \in [state : RowStates, open : ProtocolIds]
    BY DEF Init, RowStates, ProtocolIds
  <2>3. protocols \in [Protocols -> ProtocolRow]
    BY DEF Init, ProtocolRow, ProtocolTypes, NoRow
  <2>4. trade \in Trades /\ closeTask \in ProtocolIds
    BY DEF Init, Trades, ProtocolIds
  <2>5. {inC, offerA, offerC} \subseteq CloseOffer \cup {NoOffer} /\ processed \subseteq Protocols
    BY DEF Init
  <2>6. reverts \in 0 .. MaxReverts /\ proposed \in 0 .. MaxReverts /\ crashes \in 0 .. MaxCrashes
    BY ClosingAssumption DEF Init
  <2>7. /\ contract = "None" /\ position = "None" /\ spend = "none" /\ confirm = "none"
        /\ posA \in BOOLEAN /\ revertAsk \in BOOLEAN
    BY DEF Init
  <2>8. events \in Seq([type : EventTypes, ref : ProtocolIds])
    BY DEF Init
  <2> QED BY <2>1, <2>2, <2>3, <2>4, <2>5, <2>6, <2>7, <2>8 DEF TypeOK
<1>3. ShapesOK
  BY <1>1 DEF Init, ShapesOK
<1>4. TradeOK /\ EventsOK
  BY <1>1 DEF Init, TradeOK, EventsOK
<1>5. SpentOK
  BY DEF Init, SpentOK, ClosedOnlyWhenSpent, NoRow
<1>6. PositionOK
  BY <1>1 DEF Init, PositionOK, AfterSettlement, Opening, Leaving
<1> QED BY <1>2, <1>3, <1>4, <1>5, <1>6 DEF IInv, Types

\* Every step preserves the invariant.
LEMMA NextIInv ==
    ASSUME IInv, [Next]_vars
    PROVE  IInv'
<1>1. CASE TradeSteps
  BY <1>1, ProposeTradeStep, StoreTradeStep, CompleteTradeStep, FinishTradeStep, RejectTradeStep
     DEF TradeSteps
<1>2. CASE CloseSteps
  BY <1>2, CloseDlcChannelStep, CloseChannelAStep, StartCloseStep, VerifyCloseOfferStep,
     ProcessCloseOfferCStep, AcceptCloseCStep, ProcessCloseOfferAStep, AcceptCloseAStep DEF CloseSteps
<1>3. CASE ForceCloseSteps
  BY <1>3, ForceCloseStep, ForceCloseAStep, PeriodicCheckCStep, PeriodicCheckAStep DEF ForceCloseSteps
<1>4. CASE UNCHANGED vars
  <2>1. Types'
    BY <1>4 DEF vars, IInv, Types, TypeOK, ShapesOK
  <2> QED BY <1>4, <2>1, Aside DEF vars
<1> QED BY <1>1, <1>2, <1>3, <1>4, RevertStep, ProcessEventStep, DeleteChannelStep,
     RollBackChannelStep, RestartStep DEF Next

\* The invariant holds in every reachable state, whatever the events, rows and channels
\* are delayed or lost by a restart.
THEOREM Invariance == Spec => []IInv
<1> QED BY InitIInv, NextIInv, PTL DEF Spec

\* Every variable keeps its type: no step of a trade, close, force close, revert or
\* restart leaves the tables or the stores of rust-dlc.
THEOREM TypeCorrect == Spec => []TypeOK
<1>1. IInv => TypeOK
  BY DEF IInv, Types
<1> QED BY <1>1, Invariance, PTL

\* A channel row that is Closed (set_channel_closed) and a Close protocol that succeeded
\* have their transaction on the chain.
THEOREM ClosedOnlyWhenSpentAlways == Spec => []ClosedOnlyWhenSpent
<1>1. IInv => ClosedOnlyWhenSpent
  BY DEF IInv, SpentOK
<1> QED BY <1>1, Invariance, PTL

\* A collaborative close never leaves a position open: close_dlc_channel and
\* verify_collab_close_offer need a settled channel, and neither a rejection, a roll
\* back nor a late finish_dlc_protocol reopens the position afterwards.
THEOREM NoOpenPositionAfterCloseAlways == Spec => []NoOpenPositionAfterClose
<1>1. IInv => NoOpenPositionAfterClose
  BY DEF IInv, PositionOK, Leaving, NoOpenPositionAfterClose
<1> QED BY <1>1, Invariance, PTL

=============================================================================
