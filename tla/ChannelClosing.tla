--------------------------- MODULE ChannelClosing ---------------------------
(***************************************************************************)
(* The life of one DLC channel from its offer to the spending of its       *)
(* funding output: collaborative close, force close and collaborative      *)
(* revert, the channel events that rust-dlc's storage emits, and the       *)
(* coordinator's tables dlc_channels, dlc_protocols, positions and         *)
(* collaborative_reverts that follow them.                                 *)
(*                                                                         *)
(* TradeProtocol has the messages of a trade; here a trade is an offer,    *)
(* its row, its answer and its end.  rust-dlc and the blockchain are       *)
(* external.                                                               *)
(***************************************************************************)
EXTENDS Naturals, Sequences

CONSTANTS
    Protocols,     \* reference ids of protocols, each used once
    NoProtocol,    \* no reference id
    Payouts,       \* the coordinator's share of a settled channel
    MaxReverts,    \* how often an operator proposes to revert the channel
    MaxCrashes     \* how often the coordinator is restarted

ASSUME ClosingAssumption ==
    /\ NoProtocol \notin Protocols
    /\ Payouts # {}
    /\ MaxReverts \in Nat
    /\ MaxCrashes \in Nat

VARIABLES
    chanC,      \* the channel in the coordinator's store of rust-dlc
    chanA,      \* the channel in the app's store of rust-dlc
    contract,   \* what the coordinator knows of the contract in force
    events,     \* channel events the coordinator has not processed yet
    row,        \* the row of dlc_channels
    protocols,  \* dlc_protocols
    position,   \* state of the latest row of positions
    posA,       \* whether the app has a position
    trade,      \* the trade protocol in progress
    spend,      \* what spends the funding output
    closeTask,  \* close_dlc_channel between the offer and its row
    inC,        \* a close offer the coordinator is processing
    offerA,     \* the app's last close offer, sent until it is processed
    offerC,     \* the coordinator's last close offer
    processed,  \* close offers recorded in dlc_messages of either side
    reverts,    \* rows of collaborative_reverts
    revertAsk,  \* whether the app was asked to sign a revert
    confirm,    \* the app's request to confirm a revert
    proposed,   \* number of reverts proposed so far
    crashes     \* number of restarts so far

vars == <<chanC, chanA, contract, events, row, protocols, position, posA, trade, spend,
          closeTask, inC, offerA, offerC, processed, reverts, revertAsk, confirm,
          proposed, crashes>>

ProtocolIds == Protocols \cup {NoProtocol}

\* Channel and SignedChannelState; "Updating" stands for the states of a settlement
\* or renewal in progress, "CloseReceived" for a close offer of the other side.
SignedStates ==
    {"Established", "Settled", "Updating", "CloseOffered", "CloseReceived",
     "SignedClosing", "SignedSettledClosing"}
ClosedStates == {"Closed", "CounterClosed", "CollaborativelyClosed"}
ChannelStates ==
    {"None", "Offered", "Cancelled", "Closing", "SettledClosing"} \cup SignedStates \cup ClosedStates

Channel ==
    [state : ChannelStates, ref : ProtocolIds, back : {"None", "Established", "Settled"},
     payout : Payouts \cup {0}]

\* The events of the intermediate states do nothing and are left out.
EventTypes ==
    {"Offered", "Established", "Settled", "SettledClosing", "Closing", "CollaborativeCloseOffered",
     "Closed", "CounterClosed", "CollaborativelyClosed", "Cancelled", "Deleted"}
Event(type, ref) == [type |-> type, ref |-> ref]

RowStates == {"None", "Pending", "Open", "Closing", "Closed", "Failed", "Cancelled"}
ProtocolTypes == {"None", "OpenChannel", "OpenPosition", "Settle", "Close"}
ProtocolRow ==
    [type : ProtocolTypes, state : {"None", "Pending", "Success", "Failed"}, contract : BOOLEAN]
NoRow == [type |-> "None", state |-> "None", contract |-> FALSE]

CloseOffer == [ref : Protocols, payout : Payouts]
NoOffer == [ref |-> NoProtocol, payout |-> 0]
NoTrade == [kind |-> "None", ref |-> NoProtocol, pc |-> "done", payout |-> 0]
Trades ==
    {NoTrade} \cup [kind : {"OpenChannel", "OpenPosition", "Settle"}, ref : Protocols,
                    pc : {"store", "run", "finish"}, payout : Payouts \cup {0}]

\* Reference ids that were never used.
Unused ==
    {p \in Protocols :
        /\ protocols[p] = NoRow
        /\ p \notin {chanC.ref, chanA.ref, trade.ref, offerA.ref, offerC.ref, row.open, inC.ref}
        /\ p \notin processed
        /\ \A i \in 1 .. Len(events) : events[i].ref # p}

\* ProtocolId::new(); which of the unused ids it is makes no difference.
Fresh(p) == p \in Unused /\ p = CHOOSE q \in Unused : TRUE

-----------------------------------------------------------------------------
(* db/dlc_protocols.rs and db/dlc_channels.rs *)

\* create; the protocol id is unique.
CanCreate(p) == protocols[p] = NoRow
create(p, type, hasContract) ==
    protocols' = [protocols EXCEPT ![p] = [type |-> type, state |-> "Pending", contract |-> hasContract]]

set_dlc_protocol_state_to_success(p, hasContract) ==
    protocols' = [protocols EXCEPT ![p].state = "Success", ![p].contract = hasContract]

set_dlc_protocol_state_to_failed(p) ==
    protocols' = [protocols EXCEPT ![p].state = "Failed"]

insert_pending_dlc_channel(p) == row' = [state |-> "Pending", open |-> p]

\* set_dlc_channel_open, set_channel_failed, set_channel_cancelled: by open protocol id.
SetRowByProtocol(p, s) == row' = IF row.open = p THEN [row EXCEPT !.state = s] ELSE row

\* set_channel_force_closing_settled, set_channel_force_closing,
\* set_channel_collab_closing: by channel id.
SetRowClosing == row' = IF row.open = NoProtocol THEN row ELSE [row EXCEPT !.state = "Closing"]

set_channel_closed == row' = IF row.open = NoProtocol THEN row ELSE [row EXCEPT !.state = "Closed"]

\* DlcStorageProvider::upsert_channel: the channel is stored, then its event is sent.
UpsertChannel(ch, type) ==
    /\ chanC' = ch
    /\ events' = Append(events, Event(type, ch.ref))

-----------------------------------------------------------------------------
(* Trades, seen from the channel *)

StateAfter(kind) == IF kind = "Settle" THEN "Settled" ELSE "Established"
StateBefore(kind) ==
    CASE kind = "OpenChannel" -> "None"
      [] kind = "OpenPosition" -> "Settled"
      [] OTHER -> "Established"

\* The offer of a trade: propose_dlc_channel, propose_reopen_or_resize,
\* propose_dlc_channel_collaborative_settlement.
ProposeTrade(kind, p, payout) ==
    /\ trade = NoTrade /\ chanC.state = StateBefore(kind) /\ Fresh(p)
    /\ kind = "OpenChannel" => \A q \in Protocols : protocols[q] = NoRow
    /\ IF kind = "Settle" THEN payout \in Payouts ELSE payout = 0
    /\ trade' = [kind |-> kind, ref |-> p, pc |-> "store", payout |-> payout]
    /\ IF kind = "OpenChannel"
       THEN UpsertChannel([chanC EXCEPT !.state = "Offered", !.ref = p], "Offered")
       ELSE /\ chanC' = [chanC EXCEPT !.state = "Updating", !.ref = p, !.back = chanC.state]
            /\ events' = events
    /\ UNCHANGED <<chanA, contract, row, protocols, position, posA, spend, closeTask, inC,
                   offerA, offerC, processed, reverts, revertAsk, confirm, proposed, crashes>>

\* The position is left as it is when its settlement starts.
Bug_StoreTrade ==
    /\ trade.pc = "store"
    /\ create(trade.ref, trade.kind, TRUE)
    /\ trade' = [trade EXCEPT !.pc = "run"]
    /\ UNCHANGED <<chanC, chanA, contract, events, row, position, posA, spend, closeTask, inC,
                   offerA, offerC, processed, reverts, revertAsk, confirm, proposed, crashes>>

\* start_open_channel_protocol, start_settle_protocol, ...; a settlement sets the
\* open position to Closing.
StoreTrade ==
    /\ trade.pc = "store"
    /\ create(trade.ref, trade.kind, TRUE)
    /\ position' = IF trade.kind = "Settle" /\ position = "Open" THEN "Closing" ELSE position
    /\ trade' = [trade EXCEPT !.pc = "run"]
    /\ UNCHANGED <<chanC, chanA, contract, events, row, posA, spend, closeTask, inC,
                   offerA, offerC, processed, reverts, revertAsk, confirm, proposed, crashes>>

\* Whether the channel is still in the protocol of the trade.
TradeRuns ==
    /\ trade.pc = "run" /\ chanC.ref = trade.ref
    /\ chanC.state = IF trade.kind = "OpenChannel" THEN "Offered" ELSE "Updating"

\* Both sides complete the protocol in rust-dlc.
CompleteTrade ==
    /\ TradeRuns
    /\ chanA.state = StateBefore(trade.kind)
    /\ LET ch == [chanC EXCEPT !.state = StateAfter(trade.kind), !.back = "None",
                               !.payout = trade.payout]
       IN  /\ UpsertChannel(ch, ch.state)
           /\ chanA' = ch
    /\ contract' = IF trade.kind = "Settle" THEN "Settled" ELSE "Confirmed"
    /\ posA' = (trade.kind # "Settle")
    /\ trade' = [trade EXCEPT !.pc = "finish"]
    /\ UNCHANGED <<row, protocols, position, spend, closeTask, inC, offerA, offerC,
                   processed, reverts, revertAsk, confirm, proposed, crashes>>

\* DlcProtocolExecutor::finish_dlc_protocol of the trade.
FinishTrade ==
    /\ trade.pc = "finish"
    /\ set_dlc_protocol_state_to_success(trade.ref, TRUE)
    /\ position' = IF trade.kind = "Settle"
                   THEN IF position = "Closing" THEN "Closed" ELSE position
                   ELSE "Open"
    /\ trade' = NoTrade
    /\ UNCHANGED <<chanC, chanA, contract, events, row, posA, spend, closeTask, inC,
                   offerA, offerC, processed, reverts, revertAsk, confirm, proposed, crashes>>

\* The app rejects the offer: rust-dlc puts the channel back, the reference id stays.
RejectTrade ==
    /\ TradeRuns
    /\ IF trade.kind = "OpenChannel"
       THEN UpsertChannel([chanC EXCEPT !.state = "Cancelled"], "Cancelled")
       ELSE UpsertChannel([chanC EXCEPT !.state = chanC.back, !.back = "None"], chanC.back)
    /\ set_dlc_protocol_state_to_failed(trade.ref)
    /\ position' = IF trade.kind = "Settle" /\ position = "Closing" THEN "Open" ELSE position
    /\ trade' = NoTrade
    /\ UNCHANGED <<chanA, contract, row, posA, spend, closeTask, inC, offerA, offerC,
                   processed, reverts, revertAsk, confirm, proposed, crashes>>

-----------------------------------------------------------------------------
(* Collaborative close *)

\* Node::close_dlc_channel of the coordinator: only in Settled; the offer is sent
\* before the protocol is stored.
close_dlc_channel(p) ==
    /\ chanC.state = "Settled" /\ Fresh(p)
    /\ UpsertChannel([chanC EXCEPT !.state = "CloseOffered", !.ref = p], "CollaborativeCloseOffered")
    /\ offerC' = [ref |-> p, payout |-> chanC.payout]
    /\ closeTask' = p
    /\ UNCHANGED <<chanA, contract, row, protocols, position, posA, trade, spend, inC, offerA,
                   processed, reverts, revertAsk, confirm, proposed, crashes>>

start_close_channel_protocol ==
    /\ closeTask # NoProtocol
    /\ create(closeTask, "Close", FALSE)
    /\ closeTask' = NoProtocol
    /\ UNCHANGED <<chanC, chanA, contract, events, row, position, posA, trade, spend, inC,
                   offerA, offerC, processed, reverts, revertAsk, confirm, proposed, crashes>>

\* close_channel of the app.
CloseChannelA(p) ==
    /\ chanA.state = "Settled" /\ Fresh(p)
    /\ chanA' = [chanA EXCEPT !.state = "CloseOffered", !.ref = p]
    /\ offerA' = [ref |-> p, payout |-> chanA.payout]
    /\ UNCHANGED <<chanC, contract, events, row, protocols, position, posA, trade, spend,
                   closeTask, inC, offerC, processed, reverts, revertAsk, confirm, proposed, crashes>>

\* The checks of verify_collab_close_offer; an offer it refuses is not recorded and
\* comes again with the next connection.
OfferAcceptable(offer) ==
    /\ chanC.state \notin {"None", "Established"}
    /\ chanC.state = "Settled" => chanC.payout = offer.payout
    /\ CanCreate(offer.ref)

\* No protocol is stored for an offer of the app.
Bug_verify_collab_close_offer ==
    /\ inC = NoOffer /\ offerA # NoOffer /\ offerA.ref \notin processed
    /\ OfferAcceptable(offerA)
    /\ inC' = offerA
    /\ UNCHANGED <<chanC, chanA, contract, events, row, protocols, position, posA, trade, spend,
                   closeTask, offerA, offerC, processed, reverts, revertAsk, confirm, proposed, crashes>>

\* verify_collab_close_offer: stores the protocol before rust-dlc sees the offer.
verify_collab_close_offer ==
    /\ inC = NoOffer /\ offerA # NoOffer /\ offerA.ref \notin processed
    /\ OfferAcceptable(offerA)
    /\ create(offerA.ref, "Close", FALSE)
    /\ inC' = offerA
    /\ UNCHANGED <<chanC, chanA, contract, events, row, position, posA, trade, spend, closeTask,
                   offerA, offerC, processed, reverts, revertAsk, confirm, proposed, crashes>>

\* rust-dlc takes a close offer in Settled only.
ProcessCloseOfferC ==
    /\ inC # NoOffer /\ chanC.state # "CloseReceived"
    /\ \/ /\ chanC.state = "Settled"
          /\ UpsertChannel([chanC EXCEPT !.state = "CloseReceived", !.ref = inC.ref],
                           "CollaborativeCloseOffered")
          /\ processed' = processed \cup {inC.ref}
          /\ inC' = inC
       \/ /\ chanC.state # "Settled"
          /\ inC' = NoOffer
          /\ UNCHANGED <<chanC, events, processed>>
    /\ UNCHANGED <<chanA, contract, row, protocols, position, posA, trade, spend, closeTask,
                   offerA, offerC, reverts, revertAsk, confirm, proposed, crashes>>

\* accept_dlc_channel_collaborative_close, called by the message handler and, for an
\* offer left unanswered, by DlcHandler::on_connect: it publishes the transaction.
AcceptCloseC ==
    /\ chanC.state = "CloseReceived" /\ spend = "none"
    /\ spend' = "close"
    /\ UpsertChannel([chanC EXCEPT !.state = "CollaborativelyClosed"], "CollaborativelyClosed")
    /\ inC' = NoOffer
    /\ UNCHANGED <<chanA, contract, row, protocols, position, posA, trade, closeTask, offerA,
                   offerC, processed, reverts, revertAsk, confirm, proposed, crashes>>

ProcessCloseOfferA ==
    /\ offerC # NoOffer /\ offerC.ref \notin processed /\ chanA.state = "Settled"
    /\ chanA' = [chanA EXCEPT !.state = "CloseReceived", !.ref = offerC.ref]
    /\ processed' = processed \cup {offerC.ref}
    /\ UNCHANGED <<chanC, contract, events, row, protocols, position, posA, trade, spend,
                   closeTask, inC, offerA, offerC, reverts, revertAsk, confirm, proposed, crashes>>

\* The app accepts in its message handler or in on_connect.
AcceptCloseA ==
    /\ chanA.state = "CloseReceived" /\ spend = "none"
    /\ spend' = "close"
    /\ chanA' = [chanA EXCEPT !.state = "CollaborativelyClosed"]
    /\ UNCHANGED <<chanC, contract, events, row, protocols, position, posA, trade, closeTask,
                   inC, offerA, offerC, processed, reverts, revertAsk, confirm, proposed, crashes>>

-----------------------------------------------------------------------------
(* Force close and the periodic check of rust-dlc *)

\* The state whose transactions are published when the channel is force-closed.
Stable(ch) ==
    CASE ch.state \in {"Established", "Settled"} -> ch.state
      [] ch.state \in {"CloseOffered", "CloseReceived"} -> "Settled"
      [] ch.state = "Updating" -> ch.back
      [] OTHER -> "None"

TxOf(s) == IF s = "Established" THEN "buffer" ELSE "settle"
ClosingState(s) == IF s = "Established" THEN "SignedClosing" ELSE "SignedSettledClosing"

\* Node::force_close_dlc_channel of the coordinator, with a reference id of its own
\* for which no protocol is stored.
force_close_dlc_channel(p) ==
    /\ Stable(chanC) # "None" /\ spend = "none" /\ Fresh(p)
    /\ spend' = TxOf(Stable(chanC))
    /\ UpsertChannel([chanC EXCEPT !.state = ClosingState(Stable(chanC)), !.ref = p],
                     IF Stable(chanC) = "Established" THEN "Closing" ELSE "SettledClosing")
    /\ UNCHANGED <<chanA, contract, row, protocols, position, posA, trade, closeTask, inC,
                   offerA, offerC, processed, reverts, revertAsk, confirm, proposed, crashes>>

ForceCloseA ==
    /\ Stable(chanA) # "None" /\ spend = "none"
    /\ spend' = TxOf(Stable(chanA))
    /\ chanA' = [chanA EXCEPT !.state = ClosingState(Stable(chanA))]
    /\ UNCHANGED <<chanC, contract, events, row, protocols, position, posA, trade, closeTask,
                   inC, offerA, offerC, processed, reverts, revertAsk, confirm, proposed, crashes>>

\* The steps of the periodic check: what is seen to spend the funding output, the
\* state of the channel, its next state, and what is published then.
ChainSteps ==
    {<<"buffer", "Established", "SignedClosing", "buffer">>,
     <<"cet", "Established", "SignedClosing", "cet">>,
     <<"settle", "Settled", "CounterClosed", "settle">>,
     <<"close", "CloseOffered", "CollaborativelyClosed", "close">>,
     <<"buffer", "SignedClosing", "Closing", "cet">>,
     <<"cet", "SignedClosing", "CounterClosed", "cet">>,
     <<"cet", "Closing", "Closed", "cet">>,
     <<"settle", "SignedSettledClosing", "SettledClosing", "settle">>,
     <<"settle", "SettledClosing", "Closed", "settle">>}

Observes(ch) == {s \in ChainSteps : s[1] = spend /\ s[2] \in {ch.state, Stable(ch)}}

\* DlcChannelEvent::from(Channel) for the states the periodic check leads to.
EventOf(s) == IF s = "SignedClosing" THEN "Closing" ELSE s

\* dlc_manager.periodic_check of the coordinator; a published or observed CET leaves
\* the contract closed with its attestation.
PeriodicCheckC ==
    \E o \in Observes(chanC) :
        /\ spend' = o[4]
        /\ UpsertChannel([chanC EXCEPT !.state = o[3]], EventOf(o[3]))
        /\ contract' = IF o[4] = "cet" /\ o[3] # "SignedClosing" THEN "Attested" ELSE contract
        /\ UNCHANGED <<chanA, row, protocols, position, posA, trade, closeTask, inC,
                       offerA, offerC, processed, reverts, revertAsk, confirm, proposed, crashes>>

PeriodicCheckA ==
    \E o \in Observes(chanA) :
        /\ spend' = o[4]
        /\ chanA' = [chanA EXCEPT !.state = o[3]]
        /\ UNCHANGED <<chanC, contract, events, row, protocols, position, posA, trade,
                       closeTask, inC, offerA, offerC, processed, reverts, revertAsk, confirm,
                       proposed, crashes>>

-----------------------------------------------------------------------------
(* process_dlc_channel_event of the coordinator *)

\* get_dlc_channel_by_reference_id: the channel is found only while it still has
\* the reference id of the event.
Found(e) == e.ref # NoProtocol /\ chanC.ref = e.ref

EventHandled(e) ==
    CASE e.type = "Deleted" -> e.ref # NoProtocol
      [] e.type \in {"Established", "Settled"} ->
            /\ Found(e) /\ chanC.state \in SignedStates
            /\ protocols[e.ref].type \in {"OpenChannel", "OpenPosition", "Settle"}
      [] e.type \in {"Closed", "CounterClosed"} ->
            \* handle_force_closed_event: the protocol's contract, with attestation,
            \* and a position in Closing
            /\ Found(e) /\ protocols[e.ref].contract
            /\ contract = "Attested" /\ position = "Closing"
      [] e.type = "CollaborativelyClosed" -> Found(e) /\ protocols[e.ref] # NoRow
      [] OTHER -> Found(e)

\* The close offer is taken for the close.
Bug_RowAfter(e) ==
    CASE e.type = "Offered" -> insert_pending_dlc_channel(e.ref)
      [] e.type \in {"Established", "Settled"} ->
            IF protocols[e.ref].type = "OpenChannel" THEN SetRowByProtocol(e.ref, "Open") ELSE row' = row
      [] e.type \in {"SettledClosing", "Closing"} -> SetRowClosing
      [] e.type \in {"CollaborativeCloseOffered", "Closed", "CounterClosed",
                     "CollaborativelyClosed"} -> set_channel_closed
      [] e.type = "Cancelled" -> SetRowByProtocol(e.ref, "Cancelled")
      [] OTHER -> SetRowByProtocol(e.ref, "Failed")

\* The table dlc_channels after event e.
RowAfter(e) ==
    CASE e.type = "Offered" -> insert_pending_dlc_channel(e.ref)
      [] e.type \in {"Established", "Settled"} ->
            IF protocols[e.ref].type = "OpenChannel" THEN SetRowByProtocol(e.ref, "Open") ELSE row' = row
      [] e.type \in {"SettledClosing", "Closing", "CollaborativeCloseOffered"} -> SetRowClosing
      [] e.type \in {"Closed", "CounterClosed", "CollaborativelyClosed"} -> set_channel_closed
      [] e.type = "Cancelled" -> SetRowByProtocol(e.ref, "Cancelled")
      [] OTHER -> SetRowByProtocol(e.ref, "Failed")

\* handle_closing_event forgets the position.
Bug_PositionAfter(e) == IF e.type \in {"Closed", "CounterClosed"} THEN "Closed" ELSE position

\* handle_closing_event and handle_force_closed_event also change the position.
PositionAfter(e) ==
    CASE e.type = "Closing" /\ position = "Open" -> "Closing"
      [] e.type \in {"Closed", "CounterClosed"} -> "Closed"
      [] OTHER -> position

process_dlc_channel_event ==
    /\ events # <<>>
    /\ LET e == Head(events)
       IN  \/ /\ EventHandled(e)
              /\ RowAfter(e)
              /\ position' = PositionAfter(e)
              /\ IF e.type = "CollaborativelyClosed"
                 THEN set_dlc_protocol_state_to_success(e.ref, FALSE)
                 ELSE protocols' = protocols
           \/ /\ ~EventHandled(e)
              /\ UNCHANGED <<row, position, protocols>>
    /\ events' = Tail(events)
    /\ UNCHANGED <<chanC, chanA, contract, posA, trade, spend, closeTask, inC, offerA, offerC,
                   processed, reverts, revertAsk, confirm, proposed, crashes>>

\* delete_dlc_channel of the admin routes.
DeleteChannel ==
    /\ chanC.state # "None"
    /\ chanC' = [chanC EXCEPT !.state = "None", !.ref = NoProtocol]
    /\ events' = Append(events, Event("Deleted", chanC.ref))
    /\ UNCHANGED <<chanA, contract, row, protocols, position, posA, trade, spend, closeTask,
                   inC, offerA, offerC, processed, reverts, revertAsk, confirm, proposed, crashes>>

\* roll_back_dlc_channel of the admin routes: the state before the update, under the
\* reference id of the update.
RollBackChannel ==
    /\ chanC.state = "Updating"
    /\ UpsertChannel([chanC EXCEPT !.state = chanC.back, !.back = "None"], chanC.back)
    /\ UNCHANGED <<chanA, contract, row, protocols, position, posA, trade, spend, closeTask,
                   inC, offerA, offerC, processed, reverts, revertAsk, confirm, proposed, crashes>>

-----------------------------------------------------------------------------
(* Collaborative revert *)

\* propose_collaborative_revert: a record, and a message if the app is connected.
propose_collaborative_revert ==
    /\ proposed < MaxReverts /\ chanC.state \in SignedStates
    /\ reverts' = reverts + 1
    /\ proposed' = proposed + 1
    /\ revertAsk' \in {TRUE, revertAsk}
    /\ UNCHANGED <<chanC, chanA, contract, events, row, protocols, position, posA, trade, spend,
                   closeTask, inC, offerA, offerC, processed, confirm, crashes>>

\* process_pending_collaborative_revert: the app connects.
process_pending_collaborative_revert ==
    /\ reverts > 0
    /\ revertAsk' = TRUE
    /\ UNCHANGED <<chanC, chanA, contract, events, row, protocols, position, posA, trade, spend,
                   closeTask, inC, offerA, offerC, processed, reverts, confirm, proposed, crashes>>

\* collaborative_revert_channel of the app: signs the transaction and posts it.
collaborative_revert_channel ==
    /\ revertAsk /\ confirm = "none"
    /\ revertAsk' = FALSE
    /\ confirm' = IF chanA.state \in SignedStates THEN "posted" ELSE "none"
    /\ UNCHANGED <<chanC, chanA, contract, events, row, protocols, position, posA, trade, spend,
                   closeTask, inC, offerA, offerC, processed, reverts, proposed, crashes>>

\* confirm_collaborative_revert up to the broadcast, which may also fail.
ConfirmBroadcast ==
    /\ confirm = "posted"
    /\ \/ /\ reverts > 0 /\ chanC.state \in SignedStates /\ spend = "none"
          /\ spend' = "revert"
          /\ confirm' = "broadcast"
       \/ /\ spend' = spend
          /\ confirm' = "refused"
    /\ UNCHANGED <<chanC, chanA, contract, events, row, protocols, position, posA, trade,
                   closeTask, inC, offerA, offerC, processed, reverts, revertAsk, proposed, crashes>>

\* The latest position of the trader, in whatever state, is closed; without one the
\* request fails although the transaction is published.
ConfirmPosition ==
    /\ confirm = "broadcast"
    /\ position' = IF position = "None" THEN position ELSE "Closed"
    /\ confirm' = IF position = "None" THEN "refused" ELSE "closed"
    /\ UNCHANGED <<chanC, chanA, contract, events, row, protocols, posA, trade, spend,
                   closeTask, inC, offerA, offerC, processed, reverts, revertAsk, proposed, crashes>>

ConfirmDelete ==
    /\ confirm = "closed"
    /\ reverts' = 0
    /\ confirm' = "deleted"
    /\ UNCHANGED <<chanC, chanA, contract, events, row, protocols, position, posA, trade, spend,
                   closeTask, inC, offerA, offerC, processed, revertAsk, proposed, crashes>>

\* The channel is stored as closed, without a reference id.
ConfirmUpsert ==
    /\ confirm = "deleted"
    /\ UpsertChannel([chanC EXCEPT !.state = "CollaborativelyClosed", !.ref = NoProtocol],
                     "CollaborativelyClosed")
    /\ confirm' = "confirmed"
    /\ UNCHANGED <<chanA, contract, row, protocols, position, posA, trade, spend, closeTask,
                   inC, offerA, offerC, processed, reverts, revertAsk, proposed, crashes>>

\* update_state_after_collab_revert of the app, after any answer of the coordinator;
\* without a position the channel is left as it is.
update_state_after_collab_revert ==
    /\ confirm \in {"confirmed", "refused"}
    /\ IF posA
       THEN /\ chanA' = [chanA EXCEPT !.state = "CollaborativelyClosed", !.ref = NoProtocol]
            /\ posA' = FALSE
       ELSE UNCHANGED <<chanA, posA>>
    /\ confirm' = "none"
    /\ UNCHANGED <<chanC, contract, events, row, protocols, position, trade, spend, closeTask,
                   inC, offerA, offerC, processed, reverts, revertAsk, proposed, crashes>>

-----------------------------------------------------------------------------
\* A restart of the coordinator: events, tasks and half-processed messages are lost,
\* and a request that was under way is not answered.
Restart ==
    /\ crashes < MaxCrashes
    /\ crashes' = crashes + 1
    /\ events' = <<>>
    /\ trade' = NoTrade
    /\ closeTask' = NoProtocol
    /\ inC' = NoOffer
    /\ confirm' = IF confirm \in {"confirmed", "refused"} THEN confirm ELSE "none"
    /\ UNCHANGED <<chanC, chanA, contract, row, protocols, position, posA, spend, offerA,
                   offerC, processed, reverts, revertAsk, proposed>>

Init ==
    /\ chanC = [state |-> "None", ref |-> NoProtocol, back |-> "None", payout |-> 0]
    /\ chanA = chanC
    /\ contract = "None"
    /\ events = <<>>
    /\ row = [state |-> "None", open |-> NoProtocol]
    /\ protocols = [p \in Protocols |-> NoRow]
    /\ position = "None"
    /\ posA = FALSE
    /\ trade = NoTrade
    /\ spend = "none"
    /\ closeTask = NoProtocol
    /\ inC = NoOffer /\ offerA = NoOffer /\ offerC = NoOffer
    /\ processed = {}
    /\ reverts = 0 /\ revertAsk = FALSE /\ confirm = "none"
    /\ proposed = 0 /\ crashes = 0

TradeSteps ==
    \/ \E kind \in {"OpenChannel", "OpenPosition", "Settle"}, p \in Protocols, x \in Payouts \cup {0} :
          ProposeTrade(kind, p, x)
    \/ StoreTrade \/ CompleteTrade \/ FinishTrade \/ RejectTrade

CloseSteps ==
    \/ \E p \in Protocols : close_dlc_channel(p) \/ CloseChannelA(p)
    \/ start_close_channel_protocol
    \/ verify_collab_close_offer \/ ProcessCloseOfferC \/ AcceptCloseC
    \/ ProcessCloseOfferA \/ AcceptCloseA

ForceCloseSteps ==
    \/ \E p \in Protocols : force_close_dlc_channel(p)
    \/ ForceCloseA \/ PeriodicCheckC \/ PeriodicCheckA

RevertSteps ==
    \/ propose_collaborative_revert \/ process_pending_collaborative_revert
    \/ collaborative_revert_channel
    \/ ConfirmBroadcast \/ ConfirmPosition \/ ConfirmDelete \/ ConfirmUpsert
    \/ update_state_after_collab_revert

Next ==
    \/ TradeSteps \/ CloseSteps \/ ForceCloseSteps \/ RevertSteps
    \/ process_dlc_channel_event \/ DeleteChannel \/ RollBackChannel
    \/ Restart

Spec == Init /\ [][Next]_vars

\* The tasks that run without being asked: event handling, the loops over incoming
\* messages with the connection's resends, the periodic checks, and tasks under way.
\* Each such step has finitely many successors of its kind, so that it is enough
\* that some of them runs while one can.
Background ==
    \/ process_dlc_channel_event
    \/ StoreTrade \/ FinishTrade \/ start_close_channel_protocol
    \/ verify_collab_close_offer \/ ProcessCloseOfferC \/ AcceptCloseC
    \/ ProcessCloseOfferA \/ AcceptCloseA
    \/ PeriodicCheckC \/ PeriodicCheckA

FairSpec == Spec /\ WF_vars(Background)

-----------------------------------------------------------------------------
(* Properties *)

\* The types of the variables.
TypeOK ==
    /\ chanC \in Channel /\ chanA \in Channel
    /\ contract \in {"None", "Confirmed", "Settled", "Attested"}
    /\ events \in Seq([type : EventTypes, ref : ProtocolIds])
    /\ row \in [state : RowStates, open : ProtocolIds]
    /\ protocols \in [Protocols -> ProtocolRow]
    /\ position \in {"None", "Open", "Closing", "Closed"}
    /\ posA \in BOOLEAN
    /\ trade \in Trades
    /\ spend \in {"none", "buffer", "cet", "settle", "close", "revert"}
    /\ closeTask \in ProtocolIds
    /\ {inC, offerA, offerC} \subseteq CloseOffer \cup {NoOffer}
    /\ processed \subseteq Protocols
    /\ reverts \in 0 .. MaxReverts /\ revertAsk \in BOOLEAN
    /\ confirm \in {"none", "posted", "broadcast", "closed", "deleted", "confirmed", "refused"}
    /\ proposed \in 0 .. MaxReverts /\ crashes \in 0 .. MaxCrashes

\* The coordinator's tables never claim an end that the chain has not seen: a row of
\* dlc_channels that is Closed and a Close protocol that succeeded have their
\* transaction, whatever order events, rows and restarts come in.
ClosedOnlyWhenSpent ==
    /\ row.state = "Closed" => spend \in {"close", "cet"}
    /\ \A p \in Protocols :
          protocols[p].type = "Close" /\ protocols[p].state = "Success" => spend = "close"

\* A channel is closed collaboratively only once its position is settled: no order of
\* the settlement's end, a rejection, an operator's roll back and a restart leaves a
\* position open whose channel is gone.
NoOpenPositionAfterClose == spend = "close" => position # "Open"

\* What may come between: a restart, a new trade, a close of the coordinator's own,
\* an operator's deletion, and a transaction other than the close.
Disturbed ==
    \/ crashes > 0 \/ trade # NoTrade \/ offerC # NoOffer
    \/ chanC.state = "None" \/ spend \notin {"none", "close"}

\* A close the app offers comes to its end on both sides and in the coordinator's
\* tables: the offer, the protocol's row, the transaction and the three events find
\* one another unless the close is disturbed.
CloseCompletes ==
    (chanA.state = "CloseOffered" /\ chanC.state = "Settled" /\ inC = NoOffer /\ ~Disturbed)
        ~> \/ /\ row.state \in {"Closed", "None"}
              /\ chanA.state = "CollaborativelyClosed"
              /\ \E p \in Protocols : p = offerA.ref /\ protocols[p].state = "Success"
           \/ Disturbed

\* A position in a channel that the app force-closes is settled on-chain and closed in
\* the coordinator's table, once its events are no longer disturbed.
ForceCloseIsSettled ==
    (chanA.state = "SignedClosing" /\ position = "Open" /\ trade = NoTrade
     /\ chanC.state = "Established" /\ spend = "buffer" /\ reverts = 0)
        ~> \/ position = "Closed" /\ row.state \in {"Closed", "Failed", "None"}
           \/ crashes > 0 \/ chanC.state = "None" \/ trade # NoTrade \/ spend = "revert"

=============================================================================
