---------------------- MODULE TradeProtocolInvariants ----------------------
(***************************************************************************)
(* The inductive invariants that TradeProtocolProofs rests on.             *)
(*                                                                         *)
(* TradeOncePerProtocol is not inductive: it rests on the table of         *)
(* processed messages.  A trade is inserted for a finishing message; the   *)
(* message is then known as processed and never handled again; and of the  *)
(* messages that belong to a protocol only one is finishing, because the   *)
(* kind of its offer, once made, never changes (IInv).                     *)
(***************************************************************************)
EXTENDS TradeProtocol

-----------------------------------------------------------------------------
(* Tasks, messages and trades: for TypeOK and TradeOncePerProtocol *)

\* The messages of a protocol, by the kind of its offer.
TypesOf(kind) ==
    CASE kind = "OpenChannel" -> {"Offer", "Accept", "Sign", "Reject"}
      [] kind = "Settle" -> {"SettleOffer", "SettleAccept", "SettleConfirm",
                             "SettleFinalize", "Reject"}
      [] kind \in RenewKinds -> {"RenewOffer", "RenewAccept", "RenewConfirm",
                                 "RenewFinalize", "RenewRevoke", "Reject"}
      [] OTHER -> {}

\* Message m belongs to the protocol it names, given the offers that were made.
Belongs(off, m) ==
    /\ m \in Messages
    /\ m.type \in TypesOf(off[m.pid].kind)
    /\ m.type # "Reject" => m.ts = 0

Slot(off, m) == m = NoMessage \/ Belongs(off, m)
Wire(off, q) == q \in Seq(Messages) /\ \A k \in 1 .. Len(q) : Belongs(off, q[k])

Offering == {"Offered", "SettledReceived", "RenewOffered"}

\* A task owns its protocol identifier: until it proposes, nothing was offered.
TasksOK ==
    \A p \in Protocols :
        /\ task[p].pc \in {"check", "match", "matched", "pending"} =>
                task[p].order \in Orders /\ offers[p] = NoOffer
        /\ task[p].pc = "propose" =>
                /\ offers[p] = NoOffer
                /\ task[p].kind \in Kinds
                /\ task[p].order = NoOrder => task[p].kind = "Rollover"

OffersOK ==
    \A p \in Protocols : offers[p].kind \notin {"None", "Rollover"} => offers[p].order \in Orders

MessagesOK ==
    /\ Slot(offers, lastOutC) /\ Slot(offers, inC)
    /\ Slot(offers, lastOutA) /\ Slot(offers, inA)
    /\ Wire(offers, netCA) /\ Wire(offers, netAC)
    /\ chanA.state \in Offering => chanA.ref \in Protocols /\ offers[chanA.ref].kind \in Kinds

\* A trade is the work of a finishing message that is now known as processed.
Finished(off, done, p) ==
    \E m \in done : Belongs(off, m) /\ m.pid = p /\ m.type \in Finishing

TradesOK ==
    /\ inC \notin processedC
    /\ \A p \in Protocols :
        trades[p] = 0 \/ (trades[p] = 1 /\ Finished(offers, processedC, p))

IInv == TypeOK /\ TasksOK /\ OffersOK /\ MessagesOK /\ TradesOK

-----------------------------------------------------------------------------
(* The ledger, beside IInv                                                 *)
(*                                                                         *)
(* The coordinator writes the outcome of a protocol without looking at the *)
(* one that is recorded, so that the ledger is only kept because of the    *)
(* order in which messages can arrive: a success is never overwritten      *)
(* because nothing but repetitions of the finishing message can follow it, *)
(* and a rejection is final because the channel has left the offer behind. *)

\* The messages of the app that have not been forgotten
Arrived == processedC \union {inC}
On(q) == {q[k] : k \in 1 .. Len(q)}
Coming == On(netAC) \union {lastOutA}

\* A protocol is recorded by its task, once, after the offer was made.
RecordsOK ==
    \A p \in Protocols :
        /\ protocols[p] # "None" => offers[p] # NoOffer
        /\ task[p].pc = "start" => protocols[p] = "None" /\ offers[p] # NoOffer
        /\ protocols[p] = "Success" => Finished(offers, processedC, p)

\* The coordinator's channel waits for an answer to its offer.
Awaiting == {"Offered", "SettledOffered", "SettledConfirmed", "RenewOffered", "RenewConfirmed"}

\* An offer whose rejection arrived is not waited for any more.
RejectsOK ==
    /\ \A m \in processedC : Belongs(offers, m)
    /\ chanC.state \in {"Offered", "SettledOffered", "RenewOffered"} => chanC.back \notin Awaiting
    /\ \A m \in Arrived : m.type = "Reject" =>
          /\ ~ (chanC.state \in Awaiting /\ chanC.ref = m.pid)
          /\ inC.type \in Finishing => inC.pid # m.pid

\* The app has seen the offer of a protocol.
Opened(off, done, p) == \E m \in done : Belongs(off, m) /\ m.pid = p /\ m.type \in OfferTypes

\* An offer is answered in one way: once it was accepted it is not rejected.
AnswersOK ==
    /\ inA \notin processedA
    /\ chanA.state \in Offering =>
          /\ chanA.back \in {"Cancelled", "Established", "Settled"}
          /\ inA.type \in OfferTypes => chanA.ref = inA.pid
    /\ chanA.state \in {"SettledAccepted", "RenewAccepted"} => Opened(offers, processedA, chanA.ref)
    /\ \A m \in Arrived \union Coming : m.type \notin {"None", "Reject"} =>
          /\ Opened(offers, processedA, m.pid)
          /\ ~ (chanA.state \in Offering /\ chanA.ref = m.pid)

\* Nothing but repetitions follow the message that finishes a protocol.
Last(m, n) == m.type \in Finishing /\ n.pid = m.pid => n.type \in Finishing
Ordered(q, last) ==
    /\ \A k, l \in 1 .. Len(q) : k < l => Last(q[k], q[l])
    /\ \A k \in 1 .. Len(q) : Last(q[k], last)
OrderOK ==
    /\ Ordered(netAC, lastOutA)
    /\ \A m \in Arrived, n \in Coming : Last(m, n)
    /\ \A m \in processedC : m.type \in Finishing => inC.pid # m.pid

RInv == RecordsOK /\ RejectsOK /\ AnswersOK /\ OrderOK

-----------------------------------------------------------------------------
(* The contracts, beside the two above                                     *)
(*                                                                         *)
(* The two sides change their contract at different times and on messages  *)
(* that may be resent, lost or overtaken by a new offer.  They agree at    *)
(* rest because each side moves on only with an answer that the other can  *)
(* have sent in one state: the coordinator is ahead only while the app     *)
(* waits for Sign or RenewRevoke, the app only while the coordinator waits *)
(* for SettleFinalize, and neither state can be left in any other way.     *)

\* The messages of the coordinator that have not been forgotten
ToApp == On(netCA) \union {lastOutC}

\* The contract of a channel and the state to go back to, by the channel's state.
Sound(ch) ==
    /\ ch.state \in {"None", "Offered", "Accepted", "Cancelled", "Settled"} => ch.contract = NoProtocol
    /\ ch.state \in {"Established", "SettledOffered", "SettledReceived", "SettledAccepted"} =>
            ch.contract \in Protocols
    /\ ch.state = "Offered" => ch.back = "Cancelled"
    /\ ch.state \in {"SettledOffered", "SettledReceived"} => ch.back = "Established"
    /\ ch.state = "RenewOffered" =>
            ch.back = IF ch.contract = NoProtocol THEN "Settled" ELSE "Established"
    /\ ch.state \in {"Accepted", "SettledAccepted", "RenewAccepted", "RenewFinalized"}
            \union Awaiting \union Offering => ch.ref \in Protocols

\* An offer that was not made is in no channel.
Made(ch) ==
    /\ ch.ref # NoProtocol => offers[ch.ref] # NoOffer
    /\ ch.contract # NoProtocol => offers[ch.contract] # NoOffer

ChannelsOK ==
    /\ Sound(chanC) /\ Sound(chanA) /\ Made(chanC) /\ Made(chanA)
    /\ chanC.state \in Awaiting => chanC.contract # chanC.ref
    /\ \A m \in ToApp : m.type \notin OfferTypes \union {"None"} => Opened(offers, processedA, m.pid)

In(ch, state, p) == ch.state = state /\ ch.ref = p

\* What an answer of the app says about both channels while the coordinator expects it.
AppSays(c, a, m) ==
    /\ m.type = "Accept" /\ In(c, "Offered", m.pid) => In(a, "Accepted", m.pid)
    /\ m.type = "SettleAccept" /\ In(c, "SettledOffered", m.pid) => In(a, "SettledAccepted", m.pid)
    /\ m.type = "RenewAccept" /\ In(c, "RenewOffered", m.pid) => In(a, "RenewAccepted", m.pid)
    /\ m.type = "SettleFinalize" => ~ In(a, "SettledAccepted", m.pid)
    /\ m.type = "RenewFinalize" => ~ In(a, "RenewAccepted", m.pid)

\* What an answer of the coordinator says while the app expects it.
CoordinatorSays(c, a, m) ==
    /\ m.type = "Sign" /\ In(a, "Accepted", m.pid) => c.contract = m.pid
    /\ m.type = "SettleConfirm" /\ In(a, "SettledAccepted", m.pid) => In(c, "SettledConfirmed", m.pid)
    /\ m.type = "RenewConfirm" /\ In(a, "RenewAccepted", m.pid) => In(c, "RenewConfirmed", m.pid)
    /\ m.type = "RenewRevoke" => ~ In(a, "RenewAccepted", m.pid)
    /\ m.type = "RenewRevoke" /\ In(a, "RenewFinalized", m.pid) => c.contract = m.pid

\* Both are in the protocol whose confirmation the coordinator has sent.
InStep(c, a) ==
    /\ c.state = "SettledConfirmed" =>
          \/ In(a, "SettledAccepted", c.ref)
          \/ a.state \in {"Settled", "RenewOffered", "RenewAccepted"} /\ a.contract = NoProtocol
    /\ c.state = "RenewConfirmed" => In(a, "RenewAccepted", c.ref) \/ In(a, "RenewFinalized", c.ref)

\* Who may be ahead with the contract, and when.
Agreed(c, a) ==
    \/ a.contract = c.contract
    \/ a.state \in {"Accepted", "RenewFinalized"} /\ a.ref = c.contract
    \/ c.state = "SettledConfirmed" /\ a.contract = NoProtocol

AgreementOK ==
    /\ \A m \in Coming : AppSays(chanC, chanA, m)
    /\ \A m \in ToApp : CoordinatorSays(chanC, chanA, m)
    /\ InStep(chanC, chanA) /\ Agreed(chanC, chanA)

CInv == ChannelsOK /\ AgreementOK

-----------------------------------------------------------------------------
(* Orderly trading, beside the three above: what holds as long as the      *)
(* connection was never lost.                                              *)
(*                                                                         *)
(* AppMirrorsChannel and DatabaseMirrorsChannel do not say why they hold.  *)
(* A row or a position is written by one step and has to match a contract  *)
(* that changes in another, on the other side, several messages later.     *)
(* What connects them is that the two sides take turns: while the          *)
(* connection holds, at most one message asks for something, the           *)
(* coordinator's channel waits for it or for its answer, and no other      *)
(* offer is made until then. So the state of the coordinator's channel     *)
(* says which rows there are (RowsOK), and from the acceptance of an offer *)
(* to its completion the app's position and the filling order stay what    *)
(* the completion needs (AnswerOK). An order that the coordinator does not *)
(* answer would break this: its failure reopens a position that is being   *)
(* resized, and the resize then leaves the old quantity.                   *)

\* Nothing waits for a connection.
CalmOK == connected /\ ~ matchCheck /\ \A p \in Protocols : task[p].pc # "pending"

\* Order o is, or was, executed under identifier p.
HasTask(o, p) == task[p].order = o \/ offers[p].order = o

\* Tasks that have made their offer and have yet to send it
Unsent == {p \in Protocols : task[p].pc \in {"start", "position", "finish"}}

\* An order is executed under one identifier, and an offer is recorded by its own task.
OwnersOK ==
    /\ \A p \in Protocols : task[p].pc = "idle" => task[p] = Idle
    /\ \A p \in Unsent : /\ offers[p] # NoOffer /\ offers[p].kind = task[p].kind
                         /\ offers[p].order = task[p].order
    /\ \A p \in Protocols : offers[p] # NoOffer => task[p].pc = "start" \/ protocols[p] # "None"
    /\ \A o \in Orders, p, q \in Protocols : HasTask(o, p) /\ HasTask(o, q) => p = q
    /\ \A o \in Orders, p \in Protocols : HasTask(o, p) => orderC[o].state # "None"
    /\ \A o \in tradeErrors : orderC[o].state # "None"

FromApp == AcceptTypes \union {"SettleFinalize", "RenewFinalize", "Reject"}
FromCoordinator == OfferTypes \union {"Sign", "SettleConfirm", "RenewConfirm", "RenewRevoke"}

\* Each side has only messages of the other to handle, and its own to send.
DirectionsOK ==
    /\ \A m \in On(netCA) : m.type \in FromCoordinator
    /\ \A m \in On(netAC) : m.type \in FromApp
    /\ inC.type \in FromApp \union {"None"} /\ inA.type \in FromCoordinator \union {"None"}
    /\ lastOutC.type \in FromCoordinator \union {"None"} /\ lastOutA.type \in FromApp \union {"None"}

\* The state of the coordinator's channel after an offer
OfferedState(kind) == CASE kind = "OpenChannel" -> "Offered"
                        [] kind = "Settle" -> "SettledOffered"
                        [] OTHER -> "RenewOffered"

\* What each side has stored to be sent next: the offer of the task that has yet to send
\* it, or the reply to the message that is half handled.
OutboxOK ==
    /\ \A p \in Unsent : /\ chanC.ref = p /\ chanC.state = OfferedState(offers[p].kind)
                         /\ lastOutC = Msg(OfferType(offers[p].kind), p)
    /\ inC.type \in AcceptTypes \union {"RenewFinalize"} =>
            lastOutC = Msg(Coordinator(inC.type)[3], inC.pid)
    /\ inA.type \in {"SettleConfirm", "RenewConfirm"} => lastOutA = Msg(App(inA.type)[3], inA.pid)

\* The channel half way through a message.
HalfwayOK ==
    /\ inC.type \notin {"None", "Reject"} => chanC.ref = inC.pid /\ chanC.state = Coordinator(inC.type)[2]
    /\ inC.type \in {"Accept", "RenewFinalize"} => chanC.contract = inC.pid
    /\ inC.type = "Reject" => chanC.state \notin Awaiting
    /\ inA.type \in {"Sign", "RenewRevoke"} => chanA.state = "Established" /\ chanA.contract = inA.pid
    /\ inA.type = "SettleConfirm" => chanA.state = "Settled"

\* Messages the coordinator's channel waits for, or whose answer it waits for
Asks(m) == m.type \notin {"Sign", "RenewRevoke", "None"}

\* Channel c of the coordinator waits while m, which asks for something, is underway.
Waits(c, m) ==
    /\ c.ref = m.pid
    /\ m.type \in {"Offer", "Accept"} => c.state = "Offered"
    /\ m.type \in {"SettleOffer", "SettleAccept"} => c.state = "SettledOffered"
    /\ m.type \in {"RenewOffer", "RenewAccept"} => c.state = "RenewOffered"
    /\ m.type = "Reject" => c.state = OfferedState(offers[m.pid].kind)
    /\ m.type \in {"SettleConfirm", "SettleFinalize"} => c.state = "SettledConfirmed"
    /\ m.type \in {"RenewConfirm", "RenewFinalize"} => c.state = "RenewConfirmed"

Underway == On(netCA) \union On(netAC) \union {inA}
Silent == \A m \in Underway : ~ Asks(m)

\* Only an offer follows another message, and only one that asks for nothing.
Line(q) == \A k, l \in 1 .. Len(q) : k < l => ~ Asks(q[k]) /\ q[l].type \in OfferTypes

\* The two sides take turns.
TurnsOK ==
    /\ netAC # <<>> => Tail(netAC) = <<>> /\ netCA = <<>> /\ inA = NoMessage /\ inC = NoMessage
    /\ inC # NoMessage => netCA = <<>> /\ inA = NoMessage
    /\ Asks(inA) => netCA = <<>>
    /\ inA # NoMessage => \A m \in On(netCA) : m.type \in OfferTypes
    /\ Line(netCA)
    /\ Unsent # {} => Silent
    /\ \A m \in Underway : Asks(m) => Waits(chanC, m)
    /\ inC.type # "None" => chanC.ref = inC.pid

\* The messages with which the app completes a protocol that has succeeded
Done(m) == m.type \in {"Sign", "RenewRevoke"}

\* What is still underway has not failed, and a failed order has nothing underway.
OutcomesOK ==
    /\ \A m \in Underway : Done(m) => protocols[m.pid] = "Success"
    /\ chanC.state \in Awaiting => protocols[chanC.ref] # "Failed"
    /\ inC.type # "None" => protocols[inC.pid] # "Failed"
    /\ \A o \in tradeErrors, p \in Protocols :
            task[p].order # o /\ (offers[p].order = o => protocols[p] = "Failed")

\* The messages that can only be sent after the app has accepted the offer
Answered(m) == m.type \notin OfferTypes \union {"Reject", "None"}
Mail == Underway \union {inC, lastOutC, lastOutA}

\* Accepting an offer has given its order an execution price.
PriceOK ==
    \A m \in Mail : Answered(m) /\ offers[m.pid].kind # "Rollover" => HasPrice(offers[m.pid].order)

SizeInForce == offers[chanC.contract].size

\* What a task has fixed before it makes its offer
Proposal(p) ==
    /\ task[p].kind # "Rollover" => task[p].size = p
    /\ task[p].kind = "OpenPosition" => chanC.contract = NoProtocol
    /\ task[p].kind = "ResizePosition" =>
            chanC.contract # NoProtocol /\ orderC[task[p].order].closes # SizeInForce
    /\ task[p].kind = "Rollover" => chanC.contract # NoProtocol /\ task[p].size = SizeInForce

\* The offer of the coordinator's channel, by the state of the channel
OfferedOK ==
    /\ chanC.state \in {"Offered", "SettledOffered", "RenewOffered"} =>
            chanC.state = OfferedState(offers[chanC.ref].kind)
    /\ chanC.state = "SettledConfirmed" =>
            offers[chanC.ref].kind = "Settle" /\ chanC.contract # NoProtocol
    /\ chanC.state = "RenewConfirmed" => offers[chanC.ref].kind \in RenewKinds
    /\ chanC.state \in {"RenewOffered", "RenewConfirmed"} =>
        /\ offers[chanC.ref].kind = "OpenPosition" <=> chanC.contract = NoProtocol
        /\ offers[chanC.ref].kind = "ResizePosition" =>
                orderC[offers[chanC.ref].order].closes # SizeInForce
        /\ offers[chanC.ref].kind = "Rollover" => offers[chanC.ref].size = SizeInForce

\* Offers fit the contract that was in force when they were prepared, which is still in
\* force when they are made and answered.
ProposalsOK ==
    /\ chanC.state \in {"None", "Cancelled", "Established", "Settled"} \union Awaiting
    /\ \A p \in Protocols : task[p].pc = "propose" => Proposal(p)
    /\ \A p \in Protocols : offers[p] # NoOffer =>
            offers[p].kind # "None" /\ (offers[p].kind # "Rollover" => offers[p].size = p)
    /\ OfferedOK

\* There is one live row, in one of the states; it is the row of the offer of p.
Alone(states) == \E i \in Positions : RowsIn(Live) = {i} /\ positions[i].state \in states
Rows(states, p) ==
    \E i \in Positions :
        /\ RowsIn(Live) = {i} /\ positions[i].state \in states
        /\ positions[i].size = offers[p].size
        /\ NeverFailed("Rollover") => positions[i].expiry = offers[p].expiry
NoRows == RowsIn(Live) = {}

\* After a rejected resize the row stays in Resizing, and no trade touches it again.
Frozen == RowsIn({"Open", "Rollover"}) = {} /\ Proposing = {} /\ ~ NeverFailed("ResizePosition")

\* The task of p has yet to write the row.
Early(p) == task[p].pc \in {"start", "position"}

\* A rollover found no open row, and its offer was not sent.
Stuck == Silent /\ inC = NoMessage /\ task[chanC.ref] = Idle

\* The rows while the coordinator waits for the answer to an offer of kind k, ...
OfferRows(k) ==
    /\ k \in OpenKinds /\ Early(chanC.ref) => NoRows
    /\ k \in OpenKinds /\ ~ Early(chanC.ref) => Rows({"Proposed"}, chanC.ref)
    /\ k \notin OpenKinds /\ Early(chanC.ref) => Rows({"Open", "Closing"}, chanC.contract)
    /\ k = "Settle" /\ ~ Early(chanC.ref) => Rows({"Closing"}, chanC.contract)
    /\ k = "ResizePosition" /\ ~ Early(chanC.ref) =>
            Rows({"Resizing"}, chanC.ref) \/ Rows({"Closing"}, chanC.contract)
    /\ k = "Rollover" /\ ~ Early(chanC.ref) =>
            Rows({"Rollover"}, chanC.ref) \/ (Rows({"Closing"}, chanC.contract) /\ Stuck)

\* ... and while the message that ends it is half handled.
HandledRows(k) ==
    /\ k \in OpenKinds => Rows({"Proposed"}, inC.pid)
    /\ k = "Settle" => Alone({"Closing"})
    /\ k = "Settle" /\ inC.type = "Reject" => Rows({"Closing"}, chanC.contract)
    /\ k = "ResizePosition" => Rows({"Resizing"}, inC.pid) \/ Alone({"Closing"})
    /\ k = "ResizePosition" /\ inC.type = "Reject" =>
            Rows({"Resizing"}, inC.pid) \/ Rows({"Closing"}, chanC.contract)
    /\ k = "Rollover" => Rows({"Rollover"}, inC.pid)
    /\ k = "Rollover" /\ inC.type = "Reject" => offers[inC.pid].size = SizeInForce
    /\ inC.type = "Reject" =>
            chanC.state \in (IF k \in OpenKinds THEN {"Cancelled", "Settled"} ELSE {"Established"})

\* The state of the coordinator's channel says which rows there are.
RowsOK ==
    /\ chanC.state \in {"None", "Cancelled", "Settled"} /\ inC = NoMessage => NoRows
    /\ chanC.state = "Established" /\ inC = NoMessage =>
            Rows({"Open", "Closing"}, chanC.contract) \/ Frozen
    /\ chanC.state \in Awaiting => OfferRows(offers[chanC.ref].kind)
    /\ inC.type \in Finishing \union {"Reject"} => HandledRows(offers[inC.pid].kind)

\* The app's position is the one that p offered.
Same(p) == posA.state # "None" /\ posA.size = offers[p].size /\ posA.expiry = offers[p].expiry

\* From the acceptance of p to its completion, the position is what the completion needs:
\* for a resize, still resizing, with its order filling.
Answer(p) ==
    /\ offers[p].kind \in OpenKinds => posA.state = "None"
    /\ offers[p].kind = "Rollover" => Same(p)
    /\ offers[p].kind = "ResizePosition" =>
            /\ posA.state = "Resizing" /\ orderA[offers[p].order] = "Filling"
            /\ orderC[offers[p].order].closes # posA.size
AnswerOK == \A m \in Underway \union {inC} : Answered(m) => Answer(m.pid)

\* The app shows the contract of its channel, and nothing without one, until it accepts
\* an offer that replaces it.
ShownOK ==
    /\ chanA.state \in {"Established", "SettledReceived", "RenewOffered"} /\ chanA.contract # NoProtocol
          /\ inA.type \notin {"Sign", "RenewRevoke"} => Same(chanA.contract)
    /\ chanA.state \in {"None", "Cancelled", "Offered", "Settled", "RenewOffered"}
          /\ chanA.contract = NoProtocol /\ inA.type # "SettleConfirm" => posA.state = "None"

\* Everything about orderly trading while the connection holds, and the invariant:
\* a lost connection only excuses what is said about such trading.
MirrorInv ==
    /\ CalmOK /\ OwnersOK /\ DirectionsOK /\ OutboxOK /\ HalfwayOK /\ TurnsOK /\ OutcomesOK
    /\ PriceOK /\ ProposalsOK /\ RowsOK /\ AnswerOK /\ ShownOK
MInv == IInv /\ RInv /\ CInv /\ Orderly /\ (disconnects = 0 => MirrorInv)

=============================================================================
