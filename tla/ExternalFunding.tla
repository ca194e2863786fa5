-------------------------- MODULE ExternalFunding --------------------------
(* Opening a channel with funds the trader pays over lightning: the hodl      *)
(* invoice at the coordinator's lnd node, the task that watches it, the app's *)
(* watcher that posts the order with the pre-image once it hears of the       *)
(* payment, and the execution of the order, which settles the invoice before  *)
(* it sends the channel offer and cancels it when the execution fails.  One   *)
(* trader; an invoice is named by its hash, and its pre-image by the same     *)
(* name.                                                                      *)
EXTENDS Integers, Sequences, FiniteSets, SequencesExt

CONSTANTS
  MaxInvoices,    \* bound on the orders the user funds
  MaxExecutions,  \* bound on the executions of orders
  MaxFaults       \* bound on lost messages, lost connections, broken streams and restarts

ASSUME ExternalFundingAssumption == {MaxInvoices, MaxExecutions, MaxFaults} \subseteq Nat

VARIABLES
  lnd,         \* the invoices at the lnd node
  updates,     \* what the stream of an invoice has yet to tell its watch
  watching,    \* invoices with a watch on the coordinator
  invoices,    \* hodl_invoices: the state of the row, None without one
  outbox,      \* LnPaymentReceived messages on their way to the app
  watcher,     \* the app's task: idle, waiting for a payment, about to post the order
  orders,      \* orders: invoice whose pre-image came with it, state
  matching,    \* orders whose task is about to store their parameters
  params,      \* channel_opening_params: orders with a row
  executions,  \* runs of TradeExecutor::execute: order, external funding, step, Filled
  channels,    \* DLC channels with the trader: the execution that offered it, state
  outbound,    \* last_outbound_dlc_messages: the channel whose offer is stored
  events,      \* node events the DLC handler has yet to handle
  connected,   \* the connection between the nodes
  reconnected, \* the Connected event is yet to be handled by the pending matches
  sent,        \* channels whose offer the trader has been sent
  mishaps,     \* <<kind, order or invoice>>: what went wrong with it (for the properties)
  faults

vars == <<lnd, updates, watching, invoices, outbox, watcher, orders, matching, params,
          executions, channels, outbound, events, connected, reconnected, sent, mishaps, faults>>
invoiceVars == <<lnd, updates, watching, invoices>>
appVars == <<outbox, watcher>>
bookVars == <<orders, matching, params>>
dlcVars == <<channels, outbound, events, sent>>
linkVars == <<connected, reconnected>>

Invoices == 1..MaxInvoices
NoInvoice == 0
None == 0
InvoiceStates == {"Open", "Accepted", "Settled", "Canceled"}
(* The row of an invoice may be missing; otherwise it has a state of its own. *)
HodlInvoiceStates == {"None", "Open", "Accepted", "Settled", "Failed", "Canceled"}
Steps == {"check", "propose", "update", "settle", "send", "cancel_offer", "cancel_invoice",
          "fail", "done"}
Idle == [state |-> "idle", invoice |-> NoInvoice]

InvoiceOf(o) == orders[o].invoice
Running == {k \in DOMAIN executions : executions[k].step # "done"}
OrderOf(c) == executions[channels[c].execution].order
With(state) == {c \in DOMAIN channels : channels[c].state = state}

---------------------------------------------------------------------------
(* The lnd node: a payment of a hodl invoice is held until the invoice is     *)
(* settled with the pre-image or cancelled, by the coordinator or because it  *)
(* expires.                                                                   *)

(* The stream of an invoice tells every change of its state. *)
subscribe_to_invoice(i, state) ==
  [updates EXCEPT ![i] = IF i \in watching THEN Append(@, state) ELSE @]

LndMoves(i, state) ==
  /\ lnd' = [lnd EXCEPT ![i] = state]
  /\ updates' = subscribe_to_invoice(i, state)

(* What the lnd node does on the coordinator's requests; anything else is     *)
(* answered with an error.                                                    *)
LndSettles(i) == lnd[i] = "Accepted" /\ LndMoves(i, "Settled")
LndCancels(i) == lnd[i] \in {"Open", "Accepted"} /\ LndMoves(i, "Canceled")

PayInvoice(i) ==
  /\ lnd[i] = "Open"
  /\ LndMoves(i, "Accepted")
  /\ UNCHANGED <<watching, invoices, appVars, bookVars, executions, dlcVars, linkVars,
                 mishaps, faults>>

Expire(i) ==
  /\ LndCancels(i)
  /\ UNCHANGED <<watching, invoices, appVars, bookVars, executions, dlcVars, linkVars,
                 mishaps, faults>>

---------------------------------------------------------------------------
(* Creating an invoice: the app asks the coordinator, which creates it at the *)
(* lnd node, inserts the row and watches it.  When lnd or the database is     *)
(* down, or the answer is lost, the app goes on without a payment request.    *)
(* The previous task of the app is aborted.                                   *)

Wait(i) == [state |-> "waiting", invoice |-> i]
Answers == {"ok", "answer lost", "no row"}

create_hodl_invoice(answer) == Append(invoices, IF answer = "no row" THEN "None" ELSE "Open")

create_invoice(i, answer) ==
  /\ lnd' = Append(lnd, "Open")
  /\ invoices' = create_hodl_invoice(answer)
  /\ IF answer = "no row" THEN updates' = Append(updates, <<>>) /\ UNCHANGED watching
     ELSE updates' = Append(updates, <<"Open">>) /\ watching' = watching \union {i}

(* The pre-image is kept in memory only. *)
get_hodl_invoice_from_coordinator(i, answer) == IF answer = "ok" THEN i ELSE NoInvoice

submit_unfunded_channel_opening_order(i) ==
  /\ i = Len(lnd) + 1 /\ watcher.state # "posting" /\ With("Signed") = {}
  /\ \E answer \in Answers :
       /\ IF answer = "ok" THEN faults' = faults ELSE faults < MaxFaults /\ faults' = faults + 1
       /\ create_invoice(i, answer)
       /\ watcher' = Wait(get_hodl_invoice_from_coordinator(i, answer))
  /\ UNCHANGED <<outbox, bookVars, executions, dlcVars, linkVars, mishaps>>

(* Mutant: the watch ends with the payment. *)
Bug_spawn_invoice_watch(i) ==
  /\ i \in watching /\ updates[i] # <<>>
  /\ outbox' = IF Head(updates[i]) = "Accepted" THEN outbox \union {i} ELSE outbox
  /\ watching' = IF Head(updates[i]) = "Open" THEN watching ELSE watching \ {i}
  /\ updates' = [updates EXCEPT ![i] = Tail(@)]
  /\ UNCHANGED <<lnd, invoices, watcher, bookVars, executions, dlcVars, linkVars, mishaps, faults>>

update_hodl_invoice_to_accepted(i) ==
  IF i = NoInvoice THEN invoices ELSE [invoices EXCEPT ![i] = "Accepted"]
update_hodl_invoice_to_settled(i) == [invoices EXCEPT ![i] = "Settled"]
update_hodl_invoice_to_canceled(i) == [invoices EXCEPT ![i] = "Canceled"]

(* The coordinator's watch of an invoice, until it is settled or cancelled. *)
spawn_invoice_watch(i) ==
  /\ i \in watching /\ updates[i] # <<>>
  /\ LET state == Head(updates[i]) IN
     /\ outbox' = IF state = "Accepted" THEN outbox \union {i} ELSE outbox
     /\ invoices' = CASE state = "Settled" -> update_hodl_invoice_to_settled(i)
                      [] state = "Canceled" -> update_hodl_invoice_to_canceled(i)
                      [] OTHER -> invoices
     /\ watching' = IF state \in {"Settled", "Canceled"} THEN watching \ {i} ELSE watching
  /\ updates' = [updates EXCEPT ![i] = Tail(@)]
  /\ UNCHANGED <<lnd, watcher, bookVars, executions, dlcVars, linkVars, mishaps, faults>>

WatchBreaks(i) ==
  /\ i \in watching /\ faults < MaxFaults /\ faults' = faults + 1
  /\ watching' = watching \ {i} /\ updates' = [updates EXCEPT ![i] = <<>>]
  /\ mishaps' = mishaps \union {<<"watch lost", i>>}
  /\ UNCHANGED <<lnd, invoices, appVars, bookVars, executions, dlcVars, linkVars>>

---------------------------------------------------------------------------
(* The app's task waits for the bitcoin address and for the invoice, and      *)
(* posts the order when one of them is paid, with the pre-image if it was the *)
(* invoice.                                                                   *)

watch_lightning_payment(i) ==
  /\ i \in outbox /\ outbox' = outbox \ {i}
  /\ watcher' = IF watcher = Wait(i) THEN [watcher EXCEPT !.state = "posting"] ELSE watcher
  /\ UNCHANGED <<invoiceVars, bookVars, executions, dlcVars, linkVars, mishaps, faults>>

LoseMessage(i) ==
  /\ i \in outbox /\ outbox' = outbox \ {i}
  /\ faults < MaxFaults /\ faults' = faults + 1
  /\ UNCHANGED <<invoiceVars, watcher, bookVars, executions, dlcVars, linkVars, mishaps>>

(* Enough funds on the address, or an error when it is looked up. *)
watch_funding_address ==
  /\ watcher.state = "waiting"
  /\ watcher' = [state |-> "posting", invoice |-> NoInvoice]
  /\ UNCHANGED <<invoiceVars, outbox, bookVars, executions, dlcVars, linkVars, mishaps, faults>>

abort_watcher ==
  /\ watcher.state = "waiting" /\ watcher' = Idle
  /\ UNCHANGED <<invoiceVars, outbox, bookVars, executions, dlcVars, linkVars, mishaps, faults>>

(* The row is set to Accepted whatever state it is in; then the order is      *)
(* inserted, which may fail.                                                  *)
post_order ==
  LET i == watcher.invoice IN
  /\ watcher.state = "posting" /\ watcher' = Idle
  /\ \/ /\ orders' = Append(orders, [invoice |-> i, state |-> "Open"]) /\ faults' = faults
     \/ orders' = orders /\ faults < MaxFaults /\ faults' = faults + 1
  /\ invoices' = update_hodl_invoice_to_accepted(i)
  /\ UNCHANGED <<lnd, updates, watching, outbox, matching, params, executions, dlcVars, linkVars, mishaps>>

---------------------------------------------------------------------------
(* Matching.  The order becomes Matched before its parameters are stored.     *)

Clash(o) ==
  IF Running = {} THEN {}
  ELSE {<<"clash", x>> : x \in {o} \union {executions[k].order : k \in Running}}

Start(o, external) ==
  /\ Len(executions) < MaxExecutions
  /\ executions' = Append(executions, [order |-> o, external |-> external, step |-> "check",
                                      filled |-> FALSE])
  /\ mishaps' = mishaps \union Clash(o)

process_new_market_order(o) ==
  /\ orders[o].state = "Open"
  /\ \A x \in DOMAIN orders : orders[x].state # "Matched"  \* otherwise refused, still Open
  /\ \/ /\ orders' = [orders EXCEPT ![o].state = "Matched"]
        /\ matching' = matching \union {o}
     \/ /\ orders' = [orders EXCEPT ![o].state = "Failed"]     \* no match
        /\ UNCHANGED matching
  /\ UNCHANGED <<invoiceVars, appVars, params, executions, dlcVars, linkVars, mishaps, faults>>

insert_channel_opening_params(o) ==
  /\ o \in matching /\ matching' = matching \ {o}
  /\ params' = params \union {o}
  /\ IF connected THEN Start(o, InvoiceOf(o) # NoInvoice) ELSE UNCHANGED <<executions, mishaps>>
  /\ UNCHANGED <<invoiceVars, appVars, orders, dlcVars, linkVars, faults>>

(* Without the parameters the execution does not know of the funding. *)
process_pending_match ==
  /\ reconnected /\ reconnected' = FALSE
  /\ LET matched == {o \in DOMAIN orders : orders[o].state = "Matched"} IN
     IF matched = {} THEN UNCHANGED <<executions, mishaps>>
     ELSE \E o \in matched : Start(o, o \in params /\ InvoiceOf(o) # NoInvoice)
  /\ UNCHANGED <<invoiceVars, appVars, bookVars, dlcVars, connected, faults>>

---------------------------------------------------------------------------
(* TradeExecutor::execute *)

At(k, step) == k \in DOMAIN executions /\ executions[k].step = step
Go(k, step) == executions' = [executions EXCEPT ![k].step = step]
GoFail(k) == Go(k, IF executions[k].external THEN "cancel_offer" ELSE "fail")

(* Only a Matched order is executed, and no channel is opened while an offer  *)
(* is pending.  With a channel the order is an ordinary trade, which may fail.*)
determine_trade_action(k) ==
  /\ At(k, "check")
  /\ IF orders[executions[k].order].state # "Matched" THEN GoFail(k)
     ELSE IF With("Signed") # {} THEN Go(k, "update") \/ GoFail(k)
     ELSE IF With("Offered") # {} THEN GoFail(k)
     ELSE Go(k, "propose")
  /\ UNCHANGED <<invoiceVars, appVars, bookVars, dlcVars, linkVars, mishaps, faults>>

(* Mutant: a proposal that fails is logged and taken for a success. *)
Bug_open_dlc_channel(k) ==
  /\ At(k, "propose") /\ Go(k, "update")
  /\ \/ UNCHANGED <<channels, events>>
     \/ /\ channels' = Append(channels, [execution |-> k, state |-> "Offered"])
        /\ events' = Append(events, [kind |-> "Store", channel |-> Len(channels) + 1])
  /\ UNCHANGED <<invoiceVars, appVars, bookVars, outbound, sent, linkVars, mishaps, faults>>

(* The proposal fails, or what follows it: the protocol or the position. *)
open_dlc_channel(k) ==
  /\ At(k, "propose")
  /\ \/ /\ GoFail(k) /\ UNCHANGED <<channels, events>>
     \/ /\ Go(k, "update") \/ GoFail(k)
        /\ channels' = Append(channels, [execution |-> k, state |-> "Offered"])
        /\ events' = Append(events, [kind |-> "Store", channel |-> Len(channels) + 1])
  /\ UNCHANGED <<invoiceVars, appVars, bookVars, outbound, sent, linkVars, mishaps, faults>>

(* The match is Filled and the order Taken. *)
update_order_and_match(k) ==
  /\ At(k, "update")
  /\ orders' = [orders EXCEPT ![executions[k].order].state = "Taken"]
  /\ executions' = [executions EXCEPT ![k].filled = TRUE,
                      ![k].step = IF executions[k].external THEN "settle" ELSE "send"]
  /\ UNCHANGED <<invoiceVars, appVars, matching, params, dlcVars, linkVars, mishaps, faults>>

(* Mutant: an error is logged and the offer sent. *)
Bug_settle_invoice(k) ==
  LET i == InvoiceOf(executions[k].order) IN
  /\ At(k, "settle") /\ Go(k, "send")
  /\ \/ LndSettles(i)
     \/ lnd[i] # "Accepted" /\ UNCHANGED <<lnd, updates>>
  /\ UNCHANGED <<watching, invoices, appVars, bookVars, dlcVars, linkVars, mishaps, faults>>

(* lnd refuses an invoice that is not Accepted, or is down; or it settles and *)
(* the answer is lost.                                                        *)
settle_invoice(k) ==
  LET o == executions[k].order
      i == InvoiceOf(o)
  IN
  /\ At(k, "settle")
  /\ \/ /\ LndSettles(i)
        /\ Go(k, "send") /\ UNCHANGED <<mishaps, faults>>
     \/ /\ lnd[i] # "Accepted" /\ Go(k, "cancel_offer")
        /\ UNCHANGED <<lnd, updates, mishaps, faults>>
     \/ /\ lnd[i] = "Accepted" /\ Go(k, "cancel_offer")
        /\ faults < MaxFaults /\ faults' = faults + 1
        /\ \/ LndSettles(i) /\ mishaps' = mishaps \union {<<"answer lost", o>>}
           \/ UNCHANGED <<lnd, updates, mishaps>>
  /\ UNCHANGED <<watching, invoices, appVars, bookVars, dlcVars, linkVars>>

publish_send_last(k) ==
  /\ At(k, "send") /\ Go(k, "done")
  /\ events' = Append(events, [kind |-> "Send", channel |-> None])
  /\ UNCHANGED <<invoiceVars, appVars, bookVars, channels, outbound, sent, linkVars, mishaps, faults>>

(* The first channel of the trader that the store lists is rejected, whoever  *)
(* offered it; only an offered one can be, and only then the stored message   *)
(* is deleted.                                                                *)
cancel_offer(k) ==
  /\ At(k, "cancel_offer") /\ Go(k, "cancel_invoice")
  /\ \/ channels = <<>> /\ UNCHANGED <<channels, outbound, mishaps>>
     \/ \E c \in DOMAIN channels :
          IF channels[c].state # "Offered" THEN UNCHANGED <<channels, outbound, mishaps>>
          ELSE /\ channels' = [channels EXCEPT ![c].state = "Cancelled"]
               /\ outbound' = None
               /\ mishaps' = IF channels[c].execution = k THEN mishaps
                             ELSE mishaps \union {<<"clash", OrderOf(c)>>}
  /\ UNCHANGED <<invoiceVars, appVars, bookVars, events, sent, linkVars, faults>>

(* After a failed settlement the order stays Taken. *)
cancel_hodl_invoice(k) ==
  LET i == InvoiceOf(executions[k].order) IN
  /\ At(k, "cancel_invoice")
  /\ Go(k, IF executions[k].filled THEN "done" ELSE "fail")
  /\ \/ LndCancels(i) /\ faults' = faults
     \/ lnd[i] \notin {"Open", "Accepted"} /\ UNCHANGED <<lnd, updates, faults>>
     \/ /\ lnd[i] \in {"Open", "Accepted"} /\ faults < MaxFaults /\ faults' = faults + 1
        /\ UNCHANGED <<lnd, updates>>
  /\ UNCHANGED <<watching, invoices, appVars, bookVars, dlcVars, linkVars, mishaps>>

FailOrder(k) ==
  /\ At(k, "fail") /\ Go(k, "done")
  /\ orders' = [orders EXCEPT ![executions[k].order].state = "Failed"]
  /\ UNCHANGED <<invoiceVars, appVars, matching, params, dlcVars, linkVars, mishaps, faults>>

---------------------------------------------------------------------------
(* The DLC handler and the connection.  The stored offer is sent when the     *)
(* execution is done, and on every connect.                                   *)

Unpaid(c) == executions[channels[c].execution].external /\ lnd[InvoiceOf(OrderOf(c))] # "Settled"

DlcHandlerStep ==
  /\ events # <<>> /\ events' = Tail(events)
  /\ LET e == Head(events) IN
     IF e.kind = "Store"
     THEN outbound' = e.channel /\ UNCHANGED <<sent, mishaps>>
     ELSE /\ sent' = IF outbound # None /\ connected THEN sent \union {outbound} ELSE sent
          /\ mishaps' = IF outbound # None /\ Unpaid(outbound) /\ e.kind = "Connected"
                        THEN mishaps \union {<<"sent early", OrderOf(outbound)>>} ELSE mishaps
          /\ UNCHANGED outbound
  /\ UNCHANGED <<invoiceVars, appVars, bookVars, executions, channels, linkVars, faults>>

Connect ==
  /\ ~connected /\ connected' = TRUE /\ reconnected' = TRUE
  /\ events' = Append(events, [kind |-> "Connected", channel |-> None])
  /\ UNCHANGED <<invoiceVars, appVars, bookVars, executions, channels, outbound, sent, mishaps, faults>>

Disconnect ==
  /\ connected /\ faults < MaxFaults /\ faults' = faults + 1
  /\ connected' = FALSE
  /\ UNCHANGED <<invoiceVars, appVars, bookVars, executions, dlcVars, reconnected, mishaps>>

(* The trader answers an offer: the channel is signed, and the message that   *)
(* does so replaces the stored offer, or the offer is rejected.               *)
AppAnswers(c) ==
  /\ c \in sent /\ channels[c].state = "Offered" /\ connected
  /\ \/ /\ channels' = [channels EXCEPT ![c].state = "Signed"]
        /\ outbound' = None /\ UNCHANGED mishaps
     \/ /\ channels' = [channels EXCEPT ![c].state = "Cancelled"]
        /\ mishaps' = mishaps \union {<<"refused", OrderOf(c)>>}
        /\ UNCHANGED outbound
  /\ UNCHANGED <<invoiceVars, appVars, bookVars, executions, events, sent, linkVars, faults>>

(* A restart cancels the open and accepted rows, not the invoices; no watch   *)
(* is started again.                                                          *)
cancel_pending_hodl_invoices ==
  [i \in DOMAIN invoices |-> IF invoices[i] \in {"Open", "Accepted"} THEN "Canceled"
                             ELSE invoices[i]]

Restart ==
  /\ faults < MaxFaults /\ faults' = faults + 1
  /\ invoices' = cancel_pending_hodl_invoices
  /\ watching' = {} /\ updates' = [i \in DOMAIN updates |-> <<>>] /\ outbox' = {}
  /\ matching' = {} /\ events' = <<>> /\ connected' = FALSE /\ reconnected' = FALSE
  /\ executions' = [k \in DOMAIN executions |-> [executions[k] EXCEPT !.step = "done"]]
  /\ mishaps' = mishaps \union {<<"watch lost", i>> : i \in watching}
                        \union {<<"offer lost", OrderOf(e.channel)>> :
                                  e \in {e \in Range(events) : e.kind = "Store"}}
  /\ UNCHANGED <<lnd, watcher, orders, params, channels, outbound, sent>>

---------------------------------------------------------------------------
Init ==
  /\ lnd = <<>> /\ updates = <<>> /\ watching = {} /\ invoices = <<>>
  /\ outbox = {} /\ watcher = Idle
  /\ orders = <<>> /\ matching = {} /\ params = {} /\ executions = <<>>
  /\ channels = <<>> /\ outbound = None /\ events = <<>> /\ sent = {}
  /\ connected = FALSE /\ reconnected = FALSE /\ mishaps = {} /\ faults = 0

Next ==
  \/ \E i \in Invoices : submit_unfunded_channel_opening_order(i)
  \/ \E i \in DOMAIN lnd : \/ PayInvoice(i) \/ Expire(i)
                           \/ spawn_invoice_watch(i) \/ WatchBreaks(i)
                           \/ watch_lightning_payment(i) \/ LoseMessage(i)
  \/ watch_funding_address \/ abort_watcher \/ post_order
  \/ \E o \in DOMAIN orders : process_new_market_order(o) \/ insert_channel_opening_params(o)
  \/ process_pending_match
  \/ \E k \in DOMAIN executions :
       \/ determine_trade_action(k) \/ open_dlc_channel(k) \/ update_order_and_match(k)
       \/ settle_invoice(k) \/ publish_send_last(k)
       \/ cancel_offer(k) \/ cancel_hodl_invoice(k) \/ FailOrder(k)
  \/ \E c \in DOMAIN channels : AppAnswers(c)
  \/ DlcHandlerStep \/ Connect \/ Disconnect \/ Restart

Spec == Init /\ [][Next]_vars

---------------------------------------------------------------------------
(* Properties. *)

(* The types of the variables. *)
TypeOK ==
  /\ lnd \in Seq(InvoiceStates) /\ updates \in Seq(Seq(InvoiceStates))
  /\ watching \subseteq Invoices /\ invoices \in Seq(HodlInvoiceStates)
  /\ outbox \subseteq Invoices
  /\ watcher \in [state : {"idle", "waiting", "posting"}, invoice : Invoices \union {NoInvoice}]
  /\ orders \in Seq([invoice : Invoices \union {NoInvoice},
                     state : {"Open", "Matched", "Taken", "Failed"}])
  /\ matching \subseteq DOMAIN orders /\ params \subseteq DOMAIN orders
  /\ executions \in Seq([order : DOMAIN orders, external : BOOLEAN, step : Steps,
                         filled : BOOLEAN])
  /\ channels \in Seq([execution : DOMAIN executions,
                       state : {"Offered", "Signed", "Cancelled"}])
  /\ outbound \in DOMAIN channels \union {None}
  /\ events \in Seq([kind : {"Store", "Send", "Connected"},
                     channel : DOMAIN channels \union {None}])
  /\ connected \in BOOLEAN /\ reconnected \in BOOLEAN /\ sent \subseteq DOMAIN channels
  /\ faults \in 0..MaxFaults

Settled(o) == InvoiceOf(o) # NoInvoice /\ lnd[InvoiceOf(o)] = "Settled"
Mishap(kinds, x) == \E kind \in kinds : <<kind, x>> \in mishaps

(* The offer of a live channel is with the trader, or stored or about to be,  *)
(* so that the next connect sends it.                                         *)
OfferReaches(c) ==
  \/ channels[c].state = "Signed"
  \/ /\ channels[c].state = "Offered"
     /\ \/ c \in sent \/ outbound = c
        \/ \E n \in DOMAIN events : events[n].kind = "Store" /\ events[n].channel = c

(* What an execution got the trader: the offer of a channel, or a trade in    *)
(* the channel there was.                                                     *)
Backed(k) ==
  \/ \E c \in DOMAIN channels : channels[c].execution = k /\ OfferReaches(c)
  \/ With("Signed") # {} /\ \A c \in DOMAIN channels : channels[c].execution # k

(* A payment the coordinator keeps is spent on its order: the order is Taken  *)
(* and an execution of it, which settled the invoice, made an offer that is   *)
(* on its way, or traded in the channel the trader already had, whatever      *)
(* steps fail and across a restart, unless another execution interfered, the  *)
(* answer of the settlement or the message to store was lost, or the trader   *)
(* refused (TradeExecutor::execute).                                          *)
PaymentBuysOffer ==
  \A o \in DOMAIN orders :
    /\ Settled(o)
    /\ ~Mishap({"clash", "answer lost", "offer lost", "refused"}, o)
    => /\ orders[o].state = "Taken"
       /\ \E k \in DOMAIN executions :
            executions[k].order = o /\ executions[k].filled /\ Backed(k)

(* A channel the coordinator funds alone is paid for before it is signed,     *)
(* unless a connect sent the stored offer before the invoice was settled, or  *)
(* the execution of another order sent it ("Everything has been processed     *)
(* successfully, we can safely send the last dlc message").                   *)
ChannelIsPaid ==
  \A c \in With("Signed") :
    Unpaid(c) => Mishap({"sent early", "clash"}, OrderOf(c))

(* A payment that was kept is recorded as Settled once its updates are        *)
(* handled, unless the watch of the invoice broke or a restart dropped it.    *)
PaymentIsRecorded ==
  \A i \in DOMAIN lnd :
    lnd[i] = "Settled" /\ updates[i] = <<>> /\ ~Mishap({"watch lost"}, i) =>
      invoices[i] = "Settled"

=============================================================================
