----------------------- MODULE ExternalFundingProofs -----------------------
(***************************************************************************)
(* Proofs about ExternalFunding, for every number of invoices, executions  *)
(* and faults.                                                             *)
(***************************************************************************)
EXTENDS ExternalFunding, SequenceTheorems, TLAPS

Final == {"Settled", "Canceled"}
Early == {"sent early", "clash"}
Excuses == {"clash", "answer lost", "offer lost", "refused"}

Live(c) == channels[c].state # "Cancelled"
Clashed(o) == Mishap({"clash"}, o)
OrderFor(k) == executions[k].order

\* An invoice is paid for at most one order; the app's task and the orders never
\* hold the same invoice, so that the row of a settled one is not set back
\* to Accepted.
InvoicesOK ==
    /\ Len(updates) = Len(lnd) /\ Len(invoices) = Len(lnd) /\ Len(lnd) <= MaxInvoices
    /\ watching \subseteq DOMAIN lnd /\ outbox \subseteq DOMAIN lnd
    /\ watcher.invoice \in DOMAIN lnd \union {NoInvoice}
    /\ \A o \in DOMAIN orders :
          /\ InvoiceOf(o) \in DOMAIN lnd \union {NoInvoice}
          /\ InvoiceOf(o) # NoInvoice => InvoiceOf(o) # watcher.invoice
          /\ \A x \in DOMAIN orders \ {o} : InvoiceOf(o) # NoInvoice => InvoiceOf(x) # InvoiceOf(o)
    /\ \A i \in DOMAIN lnd :
          lnd[i] = "Settled" => \E o \in params : InvoiceOf(o) = i

\* Whether an order has the invoice, or the app waits for it
Known(i) == watcher.invoice = i \/ \E o \in DOMAIN orders : InvoiceOf(o) = i

\* The stream of an invoice ends with its state, and the watch with the end of
\* the invoice.
WatchOK(i) ==
    /\ i \notin watching => updates[i] = <<>>
    /\ i \in watching =>
          IF updates[i] = <<>> THEN lnd[i] \notin Final ELSE updates[i][Len(updates[i])] = lnd[i]
    /\ \A n \in 1 .. Len(updates[i]) - 1 : updates[i][n] \notin Final
    /\ i \notin watching /\ Known(i) /\ ~Mishap({"watch lost"}, i) =>
          lnd[i] = "Canceled" \/ (lnd[i] = "Settled" /\ invoices[i] = "Settled")

WatchesOK == \A i \in DOMAIN lnd : WatchOK(i)

\* The parameters of an order are stored once, after its match.
ParamsOK ==
    /\ params \intersect matching = {}
    /\ \A o \in params \union matching : orders[o].state # "Open"

\* Only an externally funded order settles or cancels an invoice, and it does so
\* with the pre-image of its own.
ExecutionOK(k) ==
    /\ executions[k].external => InvoiceOf(OrderFor(k)) # NoInvoice /\ OrderFor(k) \in params
    /\ executions[k].step \in {"settle", "cancel_offer", "cancel_invoice"} => executions[k].external
    /\ executions[k].step \in {"settle", "send"} => executions[k].filled
    /\ executions[k].step = "send" /\ executions[k].external => Settled(OrderFor(k))
    /\ executions[k].step \in {"check", "propose"} =>
          \A c \in DOMAIN channels : channels[c].execution # k

ExecutionsOK == \A k \in DOMAIN executions : ExecutionOK(k)

\* Executions that overlap are known to, and so are the channels they offer.
ClashesOK ==
    /\ \A k, j \in Running : k # j => Clashed(OrderFor(k))
    /\ \A k \in DOMAIN executions, c \in DOMAIN channels :
          executions[k].step = "propose" /\ Live(c) => Clashed(OrderFor(k)) /\ Clashed(OrderOf(c))
    /\ \A c, d \in DOMAIN channels : c < d /\ Live(c) => Clashed(OrderOf(c))
    /\ \A c, d \in DOMAIN channels : c # d /\ Live(c) /\ Live(d) => Clashed(OrderOf(c))

\* Offers are stored in the order in which they are made.
StoresOK ==
    \A n \in DOMAIN events : events[n].kind = "Store" =>
        /\ events[n].channel \in DOMAIN channels /\ outbound < events[n].channel
        /\ \A m \in DOMAIN events :
              m < n /\ events[m].kind = "Store" => events[m].channel < events[n].channel

\* An unpaid offer is not sent, nor will a message in the queue or the end of
\* another execution send it.
PaidOK ==
    /\ With("Signed") \subseteq sent
    /\ \A c \in DOMAIN channels : Live(c) /\ Unpaid(c) /\ ~Mishap(Early, OrderOf(c)) =>
          /\ c \notin sent
          /\ \A n \in DOMAIN events : events[n].kind = "Send" =>
                /\ outbound # c
                /\ \A m \in DOMAIN events :
                      m < n /\ events[m].kind = "Store" => events[m].channel # c
          /\ \A k \in DOMAIN executions :
                executions[k].step \in {"update", "settle", "send"} => channels[c].execution = k

\* An execution that goes on to settle has its offer, and an order that was paid
\* is not touched again.
BackedOK ==
    /\ \A k \in DOMAIN executions :
          executions[k].step \in {"settle", "send"} /\ ~Clashed(OrderFor(k)) =>
              orders[OrderFor(k)].state = "Taken"
    /\ \A k \in DOMAIN executions :
          executions[k].step \in {"update", "settle", "send"} /\ ~Mishap(Excuses, OrderFor(k)) =>
              Backed(k)
    /\ \A o \in DOMAIN orders : Settled(o) /\ ~Mishap(Excuses, o) =>
          /\ orders[o].state = "Taken"
          /\ \A k \in Running : OrderFor(k) = o => executions[k].step = "send"
          /\ \E k \in DOMAIN executions :
                /\ OrderFor(k) = o /\ executions[k].filled
                /\ executions[k].step \in {"send", "done"}
                /\ Backed(k)

IInv ==
    /\ TypeOK /\ InvoicesOK /\ WatchesOK /\ ParamsOK /\ ExecutionsOK
    /\ ClashesOK /\ StoresOK /\ PaidOK /\ BackedOK

-----------------------------------------------------------------------------
(* Sequences *)

\* What appending to a sequence does.
LEMMA AppendTo ==
    ASSUME NEW S, NEW s \in Seq(S), NEW e \in S
    PROVE  /\ Append(s, e) \in Seq(S)
           /\ Len(s) \in Nat /\ Len(Append(s, e)) = Len(s) + 1
           /\ DOMAIN s = 1 .. Len(s)
           /\ DOMAIN Append(s, e) = DOMAIN s \union {Len(s) + 1}
           /\ Len(s) + 1 \notin DOMAIN s
           /\ \A i \in DOMAIN s : Append(s, e)[i] = s[i] /\ i < Len(s) + 1
           /\ Append(s, e)[Len(s) + 1] = e
<1>1. Len(s) \in Nat /\ DOMAIN s = 1 .. Len(s)
  BY LenProperties
<1>2. /\ Append(s, e) \in Seq(S) /\ Len(Append(s, e)) = Len(s) + 1
      /\ \A i \in 1 .. Len(s) : Append(s, e)[i] = s[i]
      /\ Append(s, e)[Len(s) + 1] = e
  BY AppendProperties
<1>3. DOMAIN Append(s, e) = 1 .. Len(s) + 1
  BY <1>2, LenProperties
<1> QED BY <1>1, <1>2, <1>3

\* An element of a sequence.
LEMMA ElementOf ==
    ASSUME NEW S, NEW s \in Seq(S), NEW i \in DOMAIN s
    PROVE  s[i] \in S
BY LenProperties

\* A sequence of one element.
LEMMA Singleton ==
    ASSUME NEW S, NEW e \in S
    PROVE  <<e>> \in Seq(S)
OBVIOUS

\* The sequence without elements.
LEMMA Empty ==
    ASSUME NEW S
    PROVE  <<>> \in Seq(S) /\ Len(<<>>) = 0 /\ DOMAIN <<>> = {}
OBVIOUS

\* Replacing an element keeps the others.
LEMMA Replace ==
    ASSUME NEW S, NEW s \in Seq(S), NEW i \in DOMAIN s, NEW e \in S
    PROVE  /\ [s EXCEPT ![i] = e] \in Seq(S)
           /\ DOMAIN [s EXCEPT ![i] = e] = DOMAIN s
           /\ Len([s EXCEPT ![i] = e]) = Len(s)
           /\ \A j \in DOMAIN s : [s EXCEPT ![i] = e][j] = IF j = i THEN e ELSE s[j]
<1>1. DOMAIN s = 1 .. Len(s)
  BY LenProperties
<1> QED BY <1>1, ExceptSeq

-----------------------------------------------------------------------------
(* Types *)

OrderRows == [invoice : Invoices \union {NoInvoice}, state : {"Open", "Matched", "Taken", "Failed"}]
ExecutionRows == [order : DOMAIN orders, external : BOOLEAN, step : Steps, filled : BOOLEAN]
ChannelRows == [execution : DOMAIN executions, state : {"Offered", "Signed", "Cancelled"}]
EventRows == [kind : {"Store", "Send", "Connected"}, channel : DOMAIN channels \union {None}]

\* A step counts at most one fault.
LEMMA FaultsOK ==
    ASSUME faults \in 0 .. MaxFaults, faults' = faults \/ (faults < MaxFaults /\ faults' = faults + 1)
    PROVE  faults' \in 0 .. MaxFaults
<1>1. MaxFaults \in Nat
  BY ExternalFundingAssumption
<1> QED BY <1>1

\* An execution goes to its next step, and nothing else of it changes.
LEMMA Goes ==
    ASSUME TypeOK, NEW k \in DOMAIN executions, NEW s \in Steps, Go(k, s)
    PROVE  /\ executions' \in Seq(ExecutionRows)
           /\ DOMAIN executions' = DOMAIN executions
           /\ \A j \in DOMAIN executions :
                 /\ executions'[j].order = executions[j].order
                 /\ executions'[j].external = executions[j].external
                 /\ executions'[j].filled = executions[j].filled
                 /\ executions'[j].step = IF j = k THEN s ELSE executions[j].step
<1>0. executions \in Seq(ExecutionRows)
  BY DEF TypeOK, ExecutionRows
<1>1. executions[k] \in ExecutionRows
  BY <1>0, ElementOf
<1>2. [executions[k] EXCEPT !.step = s] \in ExecutionRows
  BY <1>1 DEF ExecutionRows
<1>3. executions' = [executions EXCEPT ![k] = [executions[k] EXCEPT !.step = s]]
  BY DEF Go
<1> QED BY <1>0, <1>1, <1>2, <1>3, Replace DEF ExecutionRows

\* The state of an order changes, and nothing else of it.
LEMMA OrderSet ==
    ASSUME TypeOK, NEW o \in DOMAIN orders, NEW s \in {"Open", "Matched", "Taken", "Failed"},
           orders' = [orders EXCEPT ![o].state = s]
    PROVE  /\ orders' \in Seq(OrderRows)
           /\ DOMAIN orders' = DOMAIN orders
           /\ \A x \in DOMAIN orders :
                 /\ orders'[x].invoice = orders[x].invoice
                 /\ orders'[x].state = IF x = o THEN s ELSE orders[x].state
<1>0. orders \in Seq(OrderRows)
  BY DEF TypeOK, OrderRows
<1>1. orders[o] \in OrderRows
  BY <1>0, ElementOf
<1>2. [orders[o] EXCEPT !.state = s] \in OrderRows
  BY <1>1 DEF OrderRows
<1>3. orders' = [orders EXCEPT ![o] = [orders[o] EXCEPT !.state = s]]
  OBVIOUS
<1> QED BY <1>0, <1>1, <1>2, <1>3, Replace DEF OrderRows

\* The state of a channel changes, and nothing else of it.
LEMMA ChannelSet ==
    ASSUME TypeOK, NEW c \in DOMAIN channels, NEW s \in {"Offered", "Signed", "Cancelled"},
           channels' = [channels EXCEPT ![c].state = s]
    PROVE  /\ channels' \in Seq(ChannelRows)
           /\ DOMAIN channels' = DOMAIN channels
           /\ \A d \in DOMAIN channels :
                 /\ channels'[d].execution = channels[d].execution
                 /\ channels'[d].state = IF d = c THEN s ELSE channels[d].state
<1>0. channels \in Seq(ChannelRows)
  BY DEF TypeOK, ChannelRows
<1>1. channels[c] \in ChannelRows
  BY <1>0, ElementOf
<1>2. [channels[c] EXCEPT !.state = s] \in ChannelRows
  BY <1>1 DEF ChannelRows
<1>3. channels' = [channels EXCEPT ![c] = [channels[c] EXCEPT !.state = s]]
  OBVIOUS
<1> QED BY <1>0, <1>1, <1>2, <1>3, Replace DEF ChannelRows

\* The state of an invoice at lnd changes, and its stream tells a watch.
LEMMA Moves ==
    ASSUME TypeOK, InvoicesOK, NEW i \in DOMAIN lnd, NEW s \in InvoiceStates, LndMoves(i, s)
    PROVE  /\ lnd' \in Seq(InvoiceStates) /\ updates' \in Seq(Seq(InvoiceStates))
           /\ DOMAIN lnd' = DOMAIN lnd /\ Len(lnd') = Len(lnd) /\ Len(updates') = Len(updates)
           /\ \A j \in DOMAIN lnd :
                 /\ lnd'[j] = IF j = i THEN s ELSE lnd[j]
                 /\ updates'[j] = IF j = i /\ i \in watching THEN Append(updates[j], s) ELSE updates[j]
<1>1. /\ lnd \in Seq(InvoiceStates) /\ updates \in Seq(Seq(InvoiceStates))
      /\ DOMAIN updates = DOMAIN lnd
  BY LenProperties DEF TypeOK, InvoicesOK
<1>2. updates[i] \in Seq(InvoiceStates) /\ Append(updates[i], s) \in Seq(InvoiceStates)
  BY <1>1, ElementOf, AppendTo
<1>3. lnd' = [lnd EXCEPT ![i] = s]
  BY DEF LndMoves
<1>4. CASE i \in watching
  <2>1. updates' = [updates EXCEPT ![i] = Append(updates[i], s)]
    BY <1>4 DEF LndMoves, subscribe_to_invoice
  <2> QED BY <1>1, <1>2, <1>3, <1>4, <2>1, Replace
<1>5. CASE i \notin watching
  <2>1. updates' = updates
    BY <1>1, <1>5, LenProperties DEF LndMoves, subscribe_to_invoice
  <2> QED BY <1>1, <1>2, <1>3, <1>5, <2>1, Replace
<1> QED BY <1>4, <1>5

-----------------------------------------------------------------------------
(* What a step of one side leaves alone *)

\* The channel, the execution and the order behind one another exist.
LEMMA Behind ==
    ASSUME TypeOK
    PROVE  /\ \A c \in DOMAIN channels : /\ channels[c].execution \in DOMAIN executions
                                          /\ OrderOf(c) \in DOMAIN orders
                                          /\ channels[c].state \in {"Offered", "Signed", "Cancelled"}
           /\ \A k \in DOMAIN executions : OrderFor(k) \in DOMAIN orders /\ executions[k] \in ExecutionRows
           /\ \A o \in DOMAIN orders : orders[o] \in OrderRows
           /\ \A n \in DOMAIN events : events[n] \in EventRows
           /\ \A c \in DOMAIN channels : c \in Nat /\ c # None
           /\ outbound \in Nat
<1>1. /\ orders \in Seq(OrderRows) /\ executions \in Seq(ExecutionRows)
      /\ channels \in Seq(ChannelRows) /\ events \in Seq(EventRows)
  BY DEF TypeOK, OrderRows, ExecutionRows, ChannelRows, EventRows
<1>2. \A o \in DOMAIN orders : orders[o] \in OrderRows
  BY <1>1, ElementOf
<1>3. \A k \in DOMAIN executions : executions[k] \in ExecutionRows
  BY <1>1, ElementOf
<1>4. \A c \in DOMAIN channels : channels[c] \in ChannelRows
  BY <1>1, ElementOf
<1>5. \A n \in DOMAIN events : events[n] \in EventRows
  BY <1>1, ElementOf
<1>6. \A c \in DOMAIN channels : c \in Nat /\ c # None
  BY <1>1, LenProperties DEF None
<1>7. outbound \in Nat
  BY <1>6 DEF TypeOK, None
<1> QED BY <1>2, <1>3, <1>4, <1>5, <1>6, <1>7 DEF OrderFor, OrderOf, ExecutionRows, ChannelRows

\* Steps that leave executions and offers as they are, settle no invoice, and take no
\* order back that was Taken.
LEMMA OrdersChange ==
    ASSUME IInv, UNCHANGED <<executions, dlcVars>>, params \subseteq params',
           DOMAIN orders \subseteq DOMAIN orders',
           \A o \in DOMAIN orders : /\ orders'[o].invoice = orders[o].invoice
                                    /\ orders[o].state = "Taken" => orders'[o].state = "Taken",
           \A o \in DOMAIN orders : Settled(o)' <=> Settled(o),
           \A o \in DOMAIN orders' \ DOMAIN orders : ~Settled(o)',
           \A kind \in Excuses \union Early : \A x :
                <<kind, x>> \in mishaps' <=> <<kind, x>> \in mishaps
    PROVE  ExecutionsOK' /\ ClashesOK' /\ StoresOK' /\ PaidOK' /\ BackedOK'
<1> USE DEF dlcVars
<1>0. TypeOK /\ ExecutionsOK /\ ClashesOK /\ StoresOK /\ PaidOK /\ BackedOK
  BY DEF IInv
<1>1. /\ \A x : Mishap(Excuses, x)' <=> Mishap(Excuses, x)
      /\ \A x : Mishap(Early, x)' <=> Mishap(Early, x)
      /\ \A x : Clashed(x)' <=> Clashed(x)
  BY DEF Mishap, Excuses, Early, Clashed
<1>2. \A o \in DOMAIN orders : InvoiceOf(o)' = InvoiceOf(o)
  BY DEF InvoiceOf
<1>3. /\ \A c : Live(c)' = Live(c) /\ OrderOf(c)' = OrderOf(c) /\ OfferReaches(c)' = OfferReaches(c)
      /\ \A k : OrderFor(k)' = OrderFor(k)
      /\ Running' = Running /\ \A x : With(x)' = With(x)
  BY DEF Live, OrderOf, OrderFor, Running, With, OfferReaches
<1>4. \A k \in DOMAIN executions : OrderFor(k) \in DOMAIN orders
  BY <1>0, Behind
<1>5. ExecutionsOK'
  BY <1>0, <1>2, <1>3, <1>4 DEF ExecutionsOK, ExecutionOK
<1>6. ClashesOK'
  BY <1>0, <1>1, <1>3 DEF ClashesOK
<1>7. StoresOK'
  BY <1>0 DEF StoresOK
<1>8. \A c \in DOMAIN channels : Unpaid(c)' = Unpaid(c)
  <2> SUFFICES ASSUME NEW c \in DOMAIN channels PROVE Unpaid(c)' = Unpaid(c)
    OBVIOUS
  <2>1. channels[c].execution \in DOMAIN executions /\ OrderOf(c) \in DOMAIN orders
    BY <1>0, Behind
  <2>2. executions[channels[c].execution].external => InvoiceOf(OrderOf(c)) # NoInvoice
    BY <1>0, <2>1 DEF ExecutionsOK, ExecutionOK, OrderFor, OrderOf
  <2> QED BY <1>2, <1>3, <2>1, <2>2 DEF Unpaid, Settled
<1>9. PaidOK'
  BY <1>0, <1>1, <1>3, <1>8 DEF PaidOK
<1>10. \A k \in DOMAIN executions : Backed(k)' <=> Backed(k)
  BY <1>3 DEF Backed
<1>11. BackedOK'
  BY <1>0, <1>1, <1>3, <1>4, <1>10 DEF BackedOK
<1> QED BY <1>5, <1>6, <1>7, <1>9, <1>11

\* Invoices that move without being settled leave orders, executions and offers
\* as they were.
LEMMA InvoiceSide ==
    ASSUME IInv, UNCHANGED <<bookVars, executions, dlcVars>>,
           \A o \in DOMAIN orders : Settled(o)' <=> Settled(o),
           \A kind \in Excuses \union Early : \A x :
                <<kind, x>> \in mishaps' <=> <<kind, x>> \in mishaps
    PROVE  ParamsOK' /\ ExecutionsOK' /\ ClashesOK' /\ StoresOK' /\ PaidOK' /\ BackedOK'
<1>1. ParamsOK'
  BY DEF IInv, ParamsOK, bookVars
<1> QED BY <1>1, OrdersChange DEF bookVars

\* Steps that change neither an invoice nor which order has it.
LEMMA BookSide ==
    ASSUME InvoicesOK, WatchesOK, UNCHANGED <<lnd, updates, watching, invoices, outbox, watcher>>,
           DOMAIN orders' = DOMAIN orders,
           \A o \in DOMAIN orders : orders'[o].invoice = orders[o].invoice,
           params \subseteq params', params \subseteq DOMAIN orders, mishaps \subseteq mishaps'
    PROVE  InvoicesOK' /\ WatchesOK'
<1>1. \A o \in DOMAIN orders : InvoiceOf(o)' = InvoiceOf(o)
  BY DEF InvoiceOf
<1>2. InvoicesOK'
  <2>1. \A i \in DOMAIN lnd : lnd[i] = "Settled" => \E o \in params' : InvoiceOf(o)' = i
    BY <1>1 DEF InvoicesOK
  <2> QED BY <1>1, <2>1 DEF InvoicesOK
<1>3. \A i : Known(i)' <=> Known(i)
  BY <1>1 DEF Known
<1>4. \A i : Mishap({"watch lost"}, i) => Mishap({"watch lost"}, i)'
  BY DEF Mishap
<1>5. WatchesOK'
  BY <1>3, <1>4 DEF WatchesOK, WatchOK
<1> QED BY <1>2, <1>5

-----------------------------------------------------------------------------
(* The lnd node and the watches *)

\* What InvoiceSide asks for when lnd moves an invoice to another state.
LEMMA SettledKept ==
    ASSUME TypeOK, InvoicesOK, UNCHANGED orders, DOMAIN lnd \subseteq DOMAIN lnd',
           \A j \in DOMAIN lnd : lnd'[j] = "Settled" <=> lnd[j] = "Settled"
    PROVE  \A o \in DOMAIN orders : Settled(o)' <=> Settled(o)
BY DEF Settled, InvoiceOf, InvoicesOK

\* An invoice that is paid, expires or is cancelled keeps the invariants of the
\* invoices.
LEMMA MovesOK ==
    ASSUME TypeOK, InvoicesOK, WatchesOK, NEW i \in DOMAIN lnd, NEW s \in InvoiceStates,
           LndMoves(i, s), lnd[i] \notin Final,
           UNCHANGED <<watching, invoices, outbox, watcher, orders, params>>,
           s = "Settled" => \E o \in params : InvoiceOf(o) = i,
           mishaps \subseteq mishaps'
    PROVE  InvoicesOK' /\ WatchesOK'
<1>1. /\ lnd' \in Seq(InvoiceStates) /\ updates' \in Seq(Seq(InvoiceStates))
      /\ DOMAIN lnd' = DOMAIN lnd /\ Len(lnd') = Len(lnd) /\ Len(updates') = Len(updates)
      /\ \A j \in DOMAIN lnd :
            /\ lnd'[j] = IF j = i THEN s ELSE lnd[j]
            /\ updates'[j] = IF j = i /\ i \in watching THEN Append(updates[j], s) ELSE updates[j]
  BY Moves
<1>2. \A o : InvoiceOf(o)' = InvoiceOf(o)
  BY DEF InvoiceOf
<1>3. InvoicesOK'
  BY <1>1, <1>2 DEF InvoicesOK
<1>4. ASSUME NEW j \in DOMAIN lnd PROVE WatchOK(j)'
  <2>1. WatchOK(j) /\ (Known(j)' <=> Known(j))
    BY <1>2 DEF WatchesOK, Known
  <2>2. Mishap({"watch lost"}, j) => Mishap({"watch lost"}, j)'
    BY DEF Mishap
  <2>3. CASE j # i \/ i \notin watching
    BY <1>1, <2>1, <2>2, <2>3 DEF WatchOK, Final
  <2>4. CASE j = i /\ i \in watching
    <3>0. updates \in Seq(Seq(InvoiceStates)) /\ i \in DOMAIN updates
      BY LenProperties DEF TypeOK, InvoicesOK
    <3>1. updates[i] \in Seq(InvoiceStates) /\ updates'[i] = Append(updates[i], s) /\ lnd'[i] = s
      BY <1>1, <2>4, <3>0, ElementOf
    <3>2. /\ Len(updates[i]) \in Nat /\ Len(updates'[i]) = Len(updates[i]) + 1
          /\ DOMAIN updates[i] = 1 .. Len(updates[i])
          /\ \A n \in DOMAIN updates[i] : updates'[i][n] = updates[i][n]
          /\ updates'[i][Len(updates[i]) + 1] = s
      BY <3>1, AppendTo
    <3>3. updates'[i] # <<>>
      BY <3>1, <3>2
    <3>4. \A n \in DOMAIN updates[i] : updates[i][n] \notin Final
      <4>1. CASE updates[i] = <<>>
        BY <4>1
      <4>2. CASE updates[i] # <<>>
        <5>1. \A n \in DOMAIN updates[i] : n = Len(updates[i]) \/ n \in 1 .. Len(updates[i]) - 1
          BY <3>2
        <5> QED BY <2>1, <2>4, <4>2, <5>1 DEF WatchOK
      <4> QED BY <4>1, <4>2
    <3>5. 1 .. Len(updates'[i]) - 1 = DOMAIN updates[i]
      BY <3>2
    <3>6. \A n \in 1 .. Len(updates'[i]) - 1 : updates'[i][n] \notin Final
      BY <3>2, <3>4, <3>5
    <3>7. updates'[i][Len(updates'[i])] = lnd'[i]
      BY <3>1, <3>2
    <3> QED BY <2>4, <3>3, <3>6, <3>7 DEF WatchOK
  <2> QED BY <2>3, <2>4
<1> QED BY <1>1, <1>3, <1>4 DEF WatchesOK

\* A payment and an expiry.
LEMMA LndStep ==
    ASSUME IInv, NEW i \in DOMAIN lnd, PayInvoice(i) \/ Expire(i)
    PROVE  IInv'
<1>1. PICK s \in {"Accepted", "Canceled"} : LndMoves(i, s)
  BY DEF PayInvoice, Expire, LndCancels
<1>2. /\ lnd[i] \notin Final
      /\ UNCHANGED <<watching, invoices, appVars, bookVars, executions, dlcVars, linkVars, mishaps, faults>>
  BY DEF PayInvoice, Expire, LndCancels, Final
<1>3. s \in InvoiceStates
  BY DEF InvoiceStates
<1>4. TypeOK /\ InvoicesOK /\ WatchesOK
  BY DEF IInv
<1>5. InvoicesOK' /\ WatchesOK'
  BY <1>1, <1>2, <1>3, <1>4, MovesOK DEF appVars, bookVars
<1>6. /\ lnd' \in Seq(InvoiceStates) /\ updates' \in Seq(Seq(InvoiceStates))
      /\ DOMAIN lnd' = DOMAIN lnd
      /\ \A j \in DOMAIN lnd : lnd'[j] = IF j = i THEN s ELSE lnd[j]
  BY <1>1, <1>3, <1>4, Moves
<1>7. TypeOK'
  BY <1>2, <1>4, <1>6 DEF TypeOK, appVars, bookVars, dlcVars, linkVars
<1>8. \A o \in DOMAIN orders : Settled(o)' <=> Settled(o)
  <2>1. \A j \in DOMAIN lnd : lnd'[j] = "Settled" <=> lnd[j] = "Settled"
    BY <1>2, <1>6 DEF Final
  <2> QED BY <1>2, <1>4, <1>6, <2>1, SettledKept DEF bookVars
<1>9. ParamsOK' /\ ExecutionsOK' /\ ClashesOK' /\ StoresOK' /\ PaidOK' /\ BackedOK'
  BY <1>2, <1>8, InvoiceSide
<1> QED BY <1>5, <1>7, <1>9 DEF IInv

\* A new invoice.
LEMMA Submit ==
    ASSUME IInv, NEW i \in Invoices, submit_unfunded_channel_opening_order(i)
    PROVE  IInv'
<1>1. PICK answer \in Answers :
          /\ create_invoice(i, answer)
          /\ watcher' = Wait(get_hodl_invoice_from_coordinator(i, answer))
          /\ IF answer = "ok" THEN faults' = faults ELSE faults < MaxFaults /\ faults' = faults + 1
  BY DEF submit_unfunded_channel_opening_order
<1>2. i = Len(lnd) + 1 /\ UNCHANGED <<outbox, bookVars, executions, dlcVars, linkVars, mishaps>>
  BY DEF submit_unfunded_channel_opening_order
<1>3. TypeOK /\ InvoicesOK /\ WatchesOK
  BY DEF IInv
<1> DEFINE row == IF answer = "no row" THEN "None" ELSE "Open"
           told == IF answer = "no row" THEN <<>> ELSE <<"Open">>
<1>4. /\ lnd \in Seq(InvoiceStates) /\ invoices \in Seq(HodlInvoiceStates)
      /\ updates \in Seq(Seq(InvoiceStates)) /\ Len(updates) = Len(lnd) /\ Len(invoices) = Len(lnd)
      /\ Len(lnd) \in Nat
  BY <1>3, LenProperties DEF TypeOK, InvoicesOK
<1>5. "Open" \in InvoiceStates /\ row \in HodlInvoiceStates /\ told \in Seq(InvoiceStates)
  <2>1. "Open" \in InvoiceStates /\ row \in HodlInvoiceStates
    BY DEF InvoiceStates, HodlInvoiceStates
  <2>2. <<>> \in Seq(InvoiceStates)
    OBVIOUS
  <2>3. <<"Open">> \in Seq(InvoiceStates)
    BY <2>1, Singleton
  <2> QED BY <2>1, <2>2, <2>3
<1>6. lnd' = Append(lnd, "Open") /\ invoices' = Append(invoices, row) /\ updates' = Append(updates, told)
  BY <1>1 DEF create_invoice, create_hodl_invoice
<1>7. /\ lnd' \in Seq(InvoiceStates) /\ invoices' \in Seq(HodlInvoiceStates)
      /\ updates' \in Seq(Seq(InvoiceStates))
      /\ Len(lnd') = i /\ Len(invoices') = i /\ Len(updates') = i
      /\ DOMAIN lnd' = DOMAIN lnd \union {i} /\ i \notin DOMAIN lnd
      /\ lnd'[i] = "Open" /\ updates'[i] = told
      /\ \A j \in DOMAIN lnd : lnd'[j] = lnd[j] /\ updates'[j] = updates[j] /\ invoices'[j] = invoices[j]
  <2>1. DOMAIN lnd = DOMAIN updates /\ DOMAIN lnd = DOMAIN invoices
    BY <1>4, LenProperties
  <2> HIDE DEF row, told
  <2>2. /\ lnd' \in Seq(InvoiceStates) /\ Len(lnd') = Len(lnd) + 1
        /\ DOMAIN lnd' = DOMAIN lnd \union {Len(lnd) + 1} /\ Len(lnd) + 1 \notin DOMAIN lnd
        /\ lnd'[Len(lnd) + 1] = "Open" /\ \A j \in DOMAIN lnd : lnd'[j] = lnd[j]
    BY <1>4, <1>5, <1>6, AppendTo
  <2>3. /\ invoices' \in Seq(HodlInvoiceStates) /\ Len(invoices') = Len(invoices) + 1
        /\ \A j \in DOMAIN invoices : invoices'[j] = invoices[j]
    BY <1>4, <1>5, <1>6, AppendTo
  <2>4. /\ updates' \in Seq(Seq(InvoiceStates)) /\ Len(updates') = Len(updates) + 1
        /\ updates'[Len(updates) + 1] = told
        /\ \A j \in DOMAIN updates : updates'[j] = updates[j]
    BY <1>4, <1>5, <1>6, AppendTo
  <2> QED BY <1>2, <1>4, <2>1, <2>2, <2>3, <2>4
<1>8. /\ watching' = IF answer = "no row" THEN watching ELSE watching \union {i}
      /\ watcher' = [state |-> "waiting", invoice |-> IF answer = "ok" THEN i ELSE NoInvoice]
  BY <1>1 DEF create_invoice, Wait, get_hodl_invoice_from_coordinator
<1>9. faults' \in 0 .. MaxFaults
  BY <1>1, <1>3, FaultsOK DEF TypeOK
<1>10. TypeOK'
  BY <1>2, <1>3, <1>7, <1>8, <1>9 DEF TypeOK, Invoices, NoInvoice, bookVars, dlcVars, linkVars
<1>11. \A o : InvoiceOf(o)' = InvoiceOf(o)
  BY <1>2 DEF InvoiceOf, bookVars
<1>0. i # NoInvoice /\ \A o \in DOMAIN orders : InvoiceOf(o) # i
  <2>1. i # NoInvoice
    BY <1>2, <1>4 DEF NoInvoice
  <2> QED BY <1>3, <1>7, <2>1 DEF InvoicesOK
<1>12. InvoicesOK'
  <2>1. Len(lnd') <= MaxInvoices
    <3>1. MaxInvoices \in Nat /\ i \in 1 .. MaxInvoices
      BY ExternalFundingAssumption DEF Invoices
    <3>2. Len(lnd') = i
      BY <1>7
    <3> QED BY <3>1, <3>2
  <2> QED BY <1>0, <1>2, <1>3, <1>7, <1>8, <1>11, <2>1 DEF InvoicesOK, bookVars
<1>13. WatchesOK'
  <2>1. ASSUME NEW j \in DOMAIN lnd PROVE WatchOK(j)'
    <3>1. WatchOK(j) /\ j # i
      BY <1>3, <1>7 DEF WatchesOK
    <3>2. Known(j)' => Known(j)
      <4>1. j # NoInvoice
        BY <1>4, LenProperties DEF NoInvoice
      <4>2. watcher'.invoice # j
        BY <1>8, <3>1, <4>1
      <4>3. orders' = orders
        BY <1>2 DEF bookVars
      <4> QED BY <1>11, <4>2, <4>3 DEF Known
    <3> QED BY <1>2, <1>7, <1>8, <3>1, <3>2 DEF WatchOK, Mishap
  <2>2. WatchOK(i)'
    <3>1. i \notin watching
      BY <1>3, <1>7 DEF InvoicesOK
    <3>3. CASE answer = "no row"
      <4>1. watcher'.invoice # i /\ orders' = orders
        BY <1>0, <1>2, <1>8, <3>3 DEF bookVars
      <4>2. ~Known(i)'
        BY <1>0, <1>11, <4>1 DEF Known
      <4>3. updates'[i] = <<>> /\ watching' = watching
        BY <1>7, <1>8, <3>3
      <4>4. 1 .. Len(<<>>) - 1 = {}
        OBVIOUS
      <4> QED BY <3>1, <4>2, <4>3, <4>4 DEF WatchOK
    <3>4. CASE answer # "no row"
      <4>1. updates'[i] = <<"Open">> /\ lnd'[i] = "Open" /\ i \in watching'
        BY <1>7, <1>8, <3>4
      <4>2. Len(<<"Open">>) = 1 /\ <<"Open">>[1] = "Open" /\ <<"Open">> # <<>>
        OBVIOUS
      <4>3. 1 .. Len(<<"Open">>) - 1 = {}
        BY <4>2
      <4> QED BY <4>1, <4>2, <4>3 DEF WatchOK
    <3> QED BY <3>3, <3>4
  <2> QED BY <1>7, <2>1, <2>2 DEF WatchesOK
<1>14. \A o \in DOMAIN orders : Settled(o)' <=> Settled(o)
  BY <1>2, <1>3, <1>7, SettledKept DEF bookVars
<1>15. ParamsOK' /\ ExecutionsOK' /\ ClashesOK' /\ StoresOK' /\ PaidOK' /\ BackedOK'
  BY <1>2, <1>14, InvoiceSide
<1> QED BY <1>10, <1>12, <1>13, <1>15 DEF IInv

\* Numbers between the first and the last of several.
LEMMA BelowLast ==
    ASSUME NEW n \in Nat, n >= 1, n # 1
    PROVE  1 \in 1 .. n - 1 /\ n - 1 \in 1 .. n - 1
OBVIOUS

\* The elements behind the head of a sequence.
LEMMA Rest ==
    ASSUME NEW S, NEW s \in Seq(S), s # <<>>
    PROVE  /\ Tail(s) \in Seq(S) /\ Len(s) \in Nat /\ Len(s) >= 1
           /\ Len(Tail(s)) = Len(s) - 1
           /\ DOMAIN s = 1 .. Len(s) /\ DOMAIN Tail(s) = 1 .. Len(s) - 1
           /\ \A n \in DOMAIN Tail(s) : n + 1 \in DOMAIN s /\ Tail(s)[n] = s[n + 1]
           /\ 1 \in DOMAIN s /\ Head(s) = s[1] /\ Head(s) \in S
<1>1. Len(s) \in Nat /\ Len(s) >= 1 /\ DOMAIN s = 1 .. Len(s)
  BY LenProperties, EmptySeq
<1>2. /\ Tail(s) \in Seq(S) /\ Len(Tail(s)) = Len(s) - 1
      /\ \A n \in 1 .. Len(Tail(s)) : Tail(s)[n] = s[n + 1]
      /\ Head(s) = s[1] /\ Head(s) \in S
  BY HeadTailProperties
<1>3. DOMAIN Tail(s) = 1 .. Len(s) - 1
  BY <1>1, <1>2, LenProperties
<1> QED BY <1>1, <1>2, <1>3

\* A watch hears of a change, or breaks.
LEMMA WatchStep ==
    ASSUME IInv, NEW i \in DOMAIN lnd, spawn_invoice_watch(i) \/ WatchBreaks(i)
    PROVE  IInv'
<1>1. TypeOK /\ InvoicesOK /\ WatchesOK /\ WatchOK(i)
  BY DEF IInv, WatchesOK
<1>2. /\ i \in watching /\ UNCHANGED <<lnd, watcher, bookVars, executions, dlcVars, linkVars>>
      /\ mishaps \subseteq mishaps'
  BY DEF spawn_invoice_watch, WatchBreaks, appVars
<1>3. /\ updates \in Seq(Seq(InvoiceStates)) /\ invoices \in Seq(HodlInvoiceStates)
      /\ DOMAIN updates = DOMAIN lnd /\ DOMAIN invoices = DOMAIN lnd
      /\ Len(updates) = Len(lnd) /\ Len(invoices) = Len(lnd)
  BY <1>1, LenProperties DEF TypeOK, InvoicesOK
<1>4. updates[i] \in Seq(InvoiceStates)
  BY <1>3, ElementOf
<1>5. \A o : InvoiceOf(o)' = InvoiceOf(o)
  BY <1>2 DEF InvoiceOf, bookVars
<1>6. \A j : Known(j)' <=> Known(j)
  BY <1>2, <1>5 DEF Known, bookVars
<1>7. \A j : Mishap({"watch lost"}, j) => Mishap({"watch lost"}, j)'
  BY <1>2 DEF Mishap
<1>8. CASE spawn_invoice_watch(i)
  <2> DEFINE state == Head(updates[i])
  <2>1. updates[i] # <<>> /\ UNCHANGED <<mishaps, faults>>
    BY <1>8 DEF spawn_invoice_watch
  <2>2. /\ Tail(updates[i]) \in Seq(InvoiceStates) /\ Len(updates[i]) \in Nat
        /\ Len(updates[i]) >= 1 /\ Len(Tail(updates[i])) = Len(updates[i]) - 1
        /\ DOMAIN updates[i] = 1 .. Len(updates[i]) /\ DOMAIN Tail(updates[i]) = 1 .. Len(updates[i]) - 1
        /\ \A n \in DOMAIN Tail(updates[i]) :
              n + 1 \in DOMAIN updates[i] /\ Tail(updates[i])[n] = updates[i][n + 1]
        /\ state = updates[i][1]
    BY <1>4, <2>1, Rest
  <2>3. /\ updates' \in Seq(Seq(InvoiceStates)) /\ Len(updates') = Len(updates)
        /\ \A j \in DOMAIN lnd : updates'[j] = IF j = i THEN Tail(updates[i]) ELSE updates[j]
    <3>1. updates' = [updates EXCEPT ![i] = Tail(updates[i])]
      BY <1>8 DEF spawn_invoice_watch
    <3> QED BY <1>3, <2>2, <3>1, Replace
  <2>4. /\ outbox' = IF state = "Accepted" THEN outbox \union {i} ELSE outbox
        /\ watching' = IF state \in Final THEN watching \ {i} ELSE watching
    BY <1>8 DEF spawn_invoice_watch, Final
  <2>5. /\ invoices' \in Seq(HodlInvoiceStates) /\ Len(invoices') = Len(invoices)
        /\ \A j \in DOMAIN lnd :
              invoices'[j] = IF j = i /\ state \in Final THEN state ELSE invoices[j]
    <3>1. CASE state \in Final
      <4>1. state \in HodlInvoiceStates /\ invoices' = [invoices EXCEPT ![i] = state]
        BY <1>8, <3>1 DEF spawn_invoice_watch, update_hodl_invoice_to_settled,
                          update_hodl_invoice_to_canceled, Final, HodlInvoiceStates
      <4> HIDE DEF state
      <4>2. /\ [invoices EXCEPT ![i] = state] \in Seq(HodlInvoiceStates)
            /\ Len([invoices EXCEPT ![i] = state]) = Len(invoices)
            /\ \A j \in DOMAIN invoices :
                  [invoices EXCEPT ![i] = state][j] = IF j = i THEN state ELSE invoices[j]
        BY <1>3, <4>1, Replace
      <4> QED BY <1>3, <3>1, <4>1, <4>2
    <3>2. CASE state \notin Final
      <4>1. invoices' = invoices
        BY <1>8, <3>2 DEF spawn_invoice_watch, Final
      <4> QED BY <1>3, <3>2, <4>1
    <3> QED BY <3>1, <3>2
  <2>6. TypeOK'
    <3>1. i \in Invoices
      BY <1>1, <1>2 DEF TypeOK
    <3> HIDE DEF state
    <3> QED BY <1>1, <1>2, <2>1, <2>3, <2>4, <2>5, <3>1 DEF TypeOK, bookVars, dlcVars, linkVars
  <2>7. InvoicesOK'
    <3> HIDE DEF state
    <3> QED BY <1>1, <1>2, <1>5, <2>3, <2>4, <2>5 DEF InvoicesOK, bookVars
  <2>8. ASSUME NEW j \in DOMAIN lnd, j # i PROVE WatchOK(j)'
    <3> HIDE DEF state
    <3>1. WatchOK(j)
      BY <1>1 DEF WatchesOK
    <3>2. (j \in watching' <=> j \in watching) /\ updates'[j] = updates[j] /\ invoices'[j] = invoices[j]
      BY <2>3, <2>4, <2>5, <2>8
    <3> QED BY <1>2, <1>6, <1>7, <3>1, <3>2 DEF WatchOK
  <2>9. WatchOK(i)'
    <3>1. updates'[i] = Tail(updates[i])
      BY <2>3
    <3>2. updates[i][Len(updates[i])] = lnd[i]
      BY <1>1, <1>2, <2>1 DEF WatchOK
    <3>3. \A n \in 1 .. Len(updates[i]) - 1 : updates[i][n] \notin Final
      BY <1>1 DEF WatchOK
    <3>4. CASE state \in Final
      <4>1. Len(updates[i]) = 1
        <5>1. SUFFICES ASSUME Len(updates[i]) # 1 PROVE FALSE
          OBVIOUS
        <5>2. Len(updates[i]) \in Nat /\ Len(updates[i]) >= 1
          BY <2>2
        <5>3. 1 \in 1 .. Len(updates[i]) - 1
          BY <5>1, <5>2, BelowLast
        <5> QED BY <2>2, <3>3, <3>4, <5>3
      <4>2. updates'[i] = <<>>
        <5>1. Len(Tail(updates[i])) = 0
          BY <2>2, <4>1
        <5> QED BY <2>2, <3>1, <5>1, EmptySeq
      <4>3. i \notin watching' /\ lnd[i] = state /\ invoices'[i] = state
        BY <2>2, <2>4, <2>5, <3>2, <3>4, <4>1
      <4>4. 1 .. Len(<<>>) - 1 = {}
        OBVIOUS
      <4> QED BY <1>2, <3>4, <4>2, <4>3, <4>4 DEF WatchOK, Final
    <3>5. CASE state \notin Final
      <4>1. i \in watching'
        BY <1>2, <2>4, <3>5
      <4>2. ASSUME NEW n \in 1 .. Len(Tail(updates[i])) - 1
            PROVE  Tail(updates[i])[n] \notin Final
        <5>1. n \in DOMAIN Tail(updates[i]) /\ n + 1 \in 1 .. Len(updates[i]) - 1
          BY <2>2
        <5> QED BY <2>2, <3>3, <5>1
      <4>3. CASE Len(updates[i]) = 1
        <5>1. Tail(updates[i]) = <<>>
          <6>1. Len(Tail(updates[i])) = 0
            BY <2>2, <4>3
          <6> QED BY <2>2, <6>1, EmptySeq
        <5>2. lnd[i] \notin Final
          BY <2>2, <3>2, <3>5, <4>3
        <5>3. 1 .. Len(<<>>) - 1 = {}
          OBVIOUS
        <5> QED BY <1>2, <3>1, <4>1, <5>1, <5>2, <5>3 DEF WatchOK
      <4>4. CASE Len(updates[i]) # 1
        <5>1. Len(Tail(updates[i])) \in DOMAIN Tail(updates[i]) /\ Tail(updates[i]) # <<>>
          <6>1. Len(Tail(updates[i])) = Len(updates[i]) - 1 /\ Len(updates[i]) \in Nat /\ Len(updates[i]) >= 1
            BY <2>2
          <6>2. Len(Tail(updates[i])) \in 1 .. Len(updates[i]) - 1
            BY <4>4, <6>1, BelowLast
          <6>3. Len(<<>>) = 0
            OBVIOUS
          <6> QED BY <2>2, <6>2, <6>3
        <5>2. Tail(updates[i])[Len(Tail(updates[i]))] = updates[i][Len(Tail(updates[i])) + 1]
          BY <2>2, <5>1
        <5>3. Len(Tail(updates[i])) + 1 = Len(updates[i])
          BY <2>2
        <5>4. Tail(updates[i])[Len(Tail(updates[i]))] = lnd[i]
          BY <3>2, <5>2, <5>3
        <5> QED BY <1>2, <3>1, <4>1, <4>2, <5>1, <5>4 DEF WatchOK
      <4> QED BY <4>3, <4>4
    <3> QED BY <3>4, <3>5
  <2>10. WatchesOK'
    BY <1>2, <2>8, <2>9 DEF WatchesOK
  <2>11. \A o \in DOMAIN orders : Settled(o)' <=> Settled(o)
    BY <1>2, <1>5 DEF Settled, bookVars
  <2>12. ParamsOK' /\ ExecutionsOK' /\ ClashesOK' /\ StoresOK' /\ PaidOK' /\ BackedOK'
    BY <1>2, <2>1, <2>11, InvoiceSide
  <2> QED BY <2>6, <2>7, <2>10, <2>12 DEF IInv
<1>9. CASE WatchBreaks(i)
  <2>1. /\ UNCHANGED <<invoices, outbox>> /\ watching' = watching \ {i}
        /\ updates' = [updates EXCEPT ![i] = <<>>]
        /\ mishaps' = mishaps \union {<<"watch lost", i>>}
        /\ faults < MaxFaults /\ faults' = faults + 1
    BY <1>9 DEF WatchBreaks, appVars
  <2>2. /\ updates' \in Seq(Seq(InvoiceStates)) /\ Len(updates') = Len(updates)
        /\ \A j \in DOMAIN lnd : updates'[j] = IF j = i THEN <<>> ELSE updates[j]
    <3> DEFINE none == <<>>
    <3>0. none \in Seq(InvoiceStates)
      OBVIOUS
    <3>1. updates' = [updates EXCEPT ![i] = none]
      BY <2>1
    <3> HIDE DEF none
    <3>2. /\ updates' \in Seq(Seq(InvoiceStates)) /\ Len(updates') = Len(updates)
          /\ \A j \in DOMAIN lnd : updates'[j] = IF j = i THEN none ELSE updates[j]
      BY <1>3, <3>0, <3>1, Replace
    <3> QED BY <3>2 DEF none
  <2>3. TypeOK'
    <3>1. faults' \in 0 .. MaxFaults
      BY <1>1, <2>1, FaultsOK DEF TypeOK
    <3> QED BY <1>1, <1>2, <2>1, <2>2, <3>1 DEF TypeOK, bookVars, dlcVars, linkVars
  <2>4. InvoicesOK'
    BY <1>1, <1>2, <1>5, <2>1, <2>2 DEF InvoicesOK, bookVars
  <2>5. ASSUME NEW j \in DOMAIN lnd PROVE WatchOK(j)'
    <3>1. WatchOK(j)
      BY <1>1 DEF WatchesOK
    <3>2. 1 .. Len(<<>>) - 1 = {}
      OBVIOUS
    <3>3. CASE j = i
      <4>1. Mishap({"watch lost"}, i)' /\ i \notin watching' /\ updates'[i] = <<>>
        BY <2>1, <2>2 DEF Mishap
      <4> QED BY <3>2, <3>3, <4>1 DEF WatchOK
    <3>4. CASE j # i
      BY <1>2, <1>6, <1>7, <2>1, <2>2, <3>1, <3>4 DEF WatchOK
    <3> QED BY <3>3, <3>4
  <2>6. WatchesOK'
    BY <1>2, <2>5 DEF WatchesOK
  <2>7. \A o \in DOMAIN orders : Settled(o)' <=> Settled(o)
    BY <1>2, <1>5 DEF Settled, bookVars
  <2>8. \A kind \in Excuses \union Early : \A x : <<kind, x>> \in mishaps' <=> <<kind, x>> \in mishaps
    BY <2>1 DEF Excuses, Early
  <2>9. ParamsOK' /\ ExecutionsOK' /\ ClashesOK' /\ StoresOK' /\ PaidOK' /\ BackedOK'
    BY <1>2, <2>7, <2>8, InvoiceSide
  <2> QED BY <2>3, <2>4, <2>6, <2>9 DEF IInv
<1> QED BY <1>8, <1>9

-----------------------------------------------------------------------------
(* The app *)

\* The app hears of a payment or not, stops waiting or goes on without a payment:
\* the invoice it holds is the one it held, or none.
LEMMA AppStep ==
    ASSUME IInv,
           \/ \E i \in DOMAIN lnd : watch_lightning_payment(i) \/ LoseMessage(i)
           \/ watch_funding_address \/ abort_watcher
    PROVE  IInv'
<1>1. TypeOK /\ InvoicesOK /\ WatchesOK
  BY DEF IInv
<1>2. /\ UNCHANGED <<invoiceVars, bookVars, executions, dlcVars, linkVars, mishaps>>
      /\ outbox' \subseteq outbox
      /\ faults' = faults \/ (faults < MaxFaults /\ faults' = faults + 1)
  BY DEF watch_lightning_payment, LoseMessage, watch_funding_address, abort_watcher
<1>3. /\ watcher' \in [state : {"idle", "waiting", "posting"}, invoice : Invoices \union {NoInvoice}]
      /\ watcher'.invoice \in {watcher.invoice, NoInvoice}
  BY SMTT(30), <1>1 DEF TypeOK, watch_lightning_payment, LoseMessage, watch_funding_address, abort_watcher, Idle
<1>4. faults' \in 0 .. MaxFaults
  BY <1>1, <1>2, FaultsOK DEF TypeOK
<1>5. TypeOK'
  BY <1>1, <1>2, <1>3, <1>4 DEF TypeOK, invoiceVars, bookVars, dlcVars, linkVars
<1>6. \A o : InvoiceOf(o)' = InvoiceOf(o)
  BY <1>2 DEF InvoiceOf, bookVars
<1>7. InvoicesOK'
  BY <1>1, <1>2, <1>3, <1>6 DEF InvoicesOK, invoiceVars, bookVars
<1>8. \A i \in DOMAIN lnd : Known(i)' => Known(i)
  <2>1. \A i \in DOMAIN lnd : i # NoInvoice
    BY <1>1, LenProperties DEF TypeOK, NoInvoice
  <2> QED BY <1>2, <1>3, <1>6, <2>1 DEF Known, bookVars
<1>9. WatchesOK'
  BY <1>1, <1>2, <1>8 DEF WatchesOK, WatchOK, Mishap, invoiceVars
<1>10. \A o \in DOMAIN orders : Settled(o)' <=> Settled(o)
  BY <1>2, <1>6 DEF Settled, invoiceVars, bookVars
<1>11. ParamsOK' /\ ExecutionsOK' /\ ClashesOK' /\ StoresOK' /\ PaidOK' /\ BackedOK'
  BY <1>2, <1>10, InvoiceSide
<1> QED BY <1>5, <1>7, <1>9, <1>11 DEF IInv

\* The app posts the order with the pre-image of the invoice it holds.
LEMMA PostOrder ==
    ASSUME IInv, post_order
    PROVE  IInv'
<1> DEFINE i == watcher.invoice
           new == [invoice |-> i, state |-> "Open"]
<1>1. TypeOK /\ InvoicesOK /\ WatchesOK /\ ParamsOK
  BY DEF IInv
<1>2. /\ UNCHANGED <<lnd, updates, watching, outbox, matching, params, executions, dlcVars, linkVars, mishaps>>
      /\ watcher' = Idle
      /\ faults' = faults \/ (faults < MaxFaults /\ faults' = faults + 1)
      /\ orders' = orders \/ orders' = Append(orders, new)
      /\ invoices' = IF i = NoInvoice THEN invoices ELSE [invoices EXCEPT ![i] = "Accepted"]
  BY DEF post_order, update_hodl_invoice_to_accepted
<1>3. orders \in Seq(OrderRows) /\ new \in OrderRows /\ i \in DOMAIN lnd \union {NoInvoice}
  BY <1>1 DEF TypeOK, InvoicesOK, OrderRows
<1>0. PICK x : x = Len(orders) + 1
  OBVIOUS
<1> HIDE DEF new, i
<1>4. /\ orders' \in Seq(OrderRows) /\ DOMAIN orders \subseteq DOMAIN orders'
      /\ DOMAIN orders' \subseteq DOMAIN orders \union {x} /\ x \notin DOMAIN orders
      /\ \A o \in DOMAIN orders : orders'[o] = orders[o]
      /\ x \in DOMAIN orders' => orders'[x] = new
  <2>1. CASE orders' = orders
    BY <1>0, <1>3, <2>1, AppendTo
  <2>2. CASE orders' = Append(orders, new)
    BY <1>0, <1>3, <2>2, AppendTo
  <2> QED BY <1>2, <2>1, <2>2
<1>5. /\ invoices' \in Seq(HodlInvoiceStates) /\ Len(invoices') = Len(invoices)
      /\ \A j \in DOMAIN lnd : j # i => invoices'[j] = invoices[j]
  <2>1. /\ invoices \in Seq(HodlInvoiceStates) /\ "Accepted" \in HodlInvoiceStates
        /\ DOMAIN invoices = DOMAIN lnd
    BY <1>1, LenProperties DEF TypeOK, InvoicesOK, HodlInvoiceStates
  <2>2. CASE i = NoInvoice
    BY <1>2, <2>1, <2>2
  <2>3. CASE i # NoInvoice
    <3>1. i \in DOMAIN invoices /\ invoices' = [invoices EXCEPT ![i] = "Accepted"]
      BY <1>2, <1>3, <2>1, <2>3
    <3> QED BY <2>1, <3>1, Replace
  <2> QED BY <2>2, <2>3
<1>6. \A o \in DOMAIN orders : InvoiceOf(o)' = InvoiceOf(o)
  BY <1>4 DEF InvoiceOf
<1>7. x \in DOMAIN orders' => InvoiceOf(x)' = i
  BY <1>4 DEF InvoiceOf, new
<1>8. lnd[i] # "Settled" \/ i = NoInvoice
  BY <1>1, <1>3 DEF InvoicesOK, i, TypeOK
<1>9. TypeOK'
  <2>1. faults' \in 0 .. MaxFaults
    BY <1>1, <1>2, FaultsOK DEF TypeOK
  <2>2. executions \in Seq([order : DOMAIN orders', external : BOOLEAN, step : Steps, filled : BOOLEAN])
    <3>1. [order : DOMAIN orders, external : BOOLEAN, step : Steps, filled : BOOLEAN]
             \subseteq [order : DOMAIN orders', external : BOOLEAN, step : Steps, filled : BOOLEAN]
      BY <1>4
    <3> QED BY <1>1, <3>1, SeqMonotonic DEF TypeOK
  <2>3. matching \subseteq DOMAIN orders' /\ params \subseteq DOMAIN orders'
    BY <1>1, <1>4 DEF TypeOK
  <2> QED BY <1>1, <1>2, <1>4, <1>5, <2>1, <2>2, <2>3
          DEF TypeOK, OrderRows, Idle, dlcVars, linkVars
<1>10. InvoicesOK'
  <2>1. /\ Len(updates') = Len(lnd') /\ Len(invoices') = Len(lnd') /\ Len(lnd') <= MaxInvoices
        /\ watching' \subseteq DOMAIN lnd' /\ outbox' \subseteq DOMAIN lnd'
        /\ watcher'.invoice = NoInvoice
    BY <1>1, <1>2, <1>5 DEF InvoicesOK, Idle
  <2>2. \A o \in DOMAIN orders' :
          /\ InvoiceOf(o)' \in DOMAIN lnd \union {NoInvoice}
          /\ \A y \in DOMAIN orders' \ {o} : InvoiceOf(o)' # NoInvoice => InvoiceOf(y)' # InvoiceOf(o)'
    BY <1>1, <1>3, <1>4, <1>6, <1>7 DEF InvoicesOK, i
  <2>3. \A j \in DOMAIN lnd : lnd[j] = "Settled" => \E o \in params : InvoiceOf(o)' = j
    BY <1>1, <1>6 DEF InvoicesOK, TypeOK
  <2> QED BY <1>2, <2>1, <2>2, <2>3 DEF InvoicesOK
<1>11. WatchesOK'
  <2>1. \A j \in DOMAIN lnd : Known(j)' => Known(j)
    <3>1. \A j \in DOMAIN lnd : j # NoInvoice
      BY <1>1, LenProperties DEF TypeOK, NoInvoice
    <3> QED BY <1>2, <1>4, <1>6, <1>7, <3>1 DEF Known, Idle, i
  <2> QED BY <1>1, <1>2, <1>5, <1>8, <2>1 DEF WatchesOK, WatchOK, Mishap
<1>12. ParamsOK'
  BY <1>1, <1>2, <1>4 DEF ParamsOK, TypeOK
<1>13. /\ \A o \in DOMAIN orders : Settled(o)' <=> Settled(o)
       /\ \A o \in DOMAIN orders' \ DOMAIN orders : ~Settled(o)'
  BY <1>2, <1>4, <1>6, <1>7, <1>8 DEF Settled
<1>14. ExecutionsOK' /\ ClashesOK' /\ StoresOK' /\ PaidOK' /\ BackedOK'
  BY <1>2, <1>4, <1>13, OrdersChange
<1> QED BY <1>9, <1>10, <1>11, <1>12, <1>14 DEF IInv

-----------------------------------------------------------------------------
(* Matching and the start of an execution *)

\* The order is matched, or fails for want of a match.
LEMMA NewMarketOrder ==
    ASSUME IInv, NEW o \in DOMAIN orders, process_new_market_order(o)
    PROVE  IInv'
<1>1. TypeOK /\ InvoicesOK /\ WatchesOK /\ ParamsOK
  BY DEF IInv
<1>2. /\ orders[o].state = "Open" /\ matching' \subseteq matching \union {o}
      /\ UNCHANGED <<invoiceVars, appVars, params, executions, dlcVars, linkVars, mishaps, faults>>
  BY DEF process_new_market_order
<1>3. PICK s \in {"Matched", "Failed"} : orders' = [orders EXCEPT ![o].state = s]
  BY DEF process_new_market_order
<1>4. /\ orders' \in Seq(OrderRows) /\ DOMAIN orders' = DOMAIN orders
      /\ \A x \in DOMAIN orders : /\ orders'[x].invoice = orders[x].invoice
                                   /\ orders'[x].state = IF x = o THEN s ELSE orders[x].state
  <2>1. s \in {"Open", "Matched", "Taken", "Failed"}
    OBVIOUS
  <2> QED BY <1>1, <1>3, <2>1, OrderSet
<1>5. TypeOK'
  BY <1>1, <1>2, <1>4 DEF TypeOK, OrderRows, invoiceVars, appVars, dlcVars, linkVars
<1>6. InvoicesOK' /\ WatchesOK'
  BY <1>1, <1>2, <1>4, BookSide DEF invoiceVars, appVars, TypeOK
<1>7. ParamsOK'
  BY <1>1, <1>2, <1>4 DEF ParamsOK, TypeOK
<1>8. \A x \in DOMAIN orders : Settled(x)' <=> Settled(x)
  BY <1>2, <1>4 DEF Settled, InvoiceOf, invoiceVars
<1>9. ExecutionsOK' /\ ClashesOK' /\ StoresOK' /\ PaidOK' /\ BackedOK'
  BY <1>2, <1>4, <1>8, OrdersChange
<1> QED BY <1>5, <1>6, <1>7, <1>9 DEF IInv

\* The start of an execution of an order that was not paid: it clashes with those that
\* still run.
LEMMA Started ==
    ASSUME IInv, NEW o \in DOMAIN orders, NEW ext \in BOOLEAN, Start(o, ext),
           ext => InvoiceOf(o) # NoInvoice /\ o \in params',
           ~Settled(o) \/ Mishap(Excuses, o),
           params \subseteq params', UNCHANGED <<lnd, orders, dlcVars>>
    PROVE  /\ executions' \in Seq(ExecutionRows) /\ channels \in Seq(ChannelRows')
           /\ mishaps \subseteq mishaps'
           /\ ExecutionsOK' /\ ClashesOK' /\ StoresOK' /\ PaidOK' /\ BackedOK'
<1> USE DEF dlcVars
<1>0. TypeOK /\ ExecutionsOK /\ ClashesOK /\ StoresOK /\ PaidOK /\ BackedOK
  BY DEF IInv
<1> DEFINE new == [order |-> o, external |-> ext, step |-> "check", filled |-> FALSE]
<1>1. PICK n : n = Len(executions) + 1
  OBVIOUS
<1>2. executions \in Seq(ExecutionRows) /\ new \in ExecutionRows
  BY <1>0 DEF TypeOK, ExecutionRows, Steps
<1>3. executions' = Append(executions, new) /\ mishaps' = mishaps \union Clash(o)
  BY DEF Start
<1> HIDE DEF new
<1>4. /\ executions' \in Seq(ExecutionRows)
      /\ DOMAIN executions' = DOMAIN executions \union {n} /\ n \notin DOMAIN executions
      /\ \A k \in DOMAIN executions : executions'[k] = executions[k]
      /\ executions'[n] = new
  BY <1>1, <1>2, <1>3, AppendTo
<1>5. /\ executions'[n].order = o /\ executions'[n].external = ext
      /\ executions'[n].step = "check"
  BY <1>4 DEF new
<1>6. mishaps \subseteq mishaps'
  BY <1>3
<1>7. /\ \A x : Mishap(Excuses, x) => Mishap(Excuses, x)'
      /\ \A x : Mishap(Early, x) => Mishap(Early, x)'
      /\ \A x : Clashed(x) => Clashed(x)'
  BY <1>6 DEF Mishap, Clashed
<1>8. \A k \in DOMAIN executions : OrderFor(k)' = OrderFor(k)
  BY <1>4 DEF OrderFor
<1>9. \A k \in Running : Clashed(o)' /\ Clashed(OrderFor(k))'
  <2> SUFFICES ASSUME NEW k \in Running PROVE Clashed(o)' /\ Clashed(OrderFor(k))'
    OBVIOUS
  <2>1. Clash(o) = {<<"clash", x>> : x \in {o} \union {executions[j].order : j \in Running}}
    BY DEF Clash
  <2>2. k \in DOMAIN executions
    BY DEF Running
  <2>3. <<"clash", o>> \in mishaps' /\ <<"clash", executions[k].order>> \in mishaps'
    BY <1>3, <2>1
  <2> QED BY <1>8, <2>2, <2>3 DEF Clashed, Mishap, OrderFor
<1>10. Running' = Running \union {n}
  BY <1>4, <1>5 DEF Running
<1>11. \A c \in DOMAIN channels : channels[c].execution \in DOMAIN executions /\ OrderOf(c)' = OrderOf(c)
  BY <1>0, <1>4, Behind DEF OrderOf
<1>12. /\ \A c : Live(c)' = Live(c) /\ OfferReaches(c)' = OfferReaches(c)
       /\ \A x : With(x)' = With(x) /\ Settled(x)' = Settled(x) /\ InvoiceOf(x)' = InvoiceOf(x)
  BY DEF Live, With, OfferReaches, Settled, InvoiceOf
<1>13. channels \in Seq(ChannelRows')
  <2>1. ChannelRows \subseteq ChannelRows'
    BY <1>4 DEF ChannelRows
  <2>2. channels \in Seq(ChannelRows)
    BY <1>0 DEF TypeOK, ChannelRows
  <2> QED BY <2>1, <2>2, SeqMonotonic
<1>14. ExecutionsOK'
  <2>1. ASSUME NEW k \in DOMAIN executions PROVE ExecutionOK(k)'
    BY <1>0, <1>4, <1>8, <1>12, <2>1 DEF ExecutionsOK, ExecutionOK
  <2>2. ExecutionOK(n)'
    <3>1. \A c \in DOMAIN channels : channels[c].execution # n
      BY <1>4, <1>11
    <3> QED BY <1>5, <1>12, <3>1 DEF ExecutionOK, OrderFor
  <2> QED BY <1>4, <2>1, <2>2 DEF ExecutionsOK
<1>15. ClashesOK'
  <2>1. ASSUME NEW k \in Running', NEW j \in Running', k # j PROVE Clashed(OrderFor(k))'
    <3>1. CASE k \in Running /\ j \in Running
      <4>1. k \in DOMAIN executions /\ Clashed(OrderFor(k))
        BY <1>0, <2>1, <3>1 DEF ClashesOK, Running
      <4> QED BY <1>7, <1>8, <4>1
    <3>2. CASE k = n
      BY <1>5, <1>9, <1>10, <2>1, <3>2 DEF OrderFor
    <3>3. CASE k # n /\ j = n
      BY <1>9, <1>10, <3>3
    <3> QED BY <1>10, <3>1, <3>2, <3>3
  <2>2. ASSUME NEW k \in DOMAIN executions', NEW c \in DOMAIN channels,
               executions'[k].step = "propose", Live(c)
        PROVE  Clashed(OrderFor(k))' /\ Clashed(OrderOf(c))'
    <3>1. k \in DOMAIN executions /\ executions[k].step = "propose"
      BY <1>4, <1>5, <2>2
    <3>2. Clashed(OrderFor(k)) /\ Clashed(OrderOf(c))
      BY <1>0, <2>2, <3>1 DEF ClashesOK
    <3> QED BY <1>7, <1>8, <1>11, <3>1, <3>2
  <2>3. \A c, d \in DOMAIN channels : c < d /\ Live(c) => Clashed(OrderOf(c))'
    BY <1>0, <1>7, <1>11 DEF ClashesOK
  <2>4. \A c, d \in DOMAIN channels : c # d /\ Live(c) /\ Live(d) => Clashed(OrderOf(c))'
    BY <1>0, <1>7, <1>11 DEF ClashesOK
  <2> QED BY <1>12, <2>1, <2>2, <2>3, <2>4 DEF ClashesOK
<1>16. StoresOK'
  BY <1>0 DEF StoresOK
<1>17. PaidOK'
  <2>1. \A c \in DOMAIN channels : Unpaid(c)' = Unpaid(c)
    BY <1>4, <1>11, <1>12 DEF Unpaid
  <2>2. \A c \in DOMAIN channels : ~Mishap(Early, OrderOf(c))' => ~Mishap(Early, OrderOf(c))
    BY <1>7, <1>11
  <2>3. \A k \in DOMAIN executions' : executions'[k].step \in {"update", "settle", "send"} =>
            k \in DOMAIN executions /\ executions'[k].step = executions[k].step
    BY <1>4, <1>5
  <2> QED BY <1>0, <1>12, <2>1, <2>2, <2>3 DEF PaidOK
<1>18. \A k \in DOMAIN executions : Backed(k)' = Backed(k)
  BY <1>12 DEF Backed
<1>19. BackedOK'
  <2>1. \A k \in DOMAIN executions' : executions'[k].step \in {"update", "settle", "send"} =>
            k \in DOMAIN executions /\ executions'[k].step = executions[k].step
    BY <1>4, <1>5
  <2>2. ASSUME NEW x \in DOMAIN orders, Settled(x), ~Mishap(Excuses, x)'
        PROVE  /\ orders[x].state = "Taken"
               /\ \A k \in Running' : OrderFor(k)' = x => executions'[k].step = "send"
               /\ \E k \in DOMAIN executions' :
                     /\ OrderFor(k)' = x /\ executions'[k].filled
                     /\ executions'[k].step \in {"send", "done"}
                     /\ Backed(k)'
    <3>1. ~Mishap(Excuses, x) /\ x # o
      BY <1>7, <2>2
    <3>2. /\ orders[x].state = "Taken"
          /\ \A k \in Running : OrderFor(k) = x => executions[k].step = "send"
      BY <1>0, <2>2, <3>1 DEF BackedOK
    <3>3. PICK k \in DOMAIN executions : /\ OrderFor(k) = x /\ executions[k].filled
                                         /\ executions[k].step \in {"send", "done"}
                                         /\ Backed(k)
      BY <1>0, <2>2, <3>1 DEF BackedOK
    <3>4. \A j \in Running' : OrderFor(j)' = x => executions'[j].step = "send"
      <4>1. OrderFor(n)' = o
        BY <1>5 DEF OrderFor
      <4>2. Running \subseteq DOMAIN executions
        BY DEF Running
      <4> QED BY <1>4, <1>8, <1>10, <3>1, <3>2, <4>1, <4>2
    <3> QED BY <1>4, <1>8, <1>18, <3>2, <3>3, <3>4
  <2>3. \A k \in DOMAIN executions : /\ ~Clashed(OrderFor(k))' => ~Clashed(OrderFor(k))
                                     /\ ~Mishap(Excuses, OrderFor(k))' => ~Mishap(Excuses, OrderFor(k))
    BY <1>7, <1>8
  <2>4. \A k \in DOMAIN executions' :
          executions'[k].step \in {"settle", "send"} /\ ~Clashed(OrderFor(k))' =>
              orders[OrderFor(k)'].state = "Taken"
    BY <1>0, <1>8, <2>1, <2>3 DEF BackedOK
  <2>5. \A k \in DOMAIN executions' :
          executions'[k].step \in {"update", "settle", "send"} /\ ~Mishap(Excuses, OrderFor(k))' =>
              Backed(k)'
    BY <1>0, <1>18, <2>1, <2>3 DEF BackedOK
  <2> QED BY <1>12, <2>2, <2>4, <2>5 DEF BackedOK
<1> QED BY <1>4, <1>6, <1>13, <1>14, <1>15, <1>16, <1>17, <1>19

\* The parameters of a matched order are stored, and it is executed if the trader
\* is connected.
LEMMA InsertParams ==
    ASSUME IInv, NEW o \in DOMAIN orders, insert_channel_opening_params(o)
    PROVE  IInv'
<1>1. TypeOK /\ InvoicesOK /\ WatchesOK /\ ParamsOK
  BY DEF IInv
<1>2. /\ o \in matching /\ matching' = matching \ {o} /\ params' = params \union {o}
      /\ UNCHANGED <<invoiceVars, appVars, orders, dlcVars, linkVars, faults>>
  BY DEF insert_channel_opening_params
<1>3. ~Settled(o)
  <2>1. SUFFICES ASSUME Settled(o) PROVE FALSE
    OBVIOUS
  <2>2. InvoiceOf(o) \in DOMAIN lnd /\ lnd[InvoiceOf(o)] = "Settled" /\ InvoiceOf(o) # NoInvoice
    BY <1>1, <2>1 DEF Settled, InvoicesOK
  <2>3. PICK x \in params : InvoiceOf(x) = InvoiceOf(o)
    BY <1>1, <2>2 DEF InvoicesOK
  <2>4. x = o
    BY <1>1, <2>2, <2>3 DEF InvoicesOK, TypeOK
  <2> QED BY <1>1, <1>2, <2>4 DEF ParamsOK
<1>4. ParamsOK'
  BY <1>1, <1>2 DEF ParamsOK
<1>5. /\ executions' \in Seq(ExecutionRows) /\ channels \in Seq(ChannelRows')
      /\ mishaps \subseteq mishaps'
      /\ ExecutionsOK' /\ ClashesOK' /\ StoresOK' /\ PaidOK' /\ BackedOK'
  <2>1. CASE connected
    <3>1. Start(o, InvoiceOf(o) # NoInvoice)
      BY <2>1 DEF insert_channel_opening_params
    <3> QED BY <1>2, <1>3, <3>1, Started DEF invoiceVars
  <2>2. CASE ~connected
    <3>1. UNCHANGED <<executions, mishaps>>
      BY <2>2 DEF insert_channel_opening_params
    <3>2. \A x \in DOMAIN orders : Settled(x)' <=> Settled(x)
      BY <1>2 DEF Settled, InvoiceOf, invoiceVars
    <3>3. ExecutionsOK' /\ ClashesOK' /\ StoresOK' /\ PaidOK' /\ BackedOK'
      BY <1>2, <3>1, <3>2, OrdersChange
    <3> QED BY <1>1, <3>1, <3>3 DEF TypeOK, ExecutionRows, ChannelRows
  <2> QED BY <2>1, <2>2
<1>6. InvoicesOK' /\ WatchesOK'
  BY <1>1, <1>2, <1>5, BookSide DEF invoiceVars, appVars, TypeOK
<1>7. TypeOK'
  BY <1>1, <1>2, <1>5 DEF TypeOK, ExecutionRows, ChannelRows, invoiceVars, appVars, dlcVars, linkVars
<1> QED BY <1>4, <1>5, <1>6, <1>7 DEF IInv

\* A connect executes what is still matched.
LEMMA PendingMatch ==
    ASSUME IInv, process_pending_match
    PROVE  IInv'
<1>1. TypeOK /\ InvoicesOK /\ WatchesOK /\ ParamsOK /\ BackedOK
  BY DEF IInv
<1>2. /\ UNCHANGED <<invoiceVars, appVars, bookVars, dlcVars, connected, faults>>
      /\ reconnected' = FALSE
  BY DEF process_pending_match
<1>3. /\ executions' \in Seq(ExecutionRows) /\ channels \in Seq(ChannelRows')
      /\ mishaps \subseteq mishaps'
      /\ ExecutionsOK' /\ ClashesOK' /\ StoresOK' /\ PaidOK' /\ BackedOK'
  <2>1. CASE UNCHANGED <<executions, mishaps>>
    <3>1. \A x \in DOMAIN orders : Settled(x)' <=> Settled(x)
      BY <1>2 DEF Settled, InvoiceOf, invoiceVars, bookVars
    <3>2. ExecutionsOK' /\ ClashesOK' /\ StoresOK' /\ PaidOK' /\ BackedOK'
      BY <1>2, <2>1, <3>1, InvoiceSide
    <3> QED BY <1>1, <2>1, <3>2 DEF TypeOK, ExecutionRows, ChannelRows
  <2>2. CASE \E o \in DOMAIN orders :
                orders[o].state = "Matched" /\ Start(o, o \in params /\ InvoiceOf(o) # NoInvoice)
    <3>1. PICK o \in DOMAIN orders :
              orders[o].state = "Matched" /\ Start(o, o \in params /\ InvoiceOf(o) # NoInvoice)
      BY <2>2
    <3>2. ~Settled(o) \/ Mishap(Excuses, o)
      BY <1>1, <3>1 DEF BackedOK
    <3> QED BY <1>2, <3>1, <3>2, Started DEF invoiceVars, bookVars
  <2> QED BY <2>1, <2>2 DEF process_pending_match
<1>4. InvoicesOK' /\ WatchesOK'
  BY <1>1, <1>2, <1>3, BookSide DEF invoiceVars, appVars, bookVars, TypeOK
<1>5. TypeOK'
  BY <1>1, <1>2, <1>3 DEF TypeOK, ExecutionRows, ChannelRows, invoiceVars, appVars, bookVars, dlcVars
<1>6. ParamsOK'
  BY <1>1, <1>2 DEF ParamsOK, bookVars
<1> QED BY <1>3, <1>4, <1>5, <1>6 DEF IInv

-----------------------------------------------------------------------------
(* TradeExecutor::execute *)

\* An execution takes a step, with the order or an invoice that is not settled.
\* The conditions are what the invariants say of the step it goes to.
LEMMA StepTo ==
    ASSUME IInv, NEW k \in Running, NEW s \in Steps,
           DOMAIN executions' = DOMAIN executions,
           \A j \in DOMAIN executions :
                /\ executions'[j].order = executions[j].order
                /\ executions'[j].external = executions[j].external
                /\ executions[j].filled => executions'[j].filled
                /\ executions'[j].step = IF j = k THEN s ELSE executions[j].step,
           UNCHANGED <<params, channels, outbound, sent, mishaps>>,
           \A c \in DOMAIN channels : OfferReaches(c)' = OfferReaches(c),
           DOMAIN orders' = DOMAIN orders,
           \A o \in DOMAIN orders :
                /\ orders'[o].invoice = orders[o].invoice
                /\ o # OrderFor(k) /\ orders[o].state = "Taken" => orders'[o].state = "Taken"
                /\ Settled(o)' <=> Settled(o),
           executions[k].step = "send" => s = "done" /\ orders' = orders,
           ExecutionOK(k)',
           s = "propose" => With("Offered") = {} /\ With("Signed") = {},
           s \in {"settle", "send"} => orders'[OrderFor(k)].state = "Taken",
           s \in {"update", "settle", "send"} =>
                Mishap(Excuses, OrderFor(k)) \/ Backed(k)
    PROVE  ExecutionsOK' /\ ClashesOK' /\ BackedOK'
<1>0. TypeOK /\ ExecutionsOK /\ ClashesOK /\ BackedOK
  BY DEF IInv
<1>1. k \in DOMAIN executions /\ Running \subseteq DOMAIN executions /\ Running' \subseteq Running
  BY DEF Running
<1>2. \A j \in DOMAIN executions : OrderFor(j)' = OrderFor(j) /\ OrderFor(j) \in DOMAIN orders
  BY <1>0, Behind DEF OrderFor
<1>3. \A c \in DOMAIN channels : OrderOf(c)' = OrderOf(c) /\ OrderOf(c) \in DOMAIN orders
  BY <1>0, Behind DEF OrderOf
<1>4. /\ \A o \in DOMAIN orders : InvoiceOf(o)' = InvoiceOf(o)
      /\ \A c : Live(c)' = Live(c) /\ \A x : With(x)' = With(x)
      /\ \A x : Clashed(x)' = Clashed(x) /\ Mishap(Excuses, x)' = Mishap(Excuses, x)
  BY DEF InvoiceOf, Live, With, Clashed, Mishap
<1>5. ExecutionsOK'
  <2>1. ASSUME NEW j \in DOMAIN executions, j # k PROVE ExecutionOK(j)'
    BY <1>0, <1>2, <1>4, <2>1 DEF ExecutionsOK, ExecutionOK
  <2> QED BY <2>1 DEF ExecutionsOK
<1>6. ClashesOK'
  <2>1. \A j, l \in Running' : j # l => Clashed(OrderFor(j))'
    BY <1>0, <1>1, <1>2, <1>4 DEF ClashesOK
  <2>2. ASSUME NEW j \in DOMAIN executions, NEW c \in DOMAIN channels,
               executions'[j].step = "propose", Live(c)
        PROVE  Clashed(OrderFor(j)) /\ Clashed(OrderOf(c))
    <3>1. CASE j = k
      <4>1. channels[c].state \in {"Offered", "Signed", "Cancelled"}
        BY <1>0, Behind
      <4> QED BY <2>2, <3>1, <4>1 DEF Live, With
    <3>2. CASE j # k
      BY <1>0, <2>2, <3>2 DEF ClashesOK
    <3> QED BY <3>1, <3>2
  <2>3. /\ \A c, d \in DOMAIN channels : c < d /\ Live(c) => Clashed(OrderOf(c))
        /\ \A c, d \in DOMAIN channels : c # d /\ Live(c) /\ Live(d) => Clashed(OrderOf(c))
    BY <1>0 DEF ClashesOK
  <2> QED BY <1>2, <1>3, <1>4, <2>1, <2>2, <2>3 DEF ClashesOK
<1>7. \A j \in DOMAIN executions : Backed(j)' = Backed(j)
  BY <1>4 DEF Backed
<1>8. BackedOK'
  <2>1. ASSUME NEW j \in DOMAIN executions, executions'[j].step \in {"settle", "send"},
               ~Clashed(OrderFor(j))
        PROVE  orders'[OrderFor(j)].state = "Taken"
    <3>1. CASE j = k
      BY <2>1, <3>1
    <3>2. CASE j # k
      <4>1. executions[j].step \in {"settle", "send"} /\ orders[OrderFor(j)].state = "Taken"
        BY <1>0, <2>1, <3>2 DEF BackedOK
      <4>2. OrderFor(j) # OrderFor(k)
        <5>1. j \in Running
          BY <4>1 DEF Running
        <5> QED BY <1>0, <2>1, <3>2, <5>1 DEF ClashesOK
      <4> QED BY <1>2, <4>1, <4>2
    <3> QED BY <3>1, <3>2
  <2>2. \A j \in DOMAIN executions :
          executions'[j].step \in {"update", "settle", "send"} /\ ~Mishap(Excuses, OrderFor(j)) =>
              Backed(j)
    BY <1>0 DEF BackedOK
  <2>3. ASSUME NEW o \in DOMAIN orders, Settled(o), ~Mishap(Excuses, o)
        PROVE  /\ orders'[o].state = "Taken"
               /\ \A j \in Running' : OrderFor(j)' = o => executions'[j].step = "send"
               /\ \E j \in DOMAIN executions :
                     /\ OrderFor(j)' = o /\ executions'[j].filled
                     /\ executions'[j].step \in {"send", "done"}
                     /\ Backed(j)'
    <3>1. /\ orders[o].state = "Taken"
          /\ \A j \in Running : OrderFor(j) = o => executions[j].step = "send"
      BY <1>0, <2>3 DEF BackedOK
    <3>2. PICK j \in DOMAIN executions : /\ OrderFor(j) = o /\ executions[j].filled
                                         /\ executions[j].step \in {"send", "done"}
                                         /\ Backed(j)
      BY <1>0, <2>3 DEF BackedOK
    <3>3. OrderFor(k) = o => executions[k].step = "send" /\ s = "done" /\ orders' = orders
      BY <3>1
    <3>4. orders'[o].state = "Taken"
      BY <3>1, <3>3
    <3>5. \A l \in Running' : OrderFor(l)' = o => executions'[l].step = "send"
      <4>1. \A l \in Running' : executions'[l].step # "done"
        BY DEF Running
      <4> QED BY <1>1, <1>2, <3>1, <3>3, <4>1
    <3>6. executions'[j].step \in {"send", "done"} /\ executions'[j].filled /\ OrderFor(j)' = o
      BY <1>2, <3>2, <3>3
    <3> QED BY <1>7, <3>2, <3>4, <3>5, <3>6
  <2> QED BY <1>2, <1>4, <1>7, <2>1, <2>2, <2>3 DEF BackedOK
<1> QED BY <1>5, <1>6, <1>8

\* The same for the offers that were not paid, as long as no message is queued.
LEMMA StepPaid ==
    ASSUME IInv, NEW k \in Running, NEW s \in Steps,
           DOMAIN executions' = DOMAIN executions,
           \A j \in DOMAIN executions :
                /\ executions'[j].order = executions[j].order
                /\ executions'[j].external = executions[j].external
                /\ executions'[j].step = IF j = k THEN s ELSE executions[j].step,
           UNCHANGED dlcVars, mishaps \subseteq mishaps',
           DOMAIN orders' = DOMAIN orders,
           \A o \in DOMAIN orders : orders'[o].invoice = orders[o].invoice /\ (Settled(o) => Settled(o)'),
           s \in {"update", "settle", "send"} =>
                \A c \in DOMAIN channels : Live(c) /\ Unpaid(c) /\ ~Mishap(Early, OrderOf(c)) =>
                    channels[c].execution = k
    PROVE  StoresOK' /\ PaidOK'
<1>0. TypeOK /\ ExecutionsOK /\ StoresOK /\ PaidOK
  BY DEF IInv
<1> USE DEF dlcVars
<1>1. StoresOK'
  BY <1>0 DEF StoresOK
<1>2. \A c \in DOMAIN channels : OrderOf(c)' = OrderOf(c) /\ OrderOf(c) \in DOMAIN orders
  BY <1>0, Behind DEF OrderOf
<1>3. /\ \A c : Live(c)' = Live(c) /\ \A x : With(x)' = With(x)
      /\ \A x : Mishap(Early, x) => Mishap(Early, x)'
  BY DEF Live, With, Mishap
<1>4. \A c \in DOMAIN channels : Unpaid(c)' => Unpaid(c)
  <2> SUFFICES ASSUME NEW c \in DOMAIN channels, Unpaid(c)' PROVE Unpaid(c)
    OBVIOUS
  <2>1. channels[c].execution \in DOMAIN executions
    BY <1>0, Behind
  <2>2. executions[channels[c].execution].external
    BY <2>1 DEF Unpaid
  <2>3. InvoiceOf(OrderOf(c)) # NoInvoice
    BY <1>0, <2>1, <2>2 DEF ExecutionsOK, ExecutionOK, OrderFor, OrderOf
  <2>4. InvoiceOf(OrderOf(c))' = InvoiceOf(OrderOf(c))
    BY <1>2 DEF InvoiceOf
  <2>5. ~Settled(OrderOf(c))'
    BY <1>2, <2>3, <2>4 DEF Unpaid, Settled
  <2> QED BY <1>2, <2>2, <2>3, <2>5 DEF Unpaid, Settled
<1>5. PaidOK'
  BY <1>0, <1>2, <1>3, <1>4 DEF PaidOK
<1> QED BY <1>1, <1>5

\* The check of an order, which may lead to a proposal, to a trade in the channel there
\* is, or to a failure.
LEMMA DetermineTradeAction ==
    ASSUME IInv, NEW k \in DOMAIN executions, determine_trade_action(k)
    PROVE  IInv'
<1>0. TypeOK /\ InvoicesOK /\ WatchesOK /\ ParamsOK /\ ExecutionOK(k) /\ ClashesOK /\ PaidOK
  BY DEF IInv, ExecutionsOK
<1>1. /\ executions[k].step = "check"
      /\ UNCHANGED <<invoiceVars, appVars, bookVars, dlcVars, linkVars, mishaps, faults>>
  BY DEF determine_trade_action, At
<1>2. PICK s \in {"cancel_offer", "fail", "update", "propose"} :
          /\ Go(k, s)
          /\ s = "cancel_offer" => executions[k].external
          /\ s = "update" => With("Signed") # {}
          /\ s = "propose" => With("Offered") = {} /\ With("Signed") = {}
  BY DEF determine_trade_action, GoFail
<1>3. s \in Steps /\ k \in Running
  BY <1>1 DEF Steps, Running
<1>4. /\ executions' \in Seq(ExecutionRows) /\ DOMAIN executions' = DOMAIN executions
      /\ \A j \in DOMAIN executions :
            /\ executions'[j].order = executions[j].order
            /\ executions'[j].external = executions[j].external
            /\ executions'[j].filled = executions[j].filled
            /\ executions'[j].step = IF j = k THEN s ELSE executions[j].step
  BY <1>0, <1>2, <1>3, Goes
<1>5. /\ UNCHANGED <<lnd, params, orders, matching, channels, outbound, sent, events>>
      /\ \A c : OfferReaches(c)' = OfferReaches(c)
      /\ \A o : Settled(o)' <=> Settled(o)
  BY <1>1 DEF invoiceVars, bookVars, dlcVars, OfferReaches, Settled, InvoiceOf
<1>6. ExecutionOK(k)'
  BY <1>0, <1>1, <1>2, <1>4, <1>5 DEF ExecutionOK, OrderFor, InvoiceOf
<1>7. s = "update" => Backed(k)
  BY <1>0, <1>1, <1>2 DEF ExecutionOK, Backed
<1>8. ASSUME s \in {"update", "settle", "send"}, NEW c \in DOMAIN channels, Live(c), Unpaid(c)
      PROVE  Mishap(Early, OrderOf(c))
  <2>1. PICK d \in DOMAIN channels : channels[d].state = "Signed"
    BY <1>2, <1>8 DEF With
  <2>2. CASE c = d
    BY <1>0, <1>8, <2>1, <2>2 DEF PaidOK, With
  <2>3. CASE c # d
    <3>1. Live(d)
      BY <2>1 DEF Live
    <3> QED BY <1>0, <1>8, <2>3, <3>1 DEF ClashesOK, Clashed, Mishap, Early
  <2> QED BY <2>2, <2>3
<1>9. ExecutionsOK' /\ ClashesOK' /\ BackedOK'
  BY <1>1, <1>2, <1>3, <1>4, <1>5, <1>6, <1>7, StepTo
<1>10. StoresOK' /\ PaidOK'
  BY <1>1, <1>3, <1>4, <1>5, <1>8, StepPaid
<1>11. TypeOK'
  BY <1>0, <1>1, <1>4 DEF TypeOK, ExecutionRows, invoiceVars, appVars, bookVars, dlcVars, linkVars
<1>12. InvoicesOK' /\ WatchesOK'
  BY <1>0, <1>1, BookSide DEF invoiceVars, appVars, bookVars, TypeOK
<1>13. ParamsOK'
  BY <1>0, <1>5 DEF ParamsOK
<1> QED BY <1>9, <1>10, <1>11, <1>12, <1>13 DEF IInv

\* The order is Taken and the match Filled.
LEMMA UpdateOrderAndMatch ==
    ASSUME IInv, NEW k \in DOMAIN executions, update_order_and_match(k)
    PROVE  IInv'
<1>0. TypeOK /\ InvoicesOK /\ WatchesOK /\ ParamsOK /\ ExecutionOK(k) /\ PaidOK /\ BackedOK
  BY DEF IInv, ExecutionsOK
<1> DEFINE s == IF executions[k].external THEN "settle" ELSE "send"
<1>1. /\ executions[k].step = "update"
      /\ orders' = [orders EXCEPT ![OrderFor(k)].state = "Taken"]
      /\ executions' = [executions EXCEPT ![k] = [executions[k] EXCEPT !.filled = TRUE, !.step = s]]
      /\ UNCHANGED <<invoiceVars, appVars, matching, params, dlcVars, linkVars, mishaps, faults>>
  BY DEF update_order_and_match, At, OrderFor
<1>2. s \in Steps /\ k \in Running /\ OrderFor(k) \in DOMAIN orders /\ s \in {"settle", "send"}
  BY <1>0, <1>1, Behind DEF Steps, Running
<1>3. /\ executions' \in Seq(ExecutionRows) /\ DOMAIN executions' = DOMAIN executions
      /\ \A j \in DOMAIN executions :
            /\ executions'[j].order = executions[j].order
            /\ executions'[j].external = executions[j].external
            /\ executions[j].filled => executions'[j].filled
            /\ executions'[j].step = IF j = k THEN s ELSE executions[j].step
      /\ executions'[k].filled
  <2>1. executions \in Seq(ExecutionRows)
    BY <1>0 DEF TypeOK, ExecutionRows
  <2>2. executions[k] \in ExecutionRows
    BY <2>1, ElementOf
  <2> HIDE DEF s
  <2> DEFINE new == [executions[k] EXCEPT !.filled = TRUE, !.step = s]
  <2>3. /\ new \in ExecutionRows /\ new.order = executions[k].order
        /\ new.external = executions[k].external /\ new.filled /\ new.step = s
    BY <1>2, <2>2 DEF ExecutionRows
  <2>4. executions' = [executions EXCEPT ![k] = new]
    BY <1>1
  <2> HIDE DEF new
  <2> QED BY <2>1, <2>3, <2>4, Replace
<1>4. /\ orders' \in Seq(OrderRows) /\ DOMAIN orders' = DOMAIN orders
      /\ \A x \in DOMAIN orders :
            /\ orders'[x].invoice = orders[x].invoice
            /\ orders'[x].state = IF x = OrderFor(k) THEN "Taken" ELSE orders[x].state
  BY <1>0, <1>1, <1>2, OrderSet
<1>5. /\ UNCHANGED <<lnd, params, channels, outbound, sent, events>>
      /\ \A c : OfferReaches(c)' = OfferReaches(c)
      /\ \A o \in DOMAIN orders : Settled(o)' <=> Settled(o)
  BY <1>1, <1>4 DEF invoiceVars, dlcVars, OfferReaches, Settled, InvoiceOf
<1>6. ExecutionOK(k)'
  BY <1>0, <1>1, <1>2, <1>3, <1>4, <1>5 DEF ExecutionOK, OrderFor, InvoiceOf
<1>7. Mishap(Excuses, OrderFor(k)) \/ Backed(k)
  BY <1>0, <1>1 DEF BackedOK
<1>8. \A c \in DOMAIN channels : Live(c) /\ Unpaid(c) /\ ~Mishap(Early, OrderOf(c)) =>
          channels[c].execution = k
  BY <1>0, <1>1 DEF PaidOK
<1>9. ExecutionsOK' /\ ClashesOK' /\ BackedOK'
  <2> HIDE DEF s
  <2>1. orders'[OrderFor(k)].state = "Taken" /\ s # "propose" /\ executions[k].step # "send"
    BY <1>1, <1>2, <1>4
  <2> QED BY <1>1, <1>2, <1>3, <1>4, <1>5, <1>6, <1>7, <2>1, StepTo
<1>10. StoresOK' /\ PaidOK'
  <2> HIDE DEF s
  <2> QED BY <1>1, <1>2, <1>3, <1>4, <1>5, <1>8, StepPaid
<1>11. TypeOK'
  <2>1. executions' \in Seq([order : DOMAIN orders', external : BOOLEAN, step : Steps, filled : BOOLEAN])
    BY <1>3, <1>4 DEF ExecutionRows
  <2> QED BY <1>0, <1>1, <1>3, <1>4, <2>1 DEF TypeOK, OrderRows, invoiceVars, appVars, dlcVars, linkVars
<1>12. InvoicesOK' /\ WatchesOK'
  BY <1>0, <1>1, <1>4, BookSide DEF invoiceVars, appVars, TypeOK
<1>13. ParamsOK'
  <2>1. params' = params /\ matching' = matching /\ params \subseteq DOMAIN orders /\ matching \subseteq DOMAIN orders
    BY <1>0, <1>1 DEF TypeOK
  <2>2. \A o \in params \union matching : orders'[o].state # "Open"
    BY <1>0, <1>4, <2>1 DEF ParamsOK
  <2> QED BY <1>0, <2>1, <2>2 DEF ParamsOK
<1> QED BY <1>9, <1>10, <1>11, <1>12, <1>13 DEF IInv

\* An execution that failed sets its order to Failed.
LEMMA Fails ==
    ASSUME IInv, NEW k \in DOMAIN executions, FailOrder(k)
    PROVE  IInv'
<1>0. TypeOK /\ InvoicesOK /\ WatchesOK /\ ParamsOK /\ ExecutionOK(k)
  BY DEF IInv, ExecutionsOK
<1>1. /\ executions[k].step = "fail" /\ Go(k, "done")
      /\ orders' = [orders EXCEPT ![OrderFor(k)].state = "Failed"]
      /\ UNCHANGED <<invoiceVars, appVars, matching, params, dlcVars, linkVars, mishaps, faults>>
  BY DEF FailOrder, At, OrderFor
<1>2. "done" \in Steps /\ k \in Running /\ OrderFor(k) \in DOMAIN orders
  BY <1>0, <1>1, Behind DEF Steps, Running
<1>3. /\ executions' \in Seq(ExecutionRows) /\ DOMAIN executions' = DOMAIN executions
      /\ \A j \in DOMAIN executions :
            /\ executions'[j].order = executions[j].order
            /\ executions'[j].external = executions[j].external
            /\ executions'[j].filled = executions[j].filled
            /\ executions'[j].step = IF j = k THEN "done" ELSE executions[j].step
  BY <1>0, <1>1, <1>2, Goes
<1>4. /\ orders' \in Seq(OrderRows) /\ DOMAIN orders' = DOMAIN orders
      /\ \A x \in DOMAIN orders :
            /\ orders'[x].invoice = orders[x].invoice
            /\ orders'[x].state = IF x = OrderFor(k) THEN "Failed" ELSE orders[x].state
  BY <1>0, <1>1, <1>2, OrderSet
<1>5. /\ UNCHANGED <<lnd, params, channels, outbound, sent, events>>
      /\ \A c : OfferReaches(c)' = OfferReaches(c)
      /\ \A o \in DOMAIN orders : Settled(o)' <=> Settled(o)
  BY <1>1, <1>4 DEF invoiceVars, dlcVars, OfferReaches, Settled, InvoiceOf
<1>6. ExecutionOK(k)'
  BY <1>0, <1>1, <1>2, <1>3, <1>4, <1>5 DEF ExecutionOK, OrderFor, InvoiceOf
<1>7. ExecutionsOK' /\ ClashesOK' /\ BackedOK'
  BY <1>1, <1>2, <1>3, <1>4, <1>5, <1>6, StepTo
<1>8. StoresOK' /\ PaidOK'
  BY <1>1, <1>2, <1>3, <1>4, <1>5, StepPaid
<1>9. TypeOK'
  <2>1. executions' \in Seq([order : DOMAIN orders', external : BOOLEAN, step : Steps, filled : BOOLEAN])
    BY <1>3, <1>4 DEF ExecutionRows
  <2> QED BY <1>0, <1>1, <1>3, <1>4, <2>1 DEF TypeOK, OrderRows, invoiceVars, appVars, dlcVars, linkVars
<1>10. InvoicesOK' /\ WatchesOK'
  BY <1>0, <1>1, <1>4, BookSide DEF invoiceVars, appVars, TypeOK
<1>11. ParamsOK'
  <2>1. \A o \in params \union matching : o \in DOMAIN orders /\ orders[o].state # "Open"
    BY <1>0 DEF ParamsOK, TypeOK
  <2>2. \A o \in params \union matching : orders'[o].state # "Open"
    BY <1>4, <2>1
  <2> QED BY <1>0, <1>1, <2>2 DEF ParamsOK
<1> QED BY <1>7, <1>8, <1>9, <1>10, <1>11 DEF IInv

\* The end of an execution queues the message that sends the stored offer.
LEMMA PublishSend ==
    ASSUME IInv, NEW k \in DOMAIN executions, publish_send_last(k)
    PROVE  IInv'
<1>0. /\ TypeOK /\ InvoicesOK /\ WatchesOK /\ ParamsOK /\ ExecutionOK(k) /\ ExecutionsOK
      /\ StoresOK /\ PaidOK
  BY DEF IInv, ExecutionsOK
<1> DEFINE send == [kind |-> "Send", channel |-> None]
<1>1. /\ executions[k].step = "send" /\ Go(k, "done") /\ events' = Append(events, send)
      /\ UNCHANGED <<invoiceVars, appVars, bookVars, channels, outbound, sent, linkVars, mishaps, faults>>
  BY DEF publish_send_last, At
<1>2. "done" \in Steps /\ k \in Running
  BY <1>0, <1>1 DEF Steps, Running
<1>3. /\ executions' \in Seq(ExecutionRows) /\ DOMAIN executions' = DOMAIN executions
      /\ \A j \in DOMAIN executions :
            /\ executions'[j].order = executions[j].order
            /\ executions'[j].external = executions[j].external
            /\ executions'[j].filled = executions[j].filled
            /\ executions'[j].step = IF j = k THEN "done" ELSE executions[j].step
  BY <1>0, <1>1, <1>2, Goes
<1>4. PICK z : z = Len(events) + 1
  OBVIOUS
<1>5. send.kind = "Send" /\ events \in Seq(EventRows) /\ send \in EventRows
  BY <1>0 DEF TypeOK, EventRows
<1> HIDE DEF send
<1>6. /\ events' \in Seq(EventRows)
      /\ DOMAIN events' = DOMAIN events \union {z} /\ z \notin DOMAIN events
      /\ \A n \in DOMAIN events : events'[n] = events[n] /\ n < z /\ n \in Nat
      /\ events'[z].kind = "Send" /\ z \in Nat
  BY <1>1, <1>4, <1>5, AppendTo
<1>7. /\ UNCHANGED <<lnd, params, orders, matching, channels, outbound, sent>>
      /\ \A o : Settled(o)' <=> Settled(o)
  BY <1>1 DEF invoiceVars, bookVars, Settled, InvoiceOf
<1>8. \A c : OfferReaches(c)' = OfferReaches(c)
  <2> SUFFICES ASSUME NEW c
               PROVE  (\E n \in DOMAIN events' : events'[n].kind = "Store" /\ events'[n].channel = c)
                       <=> (\E n \in DOMAIN events : events[n].kind = "Store" /\ events[n].channel = c)
    BY <1>7 DEF OfferReaches
  <2> QED BY <1>6
<1>9. ExecutionOK(k)'
  BY <1>0, <1>1, <1>3, <1>7 DEF ExecutionOK, OrderFor, InvoiceOf
<1>10. ExecutionsOK' /\ ClashesOK' /\ BackedOK'
  BY <1>1, <1>2, <1>3, <1>7, <1>8, <1>9, StepTo
<1>11. StoresOK'
  <2> SUFFICES ASSUME NEW n \in DOMAIN events', events'[n].kind = "Store"
               PROVE  /\ events'[n].channel \in DOMAIN channels /\ outbound < events'[n].channel
                      /\ \A m \in DOMAIN events' :
                            m < n /\ events'[m].kind = "Store" => events'[m].channel < events'[n].channel
    BY <1>7 DEF StoresOK
  <2>1. n \in DOMAIN events /\ events[n].kind = "Store" /\ events'[n] = events[n]
    BY <1>6
  <2> QED BY <1>0, <1>6, <2>1 DEF StoresOK
<1>12. \A c \in DOMAIN channels : /\ OrderOf(c)' = OrderOf(c) /\ Unpaid(c)' = Unpaid(c)
                                   /\ Live(c)' = Live(c) /\ Mishap(Early, OrderOf(c))' = Mishap(Early, OrderOf(c))
  <2>1. \A c \in DOMAIN channels : channels[c].execution \in DOMAIN executions
    BY <1>0, Behind
  <2>2. \A c \in DOMAIN channels : OrderOf(c)' = OrderOf(c)
    BY <1>3, <1>7, <2>1 DEF OrderOf
  <2> QED BY <1>1, <1>3, <1>7, <2>1, <2>2 DEF Unpaid, Live, InvoiceOf, Mishap
<1>13. PaidOK'
  <2>1. (With("Signed") \subseteq sent)'
    BY <1>0, <1>7 DEF PaidOK, With
  <2>2. ASSUME NEW c \in DOMAIN channels, Live(c), Unpaid(c), ~Mishap(Early, OrderOf(c))
        PROVE  /\ c \notin sent
               /\ \A n \in DOMAIN events' : events'[n].kind = "Send" =>
                     /\ outbound # c
                     /\ \A m \in DOMAIN events' :
                           m < n /\ events'[m].kind = "Store" => events'[m].channel # c
               /\ \A j \in DOMAIN executions :
                     executions'[j].step \in {"update", "settle", "send"} => channels[c].execution = j
    <3>1. channels[c].execution = k
      BY <1>0, <1>1, <2>2 DEF PaidOK
    <3>2. executions[k].external /\ ~Settled(OrderFor(k))
      <4>1. OrderOf(c) = OrderFor(k)
        BY <3>1 DEF OrderOf, OrderFor
      <4> QED BY <1>0, <2>2, <3>1, <4>1 DEF Unpaid, Settled
    <3> QED BY <1>0, <1>1, <3>2 DEF ExecutionOK
  <2> QED BY <1>3, <1>7, <1>12, <2>1, <2>2 DEF PaidOK
<1>14. TypeOK'
  BY <1>0, <1>1, <1>3, <1>6 DEF TypeOK, ExecutionRows, EventRows, invoiceVars, appVars, bookVars, linkVars
<1>15. InvoicesOK' /\ WatchesOK'
  BY <1>0, <1>1, BookSide DEF invoiceVars, appVars, bookVars, TypeOK
<1>16. ParamsOK'
  BY <1>0, <1>7 DEF ParamsOK
<1> QED BY <1>10, <1>11, <1>13, <1>14, <1>15, <1>16 DEF IInv

\* The invoice is cancelled, or could not be.
LEMMA CancelInvoice ==
    ASSUME IInv, NEW k \in DOMAIN executions, cancel_hodl_invoice(k)
    PROVE  IInv'
<1>0. TypeOK /\ InvoicesOK /\ WatchesOK /\ ParamsOK /\ ExecutionOK(k)
  BY DEF IInv, ExecutionsOK
<1>1. /\ executions[k].step = "cancel_invoice"
      /\ UNCHANGED <<watching, invoices, appVars, bookVars, dlcVars, linkVars, mishaps>>
      /\ faults' = faults \/ (faults < MaxFaults /\ faults' = faults + 1)
  BY DEF cancel_hodl_invoice, At
<1>2. PICK s \in {"done", "fail"} : Go(k, s)
  BY DEF cancel_hodl_invoice
<1>3. s \in Steps /\ k \in Running
  BY <1>1 DEF Steps, Running
<1>4. /\ executions' \in Seq(ExecutionRows) /\ DOMAIN executions' = DOMAIN executions
      /\ \A j \in DOMAIN executions :
            /\ executions'[j].order = executions[j].order
            /\ executions'[j].external = executions[j].external
            /\ executions'[j].filled = executions[j].filled
            /\ executions'[j].step = IF j = k THEN s ELSE executions[j].step
  BY <1>0, <1>2, <1>3, Goes
<1>5. /\ InvoicesOK' /\ WatchesOK'
      /\ lnd' \in Seq(InvoiceStates) /\ updates' \in Seq(Seq(InvoiceStates))
      /\ \A o \in DOMAIN orders : Settled(o)' <=> Settled(o)
  <2> DEFINE i == InvoiceOf(OrderFor(k))
  <2>1. OrderFor(k) \in DOMAIN orders /\ i # NoInvoice
    BY <1>0, <1>1, Behind DEF ExecutionOK
  <2>2. i \in DOMAIN lnd
    BY <1>0, <2>1 DEF InvoicesOK
  <2>3. CASE LndCancels(i)
    <3> HIDE DEF i
    <3>1. LndMoves(i, "Canceled") /\ lnd[i] \notin Final /\ "Canceled" \in InvoiceStates
      BY <2>3 DEF LndCancels, Final, InvoiceStates
    <3>2. InvoicesOK' /\ WatchesOK'
      BY <1>0, <1>1, <2>2, <3>1, MovesOK DEF appVars, bookVars
    <3>3. /\ lnd' \in Seq(InvoiceStates) /\ updates' \in Seq(Seq(InvoiceStates))
          /\ DOMAIN lnd' = DOMAIN lnd
          /\ \A j \in DOMAIN lnd : lnd'[j] = IF j = i THEN "Canceled" ELSE lnd[j]
      BY <1>0, <2>2, <3>1, Moves
    <3>4. \A j \in DOMAIN lnd : lnd'[j] = "Settled" <=> lnd[j] = "Settled"
      BY <3>1, <3>3 DEF Final
    <3> QED BY <1>0, <1>1, <3>2, <3>3, <3>4, SettledKept DEF bookVars
  <2>4. CASE UNCHANGED <<lnd, updates>>
    <3>1. InvoicesOK' /\ WatchesOK'
      BY <1>0, <1>1, <2>4, BookSide DEF appVars, bookVars, TypeOK
    <3> QED BY <1>0, <1>1, <2>4, <3>1 DEF TypeOK, Settled, InvoiceOf, bookVars
  <2> QED BY <2>3, <2>4 DEF cancel_hodl_invoice, OrderFor
<1>6. /\ UNCHANGED <<params, orders, matching, channels, outbound, sent, events>>
      /\ \A c : OfferReaches(c)' = OfferReaches(c)
  BY <1>1 DEF bookVars, dlcVars, OfferReaches
<1>7. ExecutionOK(k)'
  BY <1>0, <1>1, <1>4, <1>6 DEF ExecutionOK, OrderFor, InvoiceOf
<1>8. ExecutionsOK' /\ ClashesOK' /\ BackedOK'
  BY <1>1, <1>3, <1>4, <1>5, <1>6, <1>7, StepTo
<1>9. StoresOK' /\ PaidOK'
  BY <1>1, <1>3, <1>4, <1>5, <1>6, StepPaid
<1>10. TypeOK'
  <2>1. faults' \in 0 .. MaxFaults
    BY <1>0, <1>1, FaultsOK DEF TypeOK
  <2> QED BY <1>0, <1>1, <1>4, <1>5, <2>1 DEF TypeOK, ExecutionRows, appVars, bookVars, dlcVars, linkVars
<1>11. ParamsOK'
  BY <1>0, <1>6 DEF ParamsOK
<1> QED BY <1>5, <1>8, <1>9, <1>10, <1>11 DEF IInv

\* The invoice is settled, whether the coordinator learns of it or not.
LEMMA Settles ==
    ASSUME IInv, NEW k \in DOMAIN executions, executions[k].step = "settle",
           LndSettles(InvoiceOf(OrderFor(k))), NEW s \in {"send", "cancel_offer"}, Go(k, s),
           mishaps \subseteq mishaps', s = "cancel_offer" => Mishap(Excuses, OrderFor(k))',
           UNCHANGED <<watching, invoices, appVars, bookVars, dlcVars, linkVars>>,
           faults' = faults \/ (faults < MaxFaults /\ faults' = faults + 1)
    PROVE  IInv'
<1>0. /\ TypeOK /\ InvoicesOK /\ WatchesOK /\ ParamsOK /\ ExecutionsOK /\ ExecutionOK(k)
      /\ ClashesOK /\ PaidOK /\ BackedOK
  BY DEF IInv, ExecutionsOK
<1>1. PICK o \in params : o = OrderFor(k) /\ InvoiceOf(o) # NoInvoice /\ executions[k].filled
  BY <1>0 DEF ExecutionOK
<1>2. PICK i \in DOMAIN lnd : i = InvoiceOf(o) /\ i # NoInvoice
  BY <1>0, <1>1 DEF InvoicesOK, TypeOK
<1>3. LndMoves(i, "Settled") /\ lnd[i] \notin Final /\ "Settled" \in InvoiceStates
  BY <1>1, <1>2 DEF LndSettles, Final, InvoiceStates
<1>4. InvoicesOK' /\ WatchesOK'
  BY <1>0, <1>2, <1>3, MovesOK DEF appVars, bookVars
<1>5. /\ lnd' \in Seq(InvoiceStates) /\ updates' \in Seq(Seq(InvoiceStates))
      /\ DOMAIN lnd' = DOMAIN lnd
      /\ \A j \in DOMAIN lnd : lnd'[j] = IF j = i THEN "Settled" ELSE lnd[j]
  BY <1>0, <1>2, <1>3, Moves
<1>6. o \in DOMAIN orders /\ orders' = orders /\ params' = params /\ matching' = matching
  BY <1>0 DEF TypeOK, bookVars
<1>7. Settled(o)' /\ \A x \in DOMAIN orders \ {o} : Settled(x)' <=> Settled(x)
  <2>1. \A x \in DOMAIN orders \ {o} : InvoiceOf(x) # i /\ InvoiceOf(x) \in DOMAIN lnd \union {NoInvoice}
    BY <1>0, <1>2, <1>6 DEF InvoicesOK
  <2>2. \A x : InvoiceOf(x)' = InvoiceOf(x)
    BY <1>6 DEF InvoiceOf
  <2> QED BY <1>2, <1>5, <2>1, <2>2 DEF Settled
<1>8. s \in Steps /\ k \in Running
  BY DEF Steps, Running
<1>9. /\ executions' \in Seq(ExecutionRows) /\ DOMAIN executions' = DOMAIN executions
      /\ \A j \in DOMAIN executions :
            /\ executions'[j].order = executions[j].order
            /\ executions'[j].external = executions[j].external
            /\ executions'[j].filled = executions[j].filled
            /\ executions'[j].step = IF j = k THEN s ELSE executions[j].step
  BY <1>0, <1>8, Goes
<1>10. \A x \in DOMAIN orders : /\ orders'[x].invoice = orders[x].invoice
                                 /\ Settled(x) => Settled(x)'
  BY <1>6, <1>7
<1>11. StoresOK' /\ PaidOK'
  <2>1. \A c \in DOMAIN channels : Live(c) /\ Unpaid(c) /\ ~Mishap(Early, OrderOf(c)) =>
           channels[c].execution = k
    BY <1>0 DEF PaidOK
  <2> QED BY <1>6, <1>8, <1>9, <1>10, <2>1, StepPaid
<1>12. \A j \in DOMAIN executions : OrderFor(j)' = OrderFor(j) /\ OrderFor(j) \in DOMAIN orders
  BY <1>0, <1>9, Behind DEF OrderFor
<1>13. /\ UNCHANGED <<channels, outbound, sent, events>>
       /\ \A c : Live(c)' = Live(c) /\ OfferReaches(c)' = OfferReaches(c)
       /\ \A x : With(x)' = With(x) /\ InvoiceOf(x)' = InvoiceOf(x)
       /\ \A x : Clashed(x) => Clashed(x)'
       /\ \A x : Mishap(Excuses, x) => Mishap(Excuses, x)'
  BY <1>6 DEF dlcVars, Live, OfferReaches, With, InvoiceOf, Clashed, Mishap
<1>14. \A c \in DOMAIN channels : OrderOf(c)' = OrderOf(c)
  <2>1. \A c \in DOMAIN channels : channels[c].execution \in DOMAIN executions
    BY <1>0, Behind
  <2> QED BY <1>9, <1>13, <2>1 DEF OrderOf
<1>15. ExecutionsOK'
  <2>1. ASSUME NEW j \in DOMAIN executions PROVE ExecutionOK(j)'
    <3>1. ExecutionOK(j)
      BY <1>0 DEF ExecutionsOK
    <3>2. CASE j = k
      BY <1>0, <1>1, <1>6, <1>7, <1>9, <1>12, <1>13, <3>2 DEF ExecutionOK
    <3>3. CASE j # k
      BY <1>6, <1>9, <1>10, <1>12, <1>13, <3>1, <3>3 DEF ExecutionOK
    <3> QED BY <3>2, <3>3
  <2> QED BY <1>9, <2>1 DEF ExecutionsOK
<1>16. Running' \subseteq Running /\ Running \subseteq DOMAIN executions
  BY <1>8, <1>9 DEF Running
<1>17. ClashesOK'
  <2>1. \A j, l \in Running' : j # l => Clashed(OrderFor(j))'
    BY <1>0, <1>12, <1>13, <1>16 DEF ClashesOK
  <2>2. \A j \in DOMAIN executions', c \in DOMAIN channels :
          executions'[j].step = "propose" /\ Live(c) => Clashed(OrderFor(j))' /\ Clashed(OrderOf(c))'
    BY <1>0, <1>9, <1>12, <1>13, <1>14 DEF ClashesOK
  <2>3. /\ \A c, d \in DOMAIN channels : c < d /\ Live(c) => Clashed(OrderOf(c))'
        /\ \A c, d \in DOMAIN channels : c # d /\ Live(c) /\ Live(d) => Clashed(OrderOf(c))'
    BY <1>0, <1>13, <1>14 DEF ClashesOK
  <2> QED BY <1>13, <2>1, <2>2, <2>3 DEF ClashesOK
<1>18. \A j \in DOMAIN executions : Backed(j)' = Backed(j)
  BY <1>13 DEF Backed
<1>19. BackedOK'
  <2>1. ASSUME NEW j \in DOMAIN executions, executions'[j].step \in {"update", "settle", "send"}
        PROVE  /\ executions'[j].step \in {"settle", "send"} /\ ~Clashed(OrderFor(j))' =>
                      orders[OrderFor(j)].state = "Taken"
               /\ ~Mishap(Excuses, OrderFor(j))' => Backed(j)
    <3>1. /\ executions[j].step \in {"update", "settle", "send"}
          /\ executions'[j].step \in {"settle", "send"} => executions[j].step \in {"settle", "send"}
      BY <1>9, <2>1
    <3>2. /\ ~Clashed(OrderFor(j))' => ~Clashed(OrderFor(j))
          /\ ~Mishap(Excuses, OrderFor(j))' => ~Mishap(Excuses, OrderFor(j))
      BY <1>12, <1>13
    <3> QED BY <1>0, <3>1, <3>2 DEF BackedOK
  <2>2. ASSUME NEW x \in DOMAIN orders, Settled(x)', ~Mishap(Excuses, x)'
        PROVE  /\ orders[x].state = "Taken"
               /\ \A j \in Running' : OrderFor(j) = x => executions'[j].step = "send"
               /\ \E j \in DOMAIN executions :
                     /\ OrderFor(j) = x /\ executions[j].filled
                     /\ executions'[j].step \in {"send", "done"}
                     /\ Backed(j)
    <3>1. ~Mishap(Excuses, x) /\ ~Clashed(x)
      BY <1>13, <2>2 DEF Clashed, Mishap, Excuses
    <3>2. CASE x = o
      <4>1. s = "send"
        BY <1>1, <1>12, <2>2, <3>2
      <4>2. orders[x].state = "Taken" /\ Backed(k)
        BY <1>0, <1>1, <3>1, <3>2 DEF BackedOK
      <4>3. \A j \in Running' : OrderFor(j) = x => j = k
        BY <1>0, <1>1, <1>8, <1>16, <3>1, <3>2 DEF ClashesOK
      <4> QED BY <1>1, <1>9, <1>16, <3>2, <4>1, <4>2, <4>3
    <3>3. CASE x # o
      <4>1. Settled(x)
        BY <1>7, <2>2, <3>3
      <4>2. /\ orders[x].state = "Taken"
            /\ \A j \in Running : OrderFor(j) = x => executions[j].step = "send"
        BY <1>0, <3>1, <4>1 DEF BackedOK
      <4>3. PICK j \in DOMAIN executions : /\ OrderFor(j) = x /\ executions[j].filled
                                           /\ executions[j].step \in {"send", "done"}
                                           /\ Backed(j)
        BY <1>0, <3>1, <4>1 DEF BackedOK
      <4> QED BY <1>1, <1>9, <1>16, <3>3, <4>2, <4>3
    <3> QED BY <3>2, <3>3
  <2> QED BY <1>6, <1>9, <1>12, <1>16, <1>18, <2>1, <2>2 DEF BackedOK
<1>20. TypeOK'
  <2>1. faults' \in 0 .. MaxFaults
    BY <1>0, FaultsOK DEF TypeOK
  <2> QED BY <1>0, <1>5, <1>9, <2>1 DEF TypeOK, ExecutionRows, appVars, bookVars, dlcVars, linkVars
<1>21. ParamsOK'
  BY <1>0, <1>6 DEF ParamsOK
<1> QED BY <1>4, <1>11, <1>15, <1>17, <1>19, <1>20, <1>21 DEF IInv

\* The settlement, or its failure.
LEMMA SettleInvoice ==
    ASSUME IInv, NEW k \in DOMAIN executions, settle_invoice(k)
    PROVE  IInv'
<1>0. TypeOK /\ InvoicesOK /\ WatchesOK /\ ParamsOK /\ ExecutionOK(k)
  BY DEF IInv, ExecutionsOK
<1>1. /\ executions[k].step = "settle"
      /\ UNCHANGED <<watching, invoices, appVars, bookVars, dlcVars, linkVars>>
      /\ faults' = faults \/ (faults < MaxFaults /\ faults' = faults + 1)
  BY DEF settle_invoice, At
<1>2. CASE LndSettles(InvoiceOf(OrderFor(k))) /\ Go(k, "send") /\ UNCHANGED mishaps
  BY <1>1, <1>2, Settles
<1>3. CASE /\ LndSettles(InvoiceOf(OrderFor(k))) /\ Go(k, "cancel_offer")
           /\ mishaps' = mishaps \union {<<"answer lost", OrderFor(k)>>}
  <2>1. OrderFor(k)' = OrderFor(k)
    <3>1. "cancel_offer" \in Steps
      BY DEF Steps
    <3> QED BY <1>0, <1>3, <3>1, Goes DEF OrderFor
  <2>2. Mishap(Excuses, OrderFor(k))' /\ mishaps \subseteq mishaps'
    BY <1>3, <2>1 DEF Mishap, Excuses
  <2> QED BY <1>1, <1>3, <2>2, Settles
<1>4. CASE Go(k, "cancel_offer") /\ UNCHANGED <<lnd, updates, mishaps>>
  <2>1. "cancel_offer" \in Steps /\ k \in Running
    BY <1>1 DEF Steps, Running
  <2>2. /\ executions' \in Seq(ExecutionRows) /\ DOMAIN executions' = DOMAIN executions
        /\ \A j \in DOMAIN executions :
              /\ executions'[j].order = executions[j].order
              /\ executions'[j].external = executions[j].external
              /\ executions'[j].filled = executions[j].filled
              /\ executions'[j].step = IF j = k THEN "cancel_offer" ELSE executions[j].step
    BY <1>0, <1>4, <2>1, Goes
  <2>3. /\ UNCHANGED <<lnd, params, orders, matching, channels, outbound, sent, events>>
        /\ \A c : OfferReaches(c)' = OfferReaches(c)
        /\ \A o : Settled(o)' <=> Settled(o)
    BY <1>1, <1>4 DEF bookVars, dlcVars, OfferReaches, Settled, InvoiceOf
  <2>4. ExecutionOK(k)'
    BY <1>0, <1>1, <2>2, <2>3 DEF ExecutionOK, OrderFor, InvoiceOf
  <2>5. ExecutionsOK' /\ ClashesOK' /\ BackedOK'
    BY <1>1, <1>4, <2>1, <2>2, <2>3, <2>4, StepTo
  <2>6. StoresOK' /\ PaidOK'
    BY <1>1, <1>4, <2>1, <2>2, <2>3, StepPaid
  <2>7. TypeOK'
    <3>1. faults' \in 0 .. MaxFaults
      BY <1>0, <1>1, FaultsOK DEF TypeOK
    <3> QED BY <1>0, <1>1, <1>4, <2>2, <3>1 DEF TypeOK, ExecutionRows, appVars, bookVars, dlcVars, linkVars
  <2>8. InvoicesOK' /\ WatchesOK'
    BY <1>0, <1>1, <1>4, BookSide DEF appVars, bookVars, TypeOK
  <2>9. ParamsOK'
    BY <1>0, <2>3 DEF ParamsOK
  <2> QED BY <2>5, <2>6, <2>7, <2>8, <2>9 DEF IInv
<1> QED BY <1>2, <1>3, <1>4 DEF settle_invoice, OrderFor

\* A new offer, stored behind those before it.
LEMMA Offers ==
    ASSUME IInv, NEW k \in DOMAIN executions, executions[k].step = "propose",
           NEW s \in {"update", "cancel_offer", "fail"}, Go(k, s),
           s = "cancel_offer" => executions[k].external,
           channels' = Append(channels, [execution |-> k, state |-> "Offered"]),
           events' = Append(events, [kind |-> "Store", channel |-> Len(channels) + 1]),
           UNCHANGED <<invoiceVars, appVars, bookVars, outbound, sent, linkVars, mishaps, faults>>
    PROVE  IInv'
<1>0. /\ TypeOK /\ InvoicesOK /\ WatchesOK /\ ParamsOK /\ ExecutionsOK /\ ExecutionOK(k)
      /\ ClashesOK /\ StoresOK /\ PaidOK /\ BackedOK
  BY DEF IInv, ExecutionsOK
<1>1. s \in Steps /\ k \in Running
  BY DEF Steps, Running
<1>2. /\ executions' \in Seq(ExecutionRows) /\ DOMAIN executions' = DOMAIN executions
      /\ \A j \in DOMAIN executions :
            /\ executions'[j].order = executions[j].order
            /\ executions'[j].external = executions[j].external
            /\ executions'[j].filled = executions[j].filled
            /\ executions'[j].step = IF j = k THEN s ELSE executions[j].step
  BY <1>0, <1>1, Goes
<1>3. PICK c : c = Len(channels) + 1
  OBVIOUS
<1>4. PICK z : z = Len(events) + 1
  OBVIOUS
<1> DEFINE offer == [execution |-> k, state |-> "Offered"]
           store == [kind |-> "Store", channel |-> c]
<1>5. channels \in Seq(ChannelRows) /\ offer \in ChannelRows
  BY <1>0 DEF TypeOK, ChannelRows
<1>6. channels' = Append(channels, offer) /\ offer.execution = k /\ offer.state = "Offered"
  OBVIOUS
<1> HIDE DEF offer
<1>7. /\ channels' \in Seq(ChannelRows)
      /\ DOMAIN channels' = DOMAIN channels \union {c} /\ c \notin DOMAIN channels
      /\ \A d \in DOMAIN channels : channels'[d] = channels[d] /\ d < c /\ d \in Nat
      /\ channels'[c].execution = k /\ channels'[c].state = "Offered" /\ c \in Nat /\ 0 < c
  BY <1>3, <1>5, <1>6, AppendTo
<1>8. events \in Seq(EventRows') /\ store \in EventRows'
  <2>1. EventRows \subseteq EventRows'
    BY <1>7 DEF EventRows
  <2>2. events \in Seq(EventRows)
    BY <1>0 DEF TypeOK, EventRows
  <2>3. store \in EventRows'
    BY <1>7 DEF EventRows
  <2> QED BY <2>1, <2>2, <2>3, SeqMonotonic
<1>9. events' = Append(events, store) /\ store.kind = "Store" /\ store.channel = c
  BY <1>3
<1> HIDE DEF store
<1>10. /\ events' \in Seq(EventRows')
       /\ DOMAIN events' = DOMAIN events \union {z} /\ z \notin DOMAIN events
       /\ \A n \in DOMAIN events : events'[n] = events[n] /\ n < z /\ n \in Nat
       /\ events'[z].kind = "Store" /\ events'[z].channel = c /\ z \in Nat
  BY <1>4, <1>8, <1>9, AppendTo
<1>11. /\ UNCHANGED <<lnd, params, orders, matching, outbound, sent, mishaps>>
       /\ \A x : /\ Settled(x)' = Settled(x) /\ InvoiceOf(x)' = InvoiceOf(x)
                  /\ Clashed(x)' = Clashed(x) /\ Mishap(Excuses, x)' = Mishap(Excuses, x)
                  /\ Mishap(Early, x)' = Mishap(Early, x)
  BY DEF invoiceVars, bookVars, Settled, InvoiceOf, Clashed, Mishap
<1>12. \A j \in DOMAIN executions : OrderFor(j)' = OrderFor(j) /\ OrderFor(j) \in DOMAIN orders
  BY <1>0, <1>2, Behind DEF OrderFor
<1>13. /\ \A d \in DOMAIN channels : OrderOf(d)' = OrderOf(d) /\ Live(d)' = Live(d) /\ Unpaid(d)' = Unpaid(d)
       /\ OrderOf(c)' = OrderFor(k) /\ Live(c)'
  <2>1. \A d \in DOMAIN channels : channels[d].execution \in DOMAIN executions
    BY <1>0, Behind
  <2>2. \A d \in DOMAIN channels : OrderOf(d)' = OrderOf(d)
    BY <1>2, <1>7, <2>1 DEF OrderOf
  <2>3. OrderOf(c)' = OrderFor(k)
    BY <1>2, <1>7 DEF OrderOf, OrderFor
  <2> QED BY <1>2, <1>7, <1>11, <2>1, <2>2, <2>3 DEF Live, Unpaid, InvoiceOf
<1>14. With("Signed")' = With("Signed")
  BY <1>7 DEF With
<1>15. ExecutionsOK'
  <2>1. ASSUME NEW j \in DOMAIN executions, j # k PROVE ExecutionOK(j)'
    <3>1. ExecutionOK(j)
      BY <1>0 DEF ExecutionsOK
    <3> QED BY <1>2, <1>7, <1>11, <1>12, <2>1, <3>1 DEF ExecutionOK
  <2>2. ExecutionOK(k)'
    BY <1>0, <1>2, <1>11, <1>12 DEF ExecutionOK
  <2> QED BY <1>2, <2>1, <2>2 DEF ExecutionsOK
<1>16. Running' \subseteq Running /\ Running \subseteq DOMAIN executions
  BY <1>1, <1>2 DEF Running
<1>17. \A j \in Running : j # k => Clashed(OrderFor(j)) /\ Clashed(OrderFor(k))
  BY <1>0, <1>1 DEF ClashesOK
<1>18. \A d \in DOMAIN channels : Live(d) => Clashed(OrderOf(d)) /\ Clashed(OrderFor(k))
  BY <1>0 DEF ClashesOK
<1>19. ClashesOK'
  <2>1. \A j, l \in Running' : j # l => Clashed(OrderFor(j))'
    BY <1>0, <1>11, <1>12, <1>16 DEF ClashesOK
  <2>2. ASSUME NEW j \in DOMAIN executions, NEW d \in DOMAIN channels',
               executions'[j].step = "propose", Live(d)'
        PROVE  Clashed(OrderFor(j))' /\ Clashed(OrderOf(d))'
    <3>1. j # k /\ executions[j].step = "propose" /\ j \in Running
      BY <1>2, <2>2 DEF Running
    <3>2. CASE d \in DOMAIN channels
      BY <1>0, <1>11, <1>12, <1>13, <2>2, <3>1, <3>2 DEF ClashesOK
    <3>3. CASE d = c
      BY <1>11, <1>12, <1>13, <1>17, <3>1, <3>3
    <3> QED BY <1>7, <3>2, <3>3
  <2>3. ASSUME NEW d \in DOMAIN channels', NEW e \in DOMAIN channels', d < e, Live(d)'
        PROVE  Clashed(OrderOf(d))'
    <3>1. d \in DOMAIN channels
      BY <1>7, <2>3
    <3> QED BY <1>0, <1>11, <1>13, <1>18, <1>7, <2>3, <3>1 DEF ClashesOK
  <2>4. ASSUME NEW d \in DOMAIN channels', NEW e \in DOMAIN channels', d # e, Live(d)', Live(e)'
        PROVE  Clashed(OrderOf(d))'
    <3>1. CASE d \in DOMAIN channels
      BY <1>11, <1>13, <1>18, <2>4, <3>1
    <3>2. CASE d = c
      <4>1. e \in DOMAIN channels /\ Live(e)
        BY <1>7, <1>13, <2>4, <3>2
      <4> QED BY <1>11, <1>13, <1>18, <3>2, <4>1
    <3> QED BY <1>7, <3>1, <3>2
  <2> QED BY <1>2, <2>1, <2>2, <2>3, <2>4 DEF ClashesOK
<1>20. StoresOK'
  <2> SUFFICES ASSUME NEW n \in DOMAIN events', events'[n].kind = "Store"
               PROVE  /\ events'[n].channel \in DOMAIN channels' /\ outbound < events'[n].channel
                      /\ \A m \in DOMAIN events' :
                            m < n /\ events'[m].kind = "Store" => events'[m].channel < events'[n].channel
    BY <1>11 DEF StoresOK
  <2>1. CASE n \in DOMAIN events
    BY <1>0, <1>7, <1>10, <2>1 DEF StoresOK
  <2>2. CASE n = z
    <3>1. outbound < c
      BY <1>0, <1>7 DEF TypeOK, None
    <3>2. \A m \in DOMAIN events : events[m].kind = "Store" => events[m].channel < c
      BY <1>0, <1>7 DEF StoresOK
    <3> QED BY <1>7, <1>10, <2>2, <3>1, <3>2
  <2> QED BY <1>10, <2>1, <2>2
<1>21. PaidOK'
  <2>1. (With("Signed") \subseteq sent)'
    BY <1>0, <1>11, <1>14 DEF PaidOK
  <2>2. ASSUME NEW d \in DOMAIN channels', Live(d)', Unpaid(d)', ~Mishap(Early, OrderOf(d))'
        PROVE  /\ d \notin sent
               /\ \A n \in DOMAIN events' : events'[n].kind = "Send" =>
                     /\ outbound # d
                     /\ \A m \in DOMAIN events' :
                           m < n /\ events'[m].kind = "Store" => events'[m].channel # d
               /\ \A j \in DOMAIN executions :
                     executions'[j].step \in {"update", "settle", "send"} => channels'[d].execution = j
    <3>1. CASE d \in DOMAIN channels
      <4>1. Live(d) /\ Unpaid(d) /\ ~Mishap(Early, OrderOf(d))
        BY <1>11, <1>13, <2>2, <3>1
      <4>2. ~Clashed(OrderOf(d))
        BY <4>1 DEF Clashed, Mishap, Early
      <4> QED BY <1>18, <3>1, <4>1, <4>2
    <3>2. CASE d = c
      <4>1. c \notin sent /\ outbound # c
        BY <1>0, <1>7 DEF TypeOK, None
      <4>2. \A m \in DOMAIN events : events[m].kind = "Store" => events[m].channel # c
        BY <1>0, <1>7 DEF StoresOK
      <4>3. \A n, m \in DOMAIN events' : events'[n].kind = "Send" /\ m < n => m \in DOMAIN events
        BY <1>10
      <4>4. ~Clashed(OrderFor(k))
        BY <1>11, <1>13, <2>2, <3>2 DEF Clashed, Mishap, Early
      <4>5. \A j \in DOMAIN executions : executions'[j].step \in {"update", "settle", "send"} => j = k
        BY <1>2, <1>17, <4>4 DEF Running
      <4> QED BY <1>7, <1>10, <3>2, <4>1, <4>2, <4>3, <4>5
    <3> QED BY <1>7, <3>1, <3>2
  <2> QED BY <1>2, <1>11, <2>1, <2>2 DEF PaidOK
<1>22. \A d \in DOMAIN channels : OfferReaches(d) => OfferReaches(d)'
  <2> SUFFICES ASSUME NEW d \in DOMAIN channels,
                      \E n \in DOMAIN events : events[n].kind = "Store" /\ events[n].channel = d
               PROVE  \E n \in DOMAIN events' : events'[n].kind = "Store" /\ events'[n].channel = d
    BY <1>7, <1>11 DEF OfferReaches
  <2> QED BY <1>10
<1>23. \A j \in DOMAIN executions : j # k /\ Backed(j) => Backed(j)'
  BY <1>7, <1>14, <1>22 DEF Backed
<1>24. Backed(k)'
  <2>1. OfferReaches(c)'
    BY <1>7, <1>10 DEF OfferReaches
  <2> QED BY <1>7, <2>1 DEF Backed
<1>25. BackedOK'
  <2>1. \A j \in DOMAIN executions :
          executions'[j].step \in {"settle", "send"} /\ ~Clashed(OrderFor(j)) =>
              orders[OrderFor(j)].state = "Taken"
    BY <1>0, <1>2 DEF BackedOK
  <2>2. \A j \in DOMAIN executions :
          executions'[j].step \in {"update", "settle", "send"} /\ ~Mishap(Excuses, OrderFor(j)) =>
              Backed(j)'
    BY <1>0, <1>2, <1>23, <1>24 DEF BackedOK
  <2>3. ASSUME NEW x \in DOMAIN orders, Settled(x), ~Mishap(Excuses, x)
        PROVE  /\ orders[x].state = "Taken"
               /\ \A j \in Running' : OrderFor(j) = x => executions'[j].step = "send"
               /\ \E j \in DOMAIN executions :
                     /\ OrderFor(j) = x /\ executions'[j].filled
                     /\ executions'[j].step \in {"send", "done"}
                     /\ Backed(j)'
    <3>1. /\ orders[x].state = "Taken"
          /\ \A j \in Running : OrderFor(j) = x => executions[j].step = "send"
      BY <1>0, <2>3 DEF BackedOK
    <3>2. PICK j \in DOMAIN executions : /\ OrderFor(j) = x /\ executions[j].filled
                                         /\ executions[j].step \in {"send", "done"}
                                         /\ Backed(j)
      BY <1>0, <2>3 DEF BackedOK
    <3>3. OrderFor(k) # x
      BY <1>1, <3>1
    <3> QED BY <1>2, <1>16, <1>23, <3>1, <3>2, <3>3
  <2> QED BY <1>2, <1>11, <1>12, <1>16, <2>1, <2>2, <2>3 DEF BackedOK
<1>26. TypeOK'
  <2>1. outbound' \in DOMAIN channels' \union {None} /\ sent' \subseteq DOMAIN channels'
    BY <1>0, <1>7, <1>11 DEF TypeOK
  <2>2. channels' \in Seq([execution : DOMAIN executions', state : {"Offered", "Signed", "Cancelled"}])
    BY <1>2, <1>7 DEF ChannelRows
  <2> QED BY <1>0, <1>2, <1>10, <2>1, <2>2
          DEF TypeOK, ExecutionRows, EventRows, invoiceVars, appVars, bookVars, linkVars
<1>27. InvoicesOK' /\ WatchesOK'
  BY <1>0, BookSide DEF invoiceVars, appVars, bookVars, TypeOK
<1>28. ParamsOK'
  BY <1>0, <1>11 DEF ParamsOK
<1> QED BY <1>15, <1>19, <1>20, <1>21, <1>25, <1>26, <1>27, <1>28 DEF IInv

\* The proposal of a channel, or its failure.
LEMMA OpenChannel ==
    ASSUME IInv, NEW k \in DOMAIN executions, open_dlc_channel(k)
    PROVE  IInv'
<1>0. TypeOK /\ InvoicesOK /\ WatchesOK /\ ParamsOK /\ ExecutionOK(k)
  BY DEF IInv, ExecutionsOK
<1>1. /\ executions[k].step = "propose"
      /\ UNCHANGED <<invoiceVars, appVars, bookVars, outbound, sent, linkVars, mishaps, faults>>
  BY DEF open_dlc_channel, At
<1>2. PICK s \in {"update", "cancel_offer", "fail"} :
          /\ Go(k, s)
          /\ s = "cancel_offer" => executions[k].external
          /\ \/ s # "update" /\ UNCHANGED <<channels, events>>
             \/ /\ channels' = Append(channels, [execution |-> k, state |-> "Offered"])
                /\ events' = Append(events, [kind |-> "Store", channel |-> Len(channels) + 1])
  BY DEF open_dlc_channel, GoFail
<1>3. CASE /\ channels' = Append(channels, [execution |-> k, state |-> "Offered"])
           /\ events' = Append(events, [kind |-> "Store", channel |-> Len(channels) + 1])
  BY <1>1, <1>2, <1>3, Offers
<1>4. CASE s # "update" /\ UNCHANGED <<channels, events>>
  <2>1. s \in Steps /\ k \in Running /\ s \notin {"update", "settle", "send", "propose"}
    BY <1>1, <1>4 DEF Steps, Running
  <2>2. /\ executions' \in Seq(ExecutionRows) /\ DOMAIN executions' = DOMAIN executions
        /\ \A j \in DOMAIN executions :
              /\ executions'[j].order = executions[j].order
              /\ executions'[j].external = executions[j].external
              /\ executions'[j].filled = executions[j].filled
              /\ executions'[j].step = IF j = k THEN s ELSE executions[j].step
    BY <1>0, <1>2, <2>1, Goes
  <2>3. /\ UNCHANGED <<lnd, params, orders, matching, channels, outbound, sent, events>>
        /\ \A c : OfferReaches(c)' = OfferReaches(c)
        /\ \A o : Settled(o)' <=> Settled(o)
    BY <1>1, <1>4 DEF invoiceVars, bookVars, OfferReaches, Settled, InvoiceOf
  <2>4. ExecutionOK(k)'
    BY <1>0, <1>1, <1>2, <2>1, <2>2, <2>3 DEF ExecutionOK, OrderFor, InvoiceOf
  <2>5. ExecutionsOK' /\ ClashesOK' /\ BackedOK'
    BY <1>1, <2>1, <2>2, <2>3, <2>4, StepTo
  <2>6. StoresOK' /\ PaidOK'
    BY <1>1, <2>1, <2>2, <2>3, StepPaid DEF dlcVars
  <2>7. TypeOK'
    BY <1>0, <1>1, <1>4, <2>2 DEF TypeOK, ExecutionRows, invoiceVars, appVars, bookVars, linkVars
  <2>8. InvoicesOK' /\ WatchesOK'
    BY <1>0, <1>1, BookSide DEF invoiceVars, appVars, bookVars, TypeOK
  <2>9. ParamsOK'
    BY <1>0, <2>3 DEF ParamsOK
  <2> QED BY <2>5, <2>6, <2>7, <2>8, <2>9 DEF IInv
<1> QED BY <1>2, <1>3, <1>4

-----------------------------------------------------------------------------
(* Offers and their answers *)

\* What an execution got the trader is kept when an offered channel is signed or
\* cancelled, unless the cancelled one was its own or the two clashed.
LEMMA OfferKept ==
    ASSUME IInv, NEW j \in DOMAIN executions, Backed(j), ~Clashed(OrderFor(j)),
           NEW c \in DOMAIN channels, channels[c].state = "Offered",
           NEW s \in {"Signed", "Cancelled"},
           DOMAIN channels' = DOMAIN channels,
           \A d \in DOMAIN channels :
                /\ channels'[d].execution = channels[d].execution
                /\ channels'[d].state = IF d = c THEN s ELSE channels[d].state,
           UNCHANGED <<events, sent>>,
           s = "Cancelled" => channels[c].execution # j
    PROVE  Backed(j)'
<1>0. TypeOK /\ ClashesOK
  BY DEF IInv
<1>1. CASE \E d \in DOMAIN channels : channels[d].execution = j /\ OfferReaches(d)
  <2>1. PICK d \in DOMAIN channels : channels[d].execution = j /\ OfferReaches(d)
    BY <1>1
  <2>2. CASE channels[d].state = "Signed" \/ d = c
    BY <2>1, <2>2 DEF Backed, OfferReaches
  <2>3. CASE channels[d].state # "Signed" /\ d # c
    <3>1. Live(c) /\ Live(d) /\ OrderOf(d) = OrderFor(j)
      BY <2>1, <2>3 DEF OfferReaches, Live, OrderOf, OrderFor
    <3> QED BY <1>0, <2>3, <3>1 DEF ClashesOK
  <2> QED BY <2>2, <2>3
<1>2. CASE With("Signed") # {} /\ \A d \in DOMAIN channels : channels[d].execution # j
  <2>1. With("Signed") \subseteq With("Signed")'
    BY DEF With
  <2> QED BY <1>2, <2>1 DEF Backed
<1> QED BY <1>1, <1>2 DEF Backed

\* The offer of an execution that failed is cancelled, or another one.
LEMMA CancelOffer ==
    ASSUME IInv, NEW k \in DOMAIN executions, cancel_offer(k)
    PROVE  IInv'
<1>0. /\ TypeOK /\ InvoicesOK /\ WatchesOK /\ ParamsOK /\ ExecutionsOK /\ ExecutionOK(k)
      /\ ClashesOK /\ StoresOK /\ PaidOK /\ BackedOK
  BY DEF IInv, ExecutionsOK
<1>1. /\ executions[k].step = "cancel_offer" /\ Go(k, "cancel_invoice")
      /\ UNCHANGED <<invoiceVars, appVars, bookVars, events, sent, linkVars, faults>>
  BY DEF cancel_offer, At
<1>2. "cancel_invoice" \in Steps /\ k \in Running
  BY <1>1 DEF Steps, Running
<1>3. /\ executions' \in Seq(ExecutionRows) /\ DOMAIN executions' = DOMAIN executions
      /\ \A j \in DOMAIN executions :
            /\ executions'[j].order = executions[j].order
            /\ executions'[j].external = executions[j].external
            /\ executions'[j].filled = executions[j].filled
            /\ executions'[j].step = IF j = k THEN "cancel_invoice" ELSE executions[j].step
  BY <1>0, <1>1, <1>2, Goes
<1>4. /\ UNCHANGED <<lnd, params, orders, matching, sent, events>>
      /\ \A o : Settled(o)' = Settled(o) /\ InvoiceOf(o)' = InvoiceOf(o)
  BY <1>1 DEF invoiceVars, bookVars, Settled, InvoiceOf
<1>5. ParamsOK'
  BY <1>0, <1>4 DEF ParamsOK
<1>6. CASE UNCHANGED <<channels, outbound, mishaps>>
  <2>1. \A c : OfferReaches(c)' = OfferReaches(c)
    BY <1>4, <1>6 DEF OfferReaches
  <2>2. ExecutionOK(k)'
    BY <1>0, <1>1, <1>3, <1>4, <1>6 DEF ExecutionOK, OrderFor
  <2>3. ExecutionsOK' /\ ClashesOK' /\ BackedOK'
    BY <1>1, <1>2, <1>3, <1>4, <1>6, <2>1, <2>2, StepTo
  <2>4. StoresOK' /\ PaidOK'
    BY <1>2, <1>3, <1>4, <1>6, StepPaid DEF dlcVars
  <2>5. TypeOK'
    BY <1>0, <1>1, <1>3, <1>6 DEF TypeOK, ExecutionRows, invoiceVars, appVars, bookVars, linkVars
  <2>6. InvoicesOK' /\ WatchesOK'
    BY <1>0, <1>1, <1>6, BookSide DEF invoiceVars, appVars, bookVars, TypeOK
  <2> QED BY <1>5, <2>3, <2>4, <2>5, <2>6 DEF IInv
<1>7. CASE \E c \in DOMAIN channels :
              /\ channels[c].state = "Offered"
              /\ channels' = [channels EXCEPT ![c].state = "Cancelled"]
              /\ outbound' = None
              /\ mishaps' = IF channels[c].execution = k THEN mishaps
                            ELSE mishaps \union {<<"clash", OrderOf(c)>>}
  <2>1. PICK c \in DOMAIN channels :
              /\ channels[c].state = "Offered"
              /\ channels' = [channels EXCEPT ![c].state = "Cancelled"]
              /\ outbound' = None
              /\ mishaps' = IF channels[c].execution = k THEN mishaps
                            ELSE mishaps \union {<<"clash", OrderOf(c)>>}
    BY <1>7
  <2>2. /\ channels' \in Seq(ChannelRows) /\ DOMAIN channels' = DOMAIN channels
        /\ \A d \in DOMAIN channels :
              /\ channels'[d].execution = channels[d].execution
              /\ channels'[d].state = IF d = c THEN "Cancelled" ELSE channels[d].state
    BY <1>0, <2>1, ChannelSet
  <2>3. mishaps \subseteq mishaps'
    BY <2>1
  <2>4. /\ \A x : Clashed(x) => Clashed(x)'
        /\ \A x : Mishap(Early, x) => Mishap(Early, x)'
        /\ \A x : Mishap(Excuses, x) => Mishap(Excuses, x)'
    BY <2>3 DEF Clashed, Mishap
  <2>5. \A j \in DOMAIN executions : OrderFor(j)' = OrderFor(j) /\ OrderFor(j) \in DOMAIN orders
    BY <1>0, <1>3, Behind DEF OrderFor
  <2>60. \A d \in DOMAIN channels : channels[d].execution \in DOMAIN executions
    BY <1>0, Behind
  <2>6. \A d \in DOMAIN channels : OrderOf(d)' = OrderOf(d)
    BY <1>3, <2>2, <2>60 DEF OrderOf
  <2>61. \A d \in DOMAIN channels : Unpaid(d)' = Unpaid(d)
    BY <1>3, <1>4, <2>2, <2>6, <2>60 DEF Unpaid
  <2>62. \A d \in DOMAIN channels : Live(d)' => Live(d)
    BY <2>2 DEF Live
  <2>7. With("Signed")' = With("Signed")
    BY <2>1, <2>2 DEF With
  <2>8. ExecutionsOK'
    <3>1. ASSUME NEW j \in DOMAIN executions PROVE ExecutionOK(j)'
      <4>1. ExecutionOK(j)
        BY <1>0 DEF ExecutionsOK
      <4>2. /\ executions'[j].step \in {"settle", "cancel_offer", "cancel_invoice"} => executions[j].external
            /\ executions'[j].step \in {"settle", "send", "check", "propose"} =>
                  executions'[j].step = executions[j].step
        BY <1>0, <1>1, <1>3, <4>1 DEF ExecutionOK
      <4> QED BY <1>3, <1>4, <2>2, <2>5, <4>1, <4>2 DEF ExecutionOK
    <3> QED BY <1>3, <3>1 DEF ExecutionsOK
  <2>9. Running' \subseteq Running /\ Running \subseteq DOMAIN executions
    BY <1>2, <1>3 DEF Running
  <2>10. ClashesOK'
    <3>1. \A j, l \in Running' : j # l => Clashed(OrderFor(j))'
      BY <1>0, <2>4, <2>5, <2>9 DEF ClashesOK
    <3>2. \A j \in DOMAIN executions, d \in DOMAIN channels :
            executions'[j].step = "propose" /\ Live(d)' => Clashed(OrderFor(j))' /\ Clashed(OrderOf(d))'
      BY <1>0, <1>3, <2>4, <2>5, <2>6, <2>62 DEF ClashesOK
    <3>3. /\ \A d, e \in DOMAIN channels : d < e /\ Live(d)' => Clashed(OrderOf(d))'
          /\ \A d, e \in DOMAIN channels : d # e /\ Live(d)' /\ Live(e)' => Clashed(OrderOf(d))'
      BY <1>0, <2>4, <2>6, <2>62 DEF ClashesOK
    <3> QED BY <1>3, <2>2, <3>1, <3>2, <3>3 DEF ClashesOK
  <2>11. StoresOK'
    <3>1. \A d \in DOMAIN channels : outbound' < d
      BY <1>0, <2>1, Behind DEF None
    <3> QED BY <1>0, <1>4, <2>2, <3>1 DEF StoresOK
  <2>12. PaidOK'
    <3>1. \A d \in DOMAIN channels : d # outbound'
      BY <1>0, <2>1, Behind
    <3>2. \A d \in DOMAIN channels : ~Mishap(Early, OrderOf(d))' => ~Mishap(Early, OrderOf(d))
      BY <2>4, <2>6
    <3>3. \A j \in DOMAIN executions : executions'[j].step \in {"update", "settle", "send"} =>
              executions'[j].step = executions[j].step
      BY <1>3
    <3> QED BY <1>0, <1>3, <1>4, <2>2, <2>6, <2>61, <2>62, <2>7, <3>1, <3>2, <3>3 DEF PaidOK
  <2>13. BackedOK'
    <3>1. ASSUME NEW j \in DOMAIN executions, executions'[j].step \in {"update", "settle", "send"}
          PROVE  Clashed(OrderFor(j))' /\ Mishap(Excuses, OrderFor(j))'
      <4>1. j \in Running /\ j # k
        BY <1>3, <3>1 DEF Running
      <4>2. Clashed(OrderFor(j))'
        BY <1>0, <1>2, <2>4, <2>5, <4>1 DEF ClashesOK
      <4> QED BY <4>2 DEF Clashed, Mishap, Excuses
    <3>2. ASSUME NEW x \in DOMAIN orders, Settled(x), ~Mishap(Excuses, x)'
          PROVE  /\ orders[x].state = "Taken"
                 /\ \A j \in Running' : OrderFor(j) = x => executions'[j].step = "send"
                 /\ \E j \in DOMAIN executions :
                       /\ OrderFor(j) = x /\ executions'[j].filled
                       /\ executions'[j].step \in {"send", "done"}
                       /\ Backed(j)'
      <4>1. ~Mishap(Excuses, x) /\ ~Clashed(x)
        BY <2>4, <3>2 DEF Clashed, Mishap, Excuses
      <4>2. /\ orders[x].state = "Taken"
            /\ \A j \in Running : OrderFor(j) = x => executions[j].step = "send"
        BY <1>0, <3>2, <4>1 DEF BackedOK
      <4>3. PICK j \in DOMAIN executions : /\ OrderFor(j) = x /\ executions[j].filled
                                           /\ executions[j].step \in {"send", "done"}
                                           /\ Backed(j)
        BY <1>0, <3>2, <4>1 DEF BackedOK
      <4>4. channels[c].execution # j
        <5>1. SUFFICES ASSUME channels[c].execution = j PROVE FALSE
          OBVIOUS
        <5>2. j # k /\ OrderOf(c) = x
          BY <1>1, <4>3, <5>1 DEF OrderOf, OrderFor
        <5>3. <<"clash", x>> \in mishaps'
          BY <2>1, <5>1, <5>2
        <5> QED BY <3>2, <5>3 DEF Mishap, Excuses
      <4>5. Backed(j)'
        BY <1>4, <2>1, <2>2, <4>1, <4>3, <4>4, OfferKept
      <4>6. OrderFor(k) # x
        BY <1>1, <1>2, <4>2
      <4> QED BY <1>3, <2>9, <4>2, <4>3, <4>5, <4>6
    <3> QED BY <1>3, <1>4, <2>5, <2>9, <3>1, <3>2 DEF BackedOK
  <2>14. TypeOK'
    <3>1. outbound' \in DOMAIN channels' \union {None} /\ sent' \subseteq DOMAIN channels'
      BY <1>0, <1>4, <2>1, <2>2 DEF TypeOK
    <3>2. channels' \in Seq([execution : DOMAIN executions', state : {"Offered", "Signed", "Cancelled"}])
      BY <1>3, <2>2 DEF ChannelRows
    <3>3. events' \in Seq([kind : {"Store", "Send", "Connected"}, channel : DOMAIN channels' \union {None}])
      BY <1>0, <1>4, <2>2 DEF TypeOK
    <3> QED BY <1>0, <1>1, <1>3, <3>1, <3>2, <3>3
            DEF TypeOK, ExecutionRows, invoiceVars, appVars, bookVars, linkVars
  <2>15. InvoicesOK' /\ WatchesOK'
    BY <1>0, <1>1, <2>3, BookSide DEF invoiceVars, appVars, bookVars, TypeOK
  <2> QED BY <1>5, <2>8, <2>10, <2>11, <2>12, <2>13, <2>14, <2>15 DEF IInv
<1> QED BY <1>6, <1>7 DEF cancel_offer

\* A step of the trader, of the DLC handler or of the connection: what it must keep
\* for the invariants of the others.
LEMMA DlcSide ==
    ASSUME IInv, UNCHANGED <<invoiceVars, appVars, bookVars, executions>>,
           DOMAIN channels' = DOMAIN channels,
           \A d \in DOMAIN channels :
                /\ channels'[d].execution = channels[d].execution
                /\ Live(d)' => Live(d),
           mishaps \subseteq mishaps',
           \A j \in DOMAIN executions :
                Backed(j) /\ ~Mishap(Excuses, OrderFor(j))' => Backed(j)'
    PROVE  /\ InvoicesOK' /\ WatchesOK' /\ ParamsOK' /\ ExecutionsOK' /\ ClashesOK' /\ BackedOK'
           /\ \A d \in DOMAIN channels : OrderOf(d)' = OrderOf(d) /\ Unpaid(d)' = Unpaid(d)
           /\ \A x : Mishap(Early, x) => Mishap(Early, x)'
<1>0. /\ TypeOK /\ InvoicesOK /\ WatchesOK /\ ParamsOK /\ ExecutionsOK
      /\ ClashesOK /\ BackedOK
  BY DEF IInv
<1>1. /\ UNCHANGED <<lnd, params, orders, matching, executions>>
      /\ \A o : Settled(o)' = Settled(o) /\ InvoiceOf(o)' = InvoiceOf(o)
      /\ \A j : OrderFor(j)' = OrderFor(j)
      /\ Running' = Running
  BY DEF invoiceVars, bookVars, Settled, InvoiceOf, OrderFor, Running
<1>2. \A d \in DOMAIN channels : OrderOf(d)' = OrderOf(d)
  BY <1>1 DEF OrderOf
<1>3. \A d \in DOMAIN channels : Unpaid(d)' = Unpaid(d)
  BY <1>1, <1>2 DEF Unpaid
<1>4. /\ \A x : Clashed(x) => Clashed(x)'
      /\ \A x : Mishap(Early, x) => Mishap(Early, x)'
      /\ \A x : Mishap(Excuses, x) => Mishap(Excuses, x)'
  BY DEF Clashed, Mishap
<1>5. InvoicesOK' /\ WatchesOK'
  BY <1>0, BookSide DEF invoiceVars, appVars, bookVars, TypeOK
<1>6. ParamsOK'
  BY <1>0, <1>1 DEF ParamsOK
<1>7. ExecutionsOK'
  BY <1>0, <1>1 DEF ExecutionsOK, ExecutionOK
<1>8. ClashesOK'
  <2>1. \A j, l \in Running : j # l => Clashed(OrderFor(j))'
    BY <1>0, <1>1, <1>4 DEF ClashesOK
  <2>2. \A j \in DOMAIN executions, d \in DOMAIN channels :
          executions[j].step = "propose" /\ Live(d)' => Clashed(OrderFor(j))' /\ Clashed(OrderOf(d))'
    BY <1>0, <1>1, <1>2, <1>4 DEF ClashesOK
  <2>3. /\ \A d, e \in DOMAIN channels : d < e /\ Live(d)' => Clashed(OrderOf(d))'
        /\ \A d, e \in DOMAIN channels : d # e /\ Live(d)' /\ Live(e)' => Clashed(OrderOf(d))'
    BY <1>0, <1>2, <1>4 DEF ClashesOK
  <2> QED BY <1>1, <2>1, <2>2, <2>3 DEF ClashesOK
<1>9. BackedOK'
  <2>1. \A j \in DOMAIN executions :
          executions[j].step \in {"settle", "send"} /\ ~Clashed(OrderFor(j))' =>
              orders[OrderFor(j)].state = "Taken"
    BY <1>0, <1>1, <1>4 DEF BackedOK
  <2>2. \A j \in DOMAIN executions :
          executions[j].step \in {"update", "settle", "send"} /\ ~Mishap(Excuses, OrderFor(j))' =>
              Backed(j)'
    BY <1>0, <1>1, <1>4 DEF BackedOK
  <2>3. ASSUME NEW x \in DOMAIN orders, Settled(x), ~Mishap(Excuses, x)'
        PROVE  /\ orders[x].state = "Taken"
               /\ \A j \in Running : OrderFor(j) = x => executions[j].step = "send"
               /\ \E j \in DOMAIN executions :
                     /\ OrderFor(j) = x /\ executions[j].filled
                     /\ executions[j].step \in {"send", "done"}
                     /\ Backed(j)'
    <3>1. ~Mishap(Excuses, x)
      BY <1>4, <2>3
    <3>2. PICK j \in DOMAIN executions : /\ OrderFor(j) = x /\ executions[j].filled
                                         /\ executions[j].step \in {"send", "done"}
                                         /\ Backed(j)
      BY <1>0, <2>3, <3>1 DEF BackedOK
    <3>3. Backed(j)'
      BY <1>1, <2>3, <3>2
    <3> QED BY <1>0, <2>3, <3>1, <3>2, <3>3 DEF BackedOK
  <2> QED BY <1>1, <2>1, <2>2, <2>3 DEF BackedOK
<1> QED BY <1>2, <1>3, <1>4, <1>5, <1>6, <1>7, <1>8, <1>9

\* The trader signs the channel or refuses the offer.
LEMMA Answer ==
    ASSUME IInv, NEW c \in DOMAIN channels, AppAnswers(c)
    PROVE  IInv'
<1>0. TypeOK /\ StoresOK /\ PaidOK
  BY DEF IInv
<1>1. /\ c \in sent /\ channels[c].state = "Offered"
      /\ UNCHANGED <<invoiceVars, appVars, bookVars, executions, events, sent, linkVars, faults>>
  BY DEF AppAnswers
<1>2. PICK s \in {"Signed", "Cancelled"} :
          /\ channels' = [channels EXCEPT ![c].state = s]
          /\ s = "Signed" => outbound' = None /\ mishaps' = mishaps
          /\ s = "Cancelled" => /\ outbound' = outbound
                                /\ mishaps' = mishaps \union {<<"refused", OrderOf(c)>>}
  BY DEF AppAnswers
<1>3. /\ channels' \in Seq(ChannelRows) /\ DOMAIN channels' = DOMAIN channels
      /\ \A d \in DOMAIN channels :
            /\ channels'[d].execution = channels[d].execution
            /\ channels'[d].state = IF d = c THEN s ELSE channels[d].state
  BY ZenonT(40), <1>0, <1>2, ChannelSet
<1>4. mishaps \subseteq mishaps' /\ (outbound' = outbound \/ outbound' = None)
  BY <1>2
<1>5. \A d \in DOMAIN channels : Live(d)' => Live(d)
  BY <1>1, <1>3 DEF Live
<1>6. ASSUME NEW j \in DOMAIN executions, Backed(j), ~Mishap(Excuses, OrderFor(j))'
      PROVE  Backed(j)'
  <2>1. <<"clash", OrderFor(j)>> \notin mishaps' /\ <<"refused", OrderFor(j)>> \notin mishaps'
    BY <1>1, <1>6 DEF Mishap, Excuses, OrderFor
  <2>2. ~Clashed(OrderFor(j))
    BY <1>4, <2>1 DEF Clashed, Mishap
  <2>3. s = "Cancelled" => channels[c].execution # j
    BY <1>2, <2>1 DEF OrderFor, OrderOf
  <2> QED BY <1>1, <1>3, <1>6, <2>2, <2>3, OfferKept
<1>7. /\ InvoicesOK' /\ WatchesOK' /\ ParamsOK' /\ ExecutionsOK' /\ ClashesOK' /\ BackedOK'
      /\ \A d \in DOMAIN channels : OrderOf(d)' = OrderOf(d) /\ Unpaid(d)' = Unpaid(d)
      /\ \A x : Mishap(Early, x) => Mishap(Early, x)'
  BY <1>1, <1>3, <1>4, <1>5, <1>6, DlcSide
<1>8. StoresOK'
  <2>1. \A d \in DOMAIN channels : None < d
    BY <1>0, Behind DEF None
  <2> QED BY <1>0, <1>1, <1>3, <1>4, <2>1 DEF StoresOK
<1>9. PaidOK'
  <2>1. (With("Signed") \subseteq sent)'
    BY <1>0, <1>1, <1>3 DEF PaidOK, With
  <2>2. \A d \in DOMAIN channels : outbound # d => outbound' # d
    BY <1>0, <1>4, Behind
  <2>3. \A d \in DOMAIN channels : Live(d)' /\ Unpaid(d)' /\ ~Mishap(Early, OrderOf(d))' =>
            Live(d) /\ Unpaid(d) /\ ~Mishap(Early, OrderOf(d))
    BY <1>5, <1>7
  <2> QED BY <1>0, <1>1, <1>3, <2>1, <2>2, <2>3 DEF PaidOK
<1>10. TypeOK'
  <2>1. outbound' \in DOMAIN channels' \union {None}
    BY <1>0, <1>3, <1>4 DEF TypeOK
  <2>2. channels' \in Seq([execution : DOMAIN executions', state : {"Offered", "Signed", "Cancelled"}])
    BY <1>1, <1>3 DEF ChannelRows
  <2>3. events' \in Seq([kind : {"Store", "Send", "Connected"}, channel : DOMAIN channels' \union {None}])
    BY <1>0, <1>1, <1>3 DEF TypeOK
  <2> QED BY <1>0, <1>1, <1>3, <2>1, <2>2, <2>3
          DEF TypeOK, invoiceVars, appVars, bookVars, linkVars
<1> QED BY <1>7, <1>8, <1>9, <1>10 DEF IInv

\* The nodes connect or lose their connection.
LEMMA Connection ==
    ASSUME IInv, Connect \/ Disconnect
    PROVE  IInv'
<1>0. TypeOK /\ StoresOK /\ PaidOK
  BY DEF IInv
<1>1. /\ UNCHANGED <<invoiceVars, appVars, bookVars, executions, channels, outbound, sent, mishaps>>
      /\ connected' \in BOOLEAN /\ reconnected' \in BOOLEAN
      /\ faults' = faults \/ (faults < MaxFaults /\ faults' = faults + 1)
  BY <1>0 DEF Connect, Disconnect, dlcVars, TypeOK
<1>2. /\ events' \in Seq(EventRows) /\ DOMAIN events \subseteq DOMAIN events'
      /\ \A n \in DOMAIN events : events'[n] = events[n]
      /\ \A n \in DOMAIN events' : events'[n].kind # "Connected" => n \in DOMAIN events
  <2>1. events \in Seq(EventRows)
    BY <1>0 DEF TypeOK, EventRows
  <2>2. CASE events' = events
    BY <2>1, <2>2
  <2>3. CASE events' = Append(events, [kind |-> "Connected", channel |-> None])
    <3>1. PICK e \in EventRows : e = [kind |-> "Connected", channel |-> None]
      BY DEF EventRows
    <3>2. /\ events' \in Seq(EventRows) /\ DOMAIN events' = DOMAIN events \union {Len(events) + 1}
          /\ \A n \in DOMAIN events : events'[n] = events[n]
          /\ events'[Len(events) + 1] = e
      BY <2>1, <2>3, <3>1, AppendTo
    <3>3. e.kind = "Connected"
      BY <3>1
    <3> QED BY <3>2, <3>3
  <2> QED BY <2>2, <2>3 DEF Connect, Disconnect, dlcVars
<1>3. \A d : Live(d)' = Live(d) /\ With("Signed")' = With("Signed")
  BY <1>1 DEF Live, With
<1>4. \A d \in DOMAIN channels : OfferReaches(d) => OfferReaches(d)'
  BY <1>1, <1>2 DEF OfferReaches
<1>5. \A j \in DOMAIN executions : Backed(j) => Backed(j)'
  BY <1>1, <1>3, <1>4 DEF Backed
<1>6. /\ InvoicesOK' /\ WatchesOK' /\ ParamsOK' /\ ExecutionsOK' /\ ClashesOK' /\ BackedOK'
      /\ \A d \in DOMAIN channels : OrderOf(d)' = OrderOf(d) /\ Unpaid(d)' = Unpaid(d)
      /\ \A x : Mishap(Early, x) => Mishap(Early, x)'
  BY <1>1, <1>3, <1>5, DlcSide
<1>7. StoresOK'
  BY <1>0, <1>1, <1>2 DEF StoresOK
<1>8. PaidOK'
  BY <1>0, <1>1, <1>2, <1>3, <1>6 DEF PaidOK
<1>9. TypeOK'
  <2>1. faults' \in 0 .. MaxFaults
    BY <1>0, <1>1, FaultsOK DEF TypeOK
  <2> QED BY <1>0, <1>1, <1>2, <2>1 DEF TypeOK, EventRows, invoiceVars, appVars, bookVars
<1> QED BY <1>6, <1>7, <1>8, <1>9 DEF IInv

\* What an execution got the trader is kept when the head of the queue is handled,
\* unless an older offer is replaced in the store.
LEMMA HandlerKeeps ==
    ASSUME IInv, DlcHandlerStep, NEW j \in DOMAIN executions, Backed(j), ~Clashed(OrderFor(j))
    PROVE  Backed(j)'
<1>0. TypeOK /\ ClashesOK /\ StoresOK
  BY DEF IInv
<1>1. /\ events # <<>> /\ events' = Tail(events) /\ channels' = channels /\ sent \subseteq sent'
      /\ IF Head(events).kind = "Store" THEN outbound' = Head(events).channel
         ELSE outbound' = outbound
  BY DEF DlcHandlerStep
<1>2. /\ DOMAIN events = 1 .. Len(events) /\ Len(events) \in Nat
      /\ DOMAIN events' = 1 .. Len(events) - 1
      /\ \A n \in DOMAIN events' : events'[n] = events[n + 1]
      /\ 1 \in DOMAIN events /\ Head(events) = events[1]
  <2>1. events \in Seq(EventRows)
    BY <1>0 DEF TypeOK, EventRows
  <2> QED BY <1>1, <2>1, Rest
<1>3. CASE \E d \in DOMAIN channels : channels[d].execution = j /\ OfferReaches(d)
  <2>1. PICK d \in DOMAIN channels : channels[d].execution = j /\ OfferReaches(d)
    BY <1>3
  <2>2. CASE channels[d].state = "Signed" \/ d \in sent
    BY <1>1, <2>1, <2>2 DEF Backed, OfferReaches
  <2>3. CASE channels[d].state = "Offered" /\ outbound = d
    <3>1. Live(d) /\ OrderOf(d) = OrderFor(j)
      BY <2>1, <2>3 DEF Live, OrderOf, OrderFor
    <3>2. Head(events).kind # "Store"
      BY <1>0, <1>2, <2>3, <3>1 DEF StoresOK, ClashesOK
    <3> QED BY <1>1, <2>1, <2>3, <3>2 DEF Backed, OfferReaches
  <2>4. CASE channels[d].state = "Offered" /\ \E n \in DOMAIN events : events[n].kind = "Store" /\ events[n].channel = d
    <3>1. PICK n \in DOMAIN events : events[n].kind = "Store" /\ events[n].channel = d
      BY <2>4
    <3>2. CASE n = 1
      BY <1>1, <1>2, <2>1, <2>4, <3>1, <3>2 DEF Backed, OfferReaches
    <3>3. CASE n # 1
      <4>1. n - 1 \in DOMAIN events' /\ (n - 1) + 1 = n
        BY <1>2, <3>3
      <4>2. events'[n - 1] = events[n]
        BY <1>2, <4>1
      <4> QED BY <1>1, <2>1, <2>4, <3>1, <4>1, <4>2 DEF Backed, OfferReaches
    <3> QED BY <3>2, <3>3
  <2> QED BY <2>1, <2>2, <2>3, <2>4 DEF OfferReaches
<1>4. CASE With("Signed") # {} /\ \A d \in DOMAIN channels : channels[d].execution # j
  BY <1>1, <1>4 DEF Backed, With
<1> QED BY <1>3, <1>4 DEF Backed

\* The DLC handler stores an offer or sends the one it has stored.
LEMMA Handler ==
    ASSUME IInv, DlcHandlerStep
    PROVE  IInv'
<1>0. TypeOK /\ StoresOK /\ PaidOK
  BY DEF IInv
<1>1. /\ events # <<>> /\ events' = Tail(events) /\ mishaps \subseteq mishaps' /\ sent \subseteq sent'
      /\ UNCHANGED <<invoiceVars, appVars, bookVars, executions, channels, linkVars, faults>>
  BY DEF DlcHandlerStep
<1>2. /\ events' \in Seq(EventRows) /\ DOMAIN events = 1 .. Len(events) /\ Len(events) \in Nat
      /\ DOMAIN events' = 1 .. Len(events) - 1
      /\ \A n \in DOMAIN events' : n + 1 \in DOMAIN events /\ events'[n] = events[n + 1]
      /\ 1 \in DOMAIN events /\ Head(events) = events[1]
  <2>1. events \in Seq(EventRows)
    BY <1>0 DEF TypeOK, EventRows
  <2> QED BY <1>1, <2>1, Rest
<1>3. \A n \in DOMAIN events' : n \in Nat /\ 1 < n + 1
  BY <1>2
<1>4. \A m, n \in DOMAIN events' : m < n => m + 1 < n + 1
  BY <1>3
<1>5. \A j \in DOMAIN executions : Backed(j) /\ ~Mishap(Excuses, OrderFor(j))' => Backed(j)'
  <2>1. \A j \in DOMAIN executions : ~Mishap(Excuses, OrderFor(j))' => ~Clashed(OrderFor(j))
    BY <1>1 DEF Mishap, Excuses, Clashed, OrderFor
  <2> QED BY <2>1, HandlerKeeps
<1>6. \A d : Live(d)' = Live(d) /\ With("Signed")' = With("Signed")
  BY <1>1 DEF Live, With
<1>7. /\ InvoicesOK' /\ WatchesOK' /\ ParamsOK' /\ ExecutionsOK' /\ ClashesOK' /\ BackedOK'
      /\ \A d \in DOMAIN channels : OrderOf(d)' = OrderOf(d) /\ Unpaid(d)' = Unpaid(d)
      /\ \A x : Mishap(Early, x) => Mishap(Early, x)'
  BY <1>1, <1>5, <1>6, DlcSide
<1>8. outbound' \in DOMAIN channels \union {None} /\ sent' \subseteq DOMAIN channels
  <2>1. Head(events).kind = "Store" => Head(events).channel \in DOMAIN channels
    BY <1>0, <1>2 DEF StoresOK
  <2> QED BY <1>0, <2>1 DEF DlcHandlerStep, TypeOK
<1>9. TypeOK'
  BY <1>0, <1>1, <1>2, <1>8 DEF TypeOK, EventRows, invoiceVars, appVars, bookVars, linkVars
<1>10. CASE Head(events).kind = "Store"
  <2>1. outbound' = events[1].channel /\ sent' = sent
    BY <1>2, <1>10 DEF DlcHandlerStep
  <2>2. StoresOK'
    <3>1. ASSUME NEW n \in DOMAIN events', events'[n].kind = "Store"
          PROVE  /\ events'[n].channel \in DOMAIN channels /\ outbound' < events'[n].channel
                 /\ \A m \in DOMAIN events' :
                       m < n /\ events'[m].kind = "Store" => events'[m].channel < events'[n].channel
      BY <1>0, <1>2, <1>3, <1>4, <1>10, <2>1, <3>1 DEF StoresOK
    <3> QED BY <1>1, <3>1 DEF StoresOK
  <2>3. PaidOK'
    <3>1. ASSUME NEW d \in DOMAIN channels, Live(d), Unpaid(d), ~Mishap(Early, OrderOf(d))
          PROVE  \A n \in DOMAIN events' : events'[n].kind = "Send" =>
                    /\ outbound' # d
                    /\ \A m \in DOMAIN events' :
                          m < n /\ events'[m].kind = "Store" => events'[m].channel # d
      BY <1>0, <1>2, <1>3, <1>4, <1>10, <2>1, <3>1 DEF PaidOK
    <3> QED BY <1>0, <1>1, <1>6, <1>7, <2>1, <3>1 DEF PaidOK
  <2> QED BY <1>7, <1>9, <2>2, <2>3 DEF IInv
<1>11. CASE Head(events).kind # "Store"
  <2>1. outbound' = outbound /\ sent' \subseteq sent \union {outbound}
    BY <1>11 DEF DlcHandlerStep
  <2>2. StoresOK'
    <3>1. ASSUME NEW n \in DOMAIN events', events'[n].kind = "Store"
          PROVE  /\ events'[n].channel \in DOMAIN channels /\ outbound' < events'[n].channel
                 /\ \A m \in DOMAIN events' :
                       m < n /\ events'[m].kind = "Store" => events'[m].channel < events'[n].channel
      BY <1>0, <1>2, <1>4, <2>1, <3>1 DEF StoresOK
    <3> QED BY <1>1, <3>1 DEF StoresOK
  <2>3. ASSUME NEW d \in DOMAIN channels, Live(d), Unpaid(d), ~Mishap(Early, OrderOf(d))'
        PROVE  d \notin sent'
    <3>1. ~Mishap(Early, OrderOf(d))
      BY <1>1, <1>7, <2>3 DEF OrderOf
    <3>2. d \notin sent /\ (Head(events).kind = "Send" => outbound # d)
      BY <1>0, <1>2, <2>3, <3>1 DEF PaidOK
    <3>3. Head(events).kind = "Connected" => outbound # d
      <4> SUFFICES ASSUME Head(events).kind = "Connected", outbound = d PROVE FALSE
        OBVIOUS
      <4>1. outbound # None
        BY <1>0, Behind
      <4>2. <<"sent early", OrderOf(d)>> \in mishaps'
        BY <1>11, <2>3, <4>1 DEF DlcHandlerStep
      <4>3. OrderOf(d)' = OrderOf(d)
        BY <1>7
      <4> QED BY <2>3, <4>2, <4>3 DEF Mishap, Early
    <3>4. Head(events).kind \in {"Send", "Connected"}
      <4>1. events[1] \in EventRows
        BY <1>0, <1>2, Behind
      <4> QED BY <1>2, <1>11, <4>1 DEF EventRows
    <3> QED BY <2>1, <3>2, <3>3, <3>4
  <2>4. PaidOK'
    <3>1. ASSUME NEW d \in DOMAIN channels, Live(d), Unpaid(d), ~Mishap(Early, OrderOf(d))
          PROVE  \A n \in DOMAIN events' : events'[n].kind = "Send" =>
                    /\ outbound' # d
                    /\ \A m \in DOMAIN events' :
                          m < n /\ events'[m].kind = "Store" => events'[m].channel # d
      BY <1>0, <1>2, <1>4, <2>1, <3>1 DEF PaidOK
    <3> QED BY <1>0, <1>1, <1>6, <1>7, <2>3, <3>1 DEF PaidOK
  <2> QED BY <1>7, <1>9, <2>2, <2>4 DEF IInv
<1> QED BY <1>10, <1>11

\* A function on the domain of a sequence is a sequence.
LEMMA SameLength ==
    ASSUME NEW S, NEW T, NEW s \in Seq(S), NEW f, f = [i \in DOMAIN s |-> f[i]],
           \A i \in DOMAIN s : f[i] \in T
    PROVE  f \in Seq(T) /\ DOMAIN f = DOMAIN s /\ Len(f) = Len(s)
<1>1. DOMAIN s = 1 .. Len(s) /\ Len(s) \in Nat
  BY LenProperties
<1>2. f \in [1 .. Len(s) -> T]
  BY <1>1
<1>3. f \in Seq(T)
  BY <1>1, <1>2, SeqDef
<1> QED BY <1>1, <1>2, <1>3, LenProperties

\* A restart of the coordinator.
LEMMA Restarts ==
    ASSUME IInv, Restart
    PROVE  IInv'
<1>0. /\ TypeOK /\ InvoicesOK /\ WatchesOK /\ ParamsOK /\ ExecutionsOK
      /\ ClashesOK /\ PaidOK /\ BackedOK
  BY DEF IInv
<1>1. /\ UNCHANGED <<lnd, watcher, orders, params, channels, outbound, sent>>
      /\ watching' = {} /\ outbox' = {} /\ matching' = {} /\ events' = <<>>
      /\ connected' = FALSE /\ reconnected' = FALSE
      /\ faults < MaxFaults /\ faults' = faults + 1
      /\ mishaps \subseteq mishaps'
      /\ \A i \in watching : <<"watch lost", i>> \in mishaps'
      /\ \A n \in DOMAIN events : events[n].kind = "Store" =>
            <<"offer lost", OrderOf(events[n].channel)>> \in mishaps'
  BY DEF Restart, Range
<1>2. /\ executions' \in Seq(ExecutionRows) /\ DOMAIN executions' = DOMAIN executions
      /\ \A j \in DOMAIN executions :
            /\ executions'[j].order = executions[j].order
            /\ executions'[j].external = executions[j].external
            /\ executions'[j].filled = executions[j].filled
            /\ executions'[j].step = "done"
  <2>1. executions' = [k \in DOMAIN executions |-> [executions[k] EXCEPT !.step = "done"]]
    BY DEF Restart
  <2>2. executions \in Seq(ExecutionRows)
    BY <1>0 DEF TypeOK, ExecutionRows
  <2>3. \A k \in DOMAIN executions : executions[k] \in ExecutionRows
    BY <1>0, Behind
  <2>4. \A k \in DOMAIN executions : executions'[k] \in ExecutionRows
    BY <2>1, <2>3 DEF ExecutionRows, Steps
  <2>5. executions' \in Seq(ExecutionRows)
    BY <2>1, <2>2, <2>4, SameLength
  <2> QED BY <2>1, <2>3, <2>5 DEF ExecutionRows
<1>3. /\ invoices' \in Seq(HodlInvoiceStates) /\ Len(invoices') = Len(invoices)
      /\ DOMAIN invoices = DOMAIN lnd
      /\ \A i \in DOMAIN invoices : invoices[i] = "Settled" => invoices'[i] = "Settled"
  <2>1. invoices' = cancel_pending_hodl_invoices /\ invoices \in Seq(HodlInvoiceStates)
    BY <1>0 DEF Restart, TypeOK
  <2>2. \A i \in DOMAIN invoices : /\ invoices'[i] \in HodlInvoiceStates
                                   /\ invoices[i] = "Settled" => invoices'[i] = "Settled"
    BY <2>1, ElementOf DEF cancel_pending_hodl_invoices, HodlInvoiceStates
  <2>3. invoices' \in Seq(HodlInvoiceStates) /\ Len(invoices') = Len(invoices)
    BY <2>1, <2>2, SameLength DEF cancel_pending_hodl_invoices
  <2>4. DOMAIN invoices = DOMAIN lnd
    BY <1>0, <2>1, LenProperties DEF InvoicesOK, TypeOK
  <2> QED BY <2>2, <2>3, <2>4
<1>4. /\ updates' \in Seq(Seq(InvoiceStates)) /\ Len(updates') = Len(updates)
      /\ \A i \in DOMAIN lnd : updates'[i] = <<>>
  <2>1. updates' = [i \in DOMAIN updates |-> <<>>] /\ updates \in Seq(Seq(InvoiceStates))
    BY <1>0 DEF Restart, TypeOK
  <2>2. <<>> \in Seq(InvoiceStates)
    OBVIOUS
  <2>3. \A i \in DOMAIN updates : updates'[i] \in Seq(InvoiceStates)
    BY <2>1, <2>2
  <2>4. updates' \in Seq(Seq(InvoiceStates)) /\ Len(updates') = Len(updates)
    <3>1. updates' = [i \in DOMAIN updates |-> updates'[i]]
      BY <2>1
    <3>2. PICK T : T = Seq(InvoiceStates)
      OBVIOUS
    <3>3. updates \in Seq(T) /\ \A i \in DOMAIN updates : updates'[i] \in T
      BY <2>1, <2>3, <3>2
    <3>4. updates' \in Seq(T) /\ Len(updates') = Len(updates)
      BY <3>1, <3>3, SameLength
    <3> QED BY <3>2, <3>4
  <2>5. DOMAIN updates = DOMAIN lnd
    BY <1>0, <2>1, LenProperties DEF InvoicesOK, TypeOK
  <2> QED BY <2>1, <2>4, <2>5
<1>5. TypeOK'
  <2>1. faults' \in 0 .. MaxFaults
    BY <1>0, <1>1, FaultsOK DEF TypeOK
  <2>2. events' \in Seq([kind : {"Store", "Send", "Connected"}, channel : DOMAIN channels' \union {None}])
    BY <1>1, Empty
  <2>3. channels' \in Seq([execution : DOMAIN executions', state : {"Offered", "Signed", "Cancelled"}])
    BY <1>0, <1>1, <1>2 DEF TypeOK
  <2> QED BY <1>0, <1>1, <1>2, <1>3, <1>4, <2>1, <2>2, <2>3 DEF TypeOK, ExecutionRows
<1>6. \A o : InvoiceOf(o)' = InvoiceOf(o) /\ Settled(o)' = Settled(o)
  BY <1>1 DEF InvoiceOf, Settled
<1>7. InvoicesOK'
  BY <1>0, <1>1, <1>3, <1>4, <1>6 DEF InvoicesOK
<1>8. WatchesOK'
  <2>1. ASSUME NEW i \in DOMAIN lnd PROVE WatchOK(i)'
    <3>1. WatchOK(i) /\ (Known(i)' <=> Known(i))
      BY <1>0, <1>1, <1>6 DEF WatchesOK, Known
    <3>2. ~Mishap({"watch lost"}, i)' => i \notin watching /\ ~Mishap({"watch lost"}, i)
      BY <1>1 DEF Mishap
    <3>3. updates'[i] = <<>> /\ watching' = {} /\ lnd' = lnd
      BY <1>1, <1>4
    <3>4. 1 .. Len(<<>>) - 1 = {}
      OBVIOUS
    <3>5. Known(i) /\ ~Mishap({"watch lost"}, i)' =>
              lnd[i] = "Canceled" \/ (lnd[i] = "Settled" /\ invoices'[i] = "Settled")
      BY <1>3, <3>1, <3>2 DEF WatchOK
    <3> QED BY <3>1, <3>3, <3>4, <3>5 DEF WatchOK
  <2> QED BY <1>1, <2>1 DEF WatchesOK
<1>9. ParamsOK'
  BY <1>0, <1>1 DEF ParamsOK
<1>10. \A j \in DOMAIN executions : OrderFor(j)' = OrderFor(j)
  BY <1>2 DEF OrderFor
<1>11. ExecutionsOK'
  BY <1>0, <1>1, <1>2, <1>6, <1>10 DEF ExecutionsOK, ExecutionOK
<1>12. Running' = {}
  BY <1>2 DEF Running
<1>13. \A d \in DOMAIN channels : channels[d].execution \in DOMAIN executions
  BY <1>0, Behind
<1>14. \A d \in DOMAIN channels : OrderOf(d)' = OrderOf(d) /\ Live(d)' = Live(d)
  BY <1>1, <1>2, <1>13 DEF OrderOf, Live
<1>15. /\ \A x : Clashed(x) => Clashed(x)'
       /\ \A x : Mishap(Early, x) => Mishap(Early, x)'
       /\ \A x : Mishap(Excuses, x) => Mishap(Excuses, x)'
  BY <1>1 DEF Clashed, Mishap
<1>16. ClashesOK'
  <2>1. /\ \A d, e \in DOMAIN channels : d < e /\ Live(d) => Clashed(OrderOf(d))'
        /\ \A d, e \in DOMAIN channels : d # e /\ Live(d) /\ Live(e) => Clashed(OrderOf(d))'
    BY <1>0, <1>14, <1>15 DEF ClashesOK
  <2>2. \A j \in DOMAIN executions' : executions'[j].step # "propose"
    BY <1>2
  <2> QED BY <1>1, <1>12, <1>14, <2>1, <2>2 DEF ClashesOK
<1>17. DOMAIN events' = {}
  BY <1>1, Empty
<1>18. StoresOK'
  BY <1>17 DEF StoresOK
<1>19. PaidOK'
  <2>1. \A d \in DOMAIN channels : Unpaid(d)' = Unpaid(d)
    BY <1>1, <1>2, <1>6, <1>13, <1>14 DEF Unpaid
  <2>2. With("Signed")' = With("Signed")
    BY <1>1 DEF With
  <2>3. \A j \in DOMAIN executions' : executions'[j].step = "done"
    BY <1>2
  <2>4. \A d \in DOMAIN channels : Live(d)' /\ Unpaid(d)' /\ ~Mishap(Early, OrderOf(d))' =>
            Live(d) /\ Unpaid(d) /\ ~Mishap(Early, OrderOf(d))
    BY <1>14, <1>15, <2>1
  <2> QED BY <1>0, <1>1, <1>17, <2>2, <2>3, <2>4 DEF PaidOK
<1>20. ASSUME NEW j \in DOMAIN executions, Backed(j), ~Mishap(Excuses, OrderFor(j))'
       PROVE  Backed(j)'
  <2>1. CASE \E d \in DOMAIN channels : channels[d].execution = j /\ OfferReaches(d)
    <3>1. PICK d \in DOMAIN channels : channels[d].execution = j /\ OfferReaches(d)
      BY <2>1
    <3>2. <<"offer lost", OrderFor(j)>> \notin mishaps' /\ OrderOf(d) = OrderFor(j)
      BY <1>10, <1>20, <3>1 DEF Mishap, Excuses, OrderOf, OrderFor
    <3>3. \A n \in DOMAIN events : ~(events[n].kind = "Store" /\ events[n].channel = d)
      BY <1>1, <3>2
    <3>4. OfferReaches(d)'
      BY <1>1, <3>1, <3>3 DEF OfferReaches
    <3> QED BY <1>1, <3>1, <3>4 DEF Backed
  <2>2. CASE With("Signed") # {} /\ \A d \in DOMAIN channels : channels[d].execution # j
    BY <1>1, <2>2 DEF Backed, With
  <2> QED BY <1>20, <2>1, <2>2 DEF Backed
<1>21. BackedOK'
  <2>1. ASSUME NEW x \in DOMAIN orders, Settled(x), ~Mishap(Excuses, x)'
        PROVE  /\ orders[x].state = "Taken"
               /\ \E j \in DOMAIN executions :
                     OrderFor(j) = x /\ executions'[j].filled /\ Backed(j)'
    <3>1. ~Mishap(Excuses, x)
      BY <1>15, <2>1
    <3>2. PICK j \in DOMAIN executions : OrderFor(j) = x /\ executions[j].filled /\ Backed(j)
      BY <1>0, <2>1, <3>1 DEF BackedOK
    <3>3. Backed(j)'
      BY <1>10, <1>20, <2>1, <3>2
    <3> QED BY <1>0, <1>2, <2>1, <3>1, <3>2, <3>3 DEF BackedOK
  <2>2. \A j \in DOMAIN executions' : executions'[j].step = "done"
    BY <1>2
  <2> QED BY <1>1, <1>2, <1>6, <1>10, <1>12, <2>1, <2>2 DEF BackedOK
<1> QED BY <1>5, <1>7, <1>8, <1>9, <1>11, <1>16, <1>18, <1>19, <1>21 DEF IInv

-----------------------------------------------------------------------------
(* The invariant and what it gives *)

\* No invoice, order or channel exists at first.
LEMMA InitOK ==
    ASSUME Init
    PROVE  IInv
<1>1. MaxFaults \in Nat
  BY ExternalFundingAssumption
<1>2. MaxInvoices \in Nat
  BY ExternalFundingAssumption
<1>3. TypeOK
  <2>1. watcher \in [state : {"idle", "waiting", "posting"}, invoice : Invoices \union {NoInvoice}]
    BY DEF Init, Idle
  <2>2. faults \in 0 .. MaxFaults /\ connected \in BOOLEAN /\ reconnected \in BOOLEAN
    <3>1. 0 \in 0 .. MaxFaults
      BY <1>1
    <3> QED BY <3>1 DEF Init
  <2>3. outbound \in DOMAIN channels \union {None}
    BY DEF Init
  <2> QED BY <2>1, <2>2, <2>3, Empty DEF Init, TypeOK
<1>4. DOMAIN lnd = {} /\ DOMAIN orders = {} /\ DOMAIN executions = {} /\ DOMAIN channels = {} /\ DOMAIN events = {}
  BY DEF Init
<1>5. InvoicesOK
  BY <1>2, <1>4 DEF Init, InvoicesOK, Idle
<1>6. Running = {} /\ With("Signed") = {}
  BY <1>4 DEF Running, With
<1>7. WatchesOK /\ ParamsOK /\ ExecutionsOK /\ ClashesOK /\ StoresOK /\ PaidOK /\ BackedOK
  BY <1>4, <1>6 DEF Init, WatchesOK, ParamsOK, ExecutionsOK, ClashesOK, StoresOK, PaidOK, BackedOK
<1> QED BY <1>3, <1>5, <1>7 DEF IInv

\* Every step keeps the invariant.
LEMMA NextOK ==
    ASSUME IInv, [Next]_vars
    PROVE  IInv'
<1>1. CASE UNCHANGED vars
  <2> USE <1>1 DEF vars
  <2>1. TypeOK' /\ ParamsOK' /\ StoresOK'
    BY DEF IInv, TypeOK, ParamsOK, StoresOK
  <2>2. /\ \A x : InvoiceOf(x)' = InvoiceOf(x) /\ Settled(x)' = Settled(x)
        /\ \A S, x : Mishap(S, x)' = Mishap(S, x)
        /\ \A x : With(x)' = With(x) /\ Known(x)' = Known(x)
    BY DEF InvoiceOf, Settled, Mishap, With, Known
  <2>3. /\ \A c : Live(c)' = Live(c) /\ OrderOf(c)' = OrderOf(c) /\ Unpaid(c)' = Unpaid(c)
        /\ \A k : OrderFor(k)' = OrderFor(k) /\ Backed(k)' = Backed(k)
        /\ \A x : Clashed(x)' = Clashed(x)
        /\ Running' = Running
    BY DEF Live, OrderOf, Unpaid, OrderFor, Backed, OfferReaches, With, InvoiceOf, Clashed, Mishap, Running
  <2>4. InvoicesOK' /\ WatchesOK'
    BY <2>2 DEF IInv, InvoicesOK, WatchesOK, WatchOK
  <2>5. ExecutionsOK' /\ ClashesOK'
    BY <2>2, <2>3 DEF IInv, ExecutionsOK, ExecutionOK, ClashesOK
  <2>6. PaidOK' /\ BackedOK'
    BY <2>2, <2>3 DEF IInv, PaidOK, BackedOK
  <2> QED BY <2>1, <2>4, <2>5, <2>6 DEF IInv
<1>2. CASE \E i \in Invoices : submit_unfunded_channel_opening_order(i)
  BY <1>2, Submit
<1>3. ASSUME NEW i \in DOMAIN lnd,
             \/ PayInvoice(i) \/ Expire(i) \/ spawn_invoice_watch(i) \/ WatchBreaks(i)
             \/ watch_lightning_payment(i) \/ LoseMessage(i)
      PROVE  IInv'
  BY <1>3, LndStep, WatchStep, AppStep
<1>4. CASE watch_funding_address \/ abort_watcher
  BY <1>4, AppStep
<1>5. CASE post_order \/ process_pending_match
  BY <1>5, PostOrder, PendingMatch
<1>6. ASSUME NEW o \in DOMAIN orders, process_new_market_order(o) \/ insert_channel_opening_params(o)
      PROVE  IInv'
  BY <1>6, NewMarketOrder, InsertParams
<1>7. ASSUME NEW k \in DOMAIN executions,
             \/ determine_trade_action(k) \/ open_dlc_channel(k) \/ update_order_and_match(k)
             \/ settle_invoice(k) \/ publish_send_last(k)
             \/ cancel_offer(k) \/ cancel_hodl_invoice(k) \/ FailOrder(k)
      PROVE  IInv'
  BY <1>7, DetermineTradeAction, OpenChannel, UpdateOrderAndMatch, SettleInvoice, PublishSend,
     CancelOffer, CancelInvoice, Fails
<1>8. ASSUME NEW c \in DOMAIN channels, AppAnswers(c)
      PROVE  IInv'
  BY <1>8, Answer
<1>9. CASE DlcHandlerStep \/ Connect \/ Disconnect \/ Restart
  BY <1>9, Handler, Connection, Restarts
<1> QED BY <1>1, <1>2, <1>3, <1>4, <1>5, <1>6, <1>7, <1>8, <1>9 DEF Next

\* The inductive invariant holds in every state the system reaches.
THEOREM Invariance == Spec => []IInv
<1>1. Init => IInv
  BY InitOK
<1>2. IInv /\ [Next]_vars => IInv'
  BY NextOK
<1> QED BY <1>1, <1>2, PTL DEF Spec

\* The variables keep their types.
THEOREM TypeCorrect == Spec => []TypeOK
<1>1. IInv => TypeOK
  BY DEF IInv
<1> QED BY <1>1, Invariance, PTL

\* A payment the coordinator keeps (settle_invoice) is spent on the order it came for:
\* an offer reaches the trader or the order was traded in the trader's channel, for any
\* number of invoices, executions and faults.
THEOREM PaymentBuysOfferAlways == Spec => []PaymentBuysOffer
<1>1. IInv => PaymentBuysOffer
  BY DEF IInv, BackedOK, PaymentBuysOffer, Excuses, OrderFor
<1> QED BY <1>1, Invariance, PTL

\* A channel that is signed was paid for, unless its offer was sent early by a connect or
\* two executions of the trader overlapped.
THEOREM ChannelIsPaidAlways == Spec => []ChannelIsPaid
<1>1. ASSUME IInv PROVE ChannelIsPaid
  <2>1. \A c \in With("Signed") : c \in DOMAIN channels /\ Live(c)
    BY DEF With, Live
  <2> QED BY <1>1, <2>1 DEF IInv, PaidOK, ChannelIsPaid, Early
<1> QED BY <1>1, Invariance, PTL

\* A payment that was kept is recorded as Settled once the watch has handled the updates
\* of the invoice, unless the watch was lost.
THEOREM PaymentIsRecordedAlways == Spec => []PaymentIsRecorded
<1>1. ASSUME IInv PROVE PaymentIsRecorded
  <2>1. TypeOK /\ InvoicesOK /\ WatchesOK
    BY <1>1 DEF IInv
  <2>2. ASSUME NEW i \in DOMAIN lnd, lnd[i] = "Settled", updates[i] = <<>>,
               ~Mishap({"watch lost"}, i)
        PROVE  invoices[i] = "Settled"
    <3>1. WatchOK(i) /\ Known(i)
      BY <2>1, <2>2 DEF WatchesOK, Known, InvoicesOK, TypeOK
    <3> QED BY <2>2, <3>1 DEF WatchOK, Final
  <2> QED BY <2>2 DEF PaymentIsRecorded
<1> QED BY <1>1, Invariance, PTL
=============================================================================
