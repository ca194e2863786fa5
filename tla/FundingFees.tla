---------------------------- MODULE FundingFees ----------------------------
(* Funding fees: the scheduled job that creates an event for every active     *)
(* position at the end of a funding period, the protocols that charge the     *)
(* outstanding events, and the web socket over which the app hears of them    *)
(* and applies them to its own position.  What a fee does to the amounts is   *)
(* PositionAmounts' subject, how protocols race is TradeProtocol's.           *)
EXTENDS Integers, Sequences, FiniteSets, SequencesExt

CONSTANTS
  Traders,
  Online,         \* the traders whose app connects to the web socket
  MaxHour,        \* bound on the clock
  MaxPositions,   \* bound on the rows of positions
  MaxProtocols,   \* bound on the protocols that charge fees
  MaxFaults       \* bound on failed jobs, lost connections and restarts

ASSUME FundingFeesAssumption ==
  Online \subseteq Traders /\ {MaxHour, MaxPositions, MaxProtocols, MaxFaults} \subseteq Nat

VARIABLES
  hour,       \* the clock
  rates,      \* funding_rates: the end dates with a rate
  positions,  \* positions: trader, state, hour of creation
  events,     \* funding_fee_events, by id: position, due date, paid or not
  links,      \* protocol_funding_fee_events, by id: protocol, event, deleted or not
  protocols,  \* protocols that charge fees: kind, position, state, charged events
  job,        \* generate_funding_fee_events: period, positions left, event to send
  outbox,     \* messages on their way to authenticated users
  session,    \* the trader's web socket
  inbox,      \* what the app has yet to read from it
  app,        \* the app: known events, its position and the events applied to it
  missed,     \* events the trader could not hear of: sent during its login or
              \* before the app had the position, or left out by a login while
              \* the position was closing (for the properties)
  faults      \* failed jobs, lost connections and restarts so far

vars == <<hour, rates, positions, events, links, protocols, job, outbox, session, inbox, app,
          missed, faults>>
protocolVars == <<positions, links, protocols>>
socketVars == <<outbox, session, inbox>>

Kinds == {"Resize", "Settle", "Rollover"}
PositionStates == {"Proposed", "Open", "Resizing", "Closing", "Rollover", "Closed"}
Active == {"Open", "Resizing", "Rollover"}
ProtocolStates == {"offered", "started", "pending", "accepted", "success", "done", "failed"}
NoJob == [due |-> -1, todo |-> {}, send |-> 0]
NoAppPosition == 0

(* Rows of the tables: the end date of a rate, an event of a position, and    *)
(* an event that a protocol is to pay.  A message carries the events to apply *)
(* by their ids; the app keeps those it knows, and which of them are paid.    *)
FundingRate == 1..MaxHour
FundingFeeEvent == [position : 1..MaxPositions, due : 0..MaxHour, paid : BOOLEAN]
ProtocolFundingFeeEvent == [protocol : 1..MaxProtocols, event : Nat, deleted : BOOLEAN]
FeeMessage == SUBSET Nat
AppFundingFeeEvents == [known : SUBSET Nat, paid : SUBSET Nat, applied : SUBSET Nat,
                        position : 0..MaxPositions, created : 0..MaxHour]
(* Who is in the map of authenticated users, and who is on its way there. *)
Sessions == {"offline", "login", "registered"}

EventsOf(i) == {e \in DOMAIN events : events[e].position = i}
EventsOfTrader(t) == {e \in DOMAIN events : positions[events[e].position].trader = t}
Sees(t, es) == \E e \in es : positions[events[e].position].trader = t

---------------------------------------------------------------------------
(* The tables. *)

(* Rows of active positions that were created before the end date. *)
get_all_active_positions_open_before(end_date) ==
  {i \in DOMAIN positions : positions[i].state \in Active /\ positions[i].created < end_date}

(* UNIQUE (position_id, due_date) *)
Exists(i, due) == \E e \in EventsOf(i) : events[e].due = due

(* Mutant: paid events count as outstanding. *)
Bug_get_outstanding_funding_fee_events(i) == EventsOf(i)
get_outstanding_funding_fee_events(i) == {e \in EventsOf(i) : ~events[e].paid}

(* Mutant: the events of positions that are not in the middle of a protocol. *)
Bug_get_funding_fee_events_for_active_trader_positions(t) ==
  {e \in EventsOfTrader(t) : positions[events[e].position].state = "Rollover"}
(* Paid events are sent too. *)
get_funding_fee_events_for_active_trader_positions(t) ==
  {e \in EventsOfTrader(t) : positions[events[e].position].state \in Active}

insert_protocol_funding_fee_event(p, es) ==
  links \o SetToSeq({[protocol |-> p, event |-> e, deleted |-> FALSE] : e \in es})

PaidBy(p) ==
  {links[k].event : k \in {k \in DOMAIN links : links[k].protocol = p /\ ~links[k].deleted}}

(* Mutant: only the first event of a protocol is marked. *)
Bug_mark_funding_fee_event_as_paid(p) ==
  LET paid == PaidBy(p) IN
  /\ events' = [e \in DOMAIN events |->
                  [events[e] EXCEPT !.paid = @ \/ (e \in paid /\ \A f \in paid : e <= f)]]
  /\ UNCHANGED links

(* The rows of the other table are deleted by their own ids where the ids of  *)
(* the events are meant.                                                      *)
mark_funding_fee_event_as_paid(p) ==
  LET paid == PaidBy(p) IN
  /\ events' = [e \in DOMAIN events |-> [events[e] EXCEPT !.paid = @ \/ e \in paid]]
  /\ links' = [k \in DOMAIN links |-> [links[k] EXCEPT !.deleted = @ \/ k \in paid]]

---------------------------------------------------------------------------
(* The app. *)

(* Insert the events whose due date is new, in the order they come; only      *)
(* these are applied to the position.                                         *)
insert_unpaid_funding_fee_events(a, es) ==
  {e \in es : \A f \in a.known : events[f].due # events[e].due}

(* handle_funding_fee_events fails without a position, when the events are    *)
(* stored already.                                                            *)
WithEvents(a, es) ==
  LET new == insert_unpaid_funding_fee_events(a, es) IN
  [a EXCEPT !.known = @ \union new,
            !.applied = IF a.position = NoAppPosition THEN @ ELSE @ \union new]

(* process_orderbook_message of AllFundingFeeEvents and of FundingFeeEvent *)
AppHandle(t) ==
  /\ inbox[t] # <<>>
  /\ app' = [app EXCEPT ![t] = WithEvents(@, Head(inbox[t]))]
  /\ inbox' = [inbox EXCEPT ![t] = Tail(@)]
  /\ missed' = IF app[t].position = NoAppPosition
               THEN missed \union insert_unpaid_funding_fee_events(app[t], Head(inbox[t]))
               ELSE missed
  /\ UNCHANGED <<hour, rates, protocolVars, events, job, outbox, session, faults>>

---------------------------------------------------------------------------
(* Positions.  A position is opened by a trade, in three steps: the row, the  *)
(* finished protocol, and the app's handler of the last message.              *)

LiveRow(t) == {i \in DOMAIN positions : positions[i].trader = t /\ positions[i].state # "Closed"}

persist_position(t) ==
  /\ Len(positions) < MaxPositions /\ LiveRow(t) = {}
  /\ app[t].position = NoAppPosition
  /\ positions' = Append(positions, [trader |-> t, state |-> "Proposed", created |-> hour])
  /\ UNCHANGED <<hour, rates, events, links, protocols, job, socketVars, app, missed, faults>>

finish_open_position(i) ==
  /\ positions[i].state = "Proposed"
  /\ positions' = [positions EXCEPT ![i].state = "Open"]
  /\ UNCHANGED <<hour, rates, events, links, protocols, job, socketVars, app, missed, faults>>

(* Position::new_open: the app's position is created now. *)
AppOpens(i) ==
  LET t == positions[i].trader IN
  /\ positions[i].state \in Active \union {"Closing"} /\ app[t].position # i
  /\ app' = [app EXCEPT ![t].position = i, ![t].created = hour, ![t].applied = {}]
  /\ UNCHANGED <<hour, rates, protocolVars, events, job, socketVars, missed, faults>>

---------------------------------------------------------------------------
(* Protocols that charge fees. *)

Running(t) == {p \in DOMAIN protocols :
                 /\ positions[protocols[p].position].trader = t
                 /\ protocols[p].state \notin {"done", "failed"}}

(* resize_position, start_closing_position or propose_rollover: the events    *)
(* are read and the offered contract charges them.                            *)
Propose(i, kind) ==
  /\ Len(protocols) < MaxProtocols
  /\ positions[i].state = "Open" /\ Running(positions[i].trader) = {}
  /\ app[positions[i].trader].position = i
  /\ protocols' = Append(protocols,
                         [kind |-> kind, position |-> i, state |-> "offered",
                          charged |-> get_outstanding_funding_fee_events(i),
                          seen |-> Len(events)])
  /\ UNCHANGED <<hour, rates, positions, events, links, job, socketVars, app, missed, faults>>

(* start_resize_protocol, start_settle_protocol, start_rollover *)
StartProtocol(p) ==
  /\ protocols[p].state = "offered"
  /\ protocols' = [protocols EXCEPT ![p].state = "started"]
  /\ links' = insert_protocol_funding_fee_event(p, protocols[p].charged)
  /\ UNCHANGED <<hour, rates, positions, events, job, socketVars, app, missed, faults>>

Busy(kind) == CASE kind = "Resize" -> "Resizing" [] kind = "Settle" -> "Closing"
                [] kind = "Rollover" -> "Rollover"

UpdatePosition(p) ==
  /\ protocols[p].state = "started"
  /\ protocols' = [protocols EXCEPT ![p].state = "pending"]
  /\ positions' = [positions EXCEPT ![protocols[p].position].state = Busy(protocols[p].kind)]
  /\ UNCHANGED <<hour, rates, events, links, job, socketVars, app, missed, faults>>

(* A rollover offer carries the events it charges. *)
AppAccepts(p) ==
  LET t == positions[protocols[p].position].trader IN
  /\ protocols[p].state = "pending"
  /\ protocols' = [protocols EXCEPT ![p].state = "accepted"]
  /\ app' = IF protocols[p].kind = "Rollover"
            THEN [app EXCEPT ![t] = WithEvents(@, protocols[p].charged)]
            ELSE app
  /\ UNCHANGED <<hour, rates, positions, events, links, job, socketVars, missed, faults>>

(* The reject puts a Closing or Rollover row back, not a Resizing one. *)
AppRejects(p) ==
  /\ protocols[p].state = "pending"
  /\ protocols' = [protocols EXCEPT ![p].state = "failed"]
  /\ positions' = IF protocols[p].kind = "Resize" THEN positions
                  ELSE [positions EXCEPT ![protocols[p].position].state = "Open"]
  /\ UNCHANGED <<hour, rates, events, links, job, socketVars, app, missed, faults>>

finish_dlc_protocol(p) ==
  /\ protocols[p].state = "accepted"
  /\ protocols' = [protocols EXCEPT ![p].state = "success"]
  /\ positions' = [positions EXCEPT ![protocols[p].position].state =
                     IF protocols[p].kind = "Settle" THEN "Closed" ELSE "Open"]
  /\ mark_funding_fee_event_as_paid(p)
  /\ UNCHANGED <<hour, rates, job, socketVars, app, missed, faults>>

(* After a rollover the app marks everything due since it has the position as *)
(* paid; after a settlement it deletes the position.                          *)
AppFinishes(p) ==
  LET t == positions[protocols[p].position].trader IN
  /\ protocols[p].state = "success"
  /\ protocols' = [protocols EXCEPT ![p].state = "done"]
  /\ app' = CASE protocols[p].kind = "Rollover" ->
                   [app EXCEPT ![t].paid = @ \union {e \in app[t].known :
                                                       events[e].due >= app[t].created}]
              [] protocols[p].kind = "Settle" -> [app EXCEPT ![t].position = NoAppPosition]
              [] OTHER -> app
  /\ UNCHANGED <<hour, rates, positions, events, links, job, socketVars, missed, faults>>

---------------------------------------------------------------------------
(* The job. *)

Tick ==
  /\ hour < MaxHour /\ hour' = hour + 1
  /\ UNCHANGED <<rates, protocolVars, events, job, socketVars, app, missed, faults>>

(* post_funding_rates; a rate that is there already stays. *)
insert_funding_rates(end_date) ==
  /\ end_date \notin rates /\ rates' = rates \union {end_date}
  /\ UNCHANGED <<hour, protocolVars, events, job, socketVars, app, missed, faults>>

(* The rate that ends with the current hour; the schedule is configurable and *)
(* a failed attempt is repeated, so the job may start again at any time.      *)
StartJob ==
  /\ job = NoJob /\ hour \in rates
  /\ job' = [due |-> hour, todo |-> get_all_active_positions_open_before(hour), send |-> 0]
  /\ \E i \in job'.todo : ~Exists(i, hour)
  /\ UNCHANGED <<hour, rates, protocolVars, events, socketVars, app, missed, faults>>

AfterJob(left) == IF left = {} THEN NoJob ELSE [job EXCEPT !.todo = left, !.send = 0]

insert(i) ==
  /\ i \in job.todo /\ job.send = 0
  /\ IF Exists(i, job.due)
     THEN events' = events /\ job' = AfterJob(job.todo \ {i})
     ELSE /\ events' = Append(events, [position |-> i, due |-> job.due, paid |-> FALSE])
          /\ job' = [job EXCEPT !.send = Len(events) + 1]
  /\ UNCHANGED <<hour, rates, protocolVars, socketVars, app, missed, faults>>

(* The message to the trader follows the row. *)
SendEvent ==
  /\ job.send # 0
  /\ outbox' = Append(outbox, job.send)
  /\ job' = AfterJob(job.todo \ {events[job.send].position})
  /\ UNCHANGED <<hour, rates, protocolVars, events, session, inbox, app, missed, faults>>

(* No index price or no database.  The message can only fail to be sent when  *)
(* the task that delivers it is gone, with the process.                       *)
JobFails ==
  /\ job # NoJob /\ job.send = 0 /\ faults < MaxFaults
  /\ job' = NoJob
  /\ faults' = faults + 1
  /\ UNCHANGED <<hour, rates, protocolVars, events, socketVars, app, missed>>

---------------------------------------------------------------------------
(* The web socket. *)

(* process_orderbook_message: a trader that is not registered, or whose       *)
(* sender is stale, does not get the message.                                 *)
Deliver ==
  /\ outbox # <<>>
  /\ LET e == Head(outbox)
         t == positions[events[e].position].trader
     IN /\ inbox' = IF session[t] = "registered" THEN [inbox EXCEPT ![t] = Append(@, {e})]
                                                 ELSE inbox
        /\ missed' = IF session[t] = "login" THEN missed \union {e} ELSE missed
  /\ outbox' = Tail(outbox)
  /\ UNCHANGED <<hour, rates, protocolVars, events, job, session, app, faults>>

(* Authentication: all events of active positions are sent first, then the    *)
(* sender is registered for what comes later.                                 *)
Login(t) ==
  /\ t \in Online /\ session[t] = "offline"
  /\ session' = [session EXCEPT ![t] = "login"]
  /\ inbox' = [inbox EXCEPT ![t] =
                 Append(@, get_funding_fee_events_for_active_trader_positions(t))]
  /\ missed' = missed \union {e \in EventsOfTrader(t) :
                                positions[events[e].position].state = "Closing"}
  /\ UNCHANGED <<hour, rates, protocolVars, events, job, outbox, app, faults>>

Register(t) ==
  /\ session[t] = "login"
  /\ session' = [session EXCEPT ![t] = "registered"]
  /\ UNCHANGED <<hour, rates, protocolVars, events, job, outbox, inbox, app, missed, faults>>

Logout(t) ==
  /\ session[t] # "offline" /\ faults < MaxFaults
  /\ faults' = faults + 1
  /\ session' = [session EXCEPT ![t] = "offline"]
  /\ inbox' = [inbox EXCEPT ![t] = <<>>]
  /\ UNCHANGED <<hour, rates, protocolVars, events, job, outbox, app, missed>>

(* What is in memory is gone: the job, the messages and the connections. *)
Restart ==
  /\ faults < MaxFaults
  /\ faults' = faults + 1
  /\ job' = NoJob /\ outbox' = <<>>
  /\ session' = [t \in Traders |-> "offline"]
  /\ inbox' = [t \in Traders |-> <<>>]
  /\ UNCHANGED <<hour, rates, protocolVars, events, app, missed>>

---------------------------------------------------------------------------
Init ==
  /\ hour = 0 /\ rates = {} /\ positions = <<>> /\ events = <<>> /\ links = <<>>
  /\ protocols = <<>> /\ job = NoJob /\ outbox = <<>> /\ missed = {}
  /\ session = [t \in Traders |-> "offline"] /\ inbox = [t \in Traders |-> <<>>]
  /\ app = [t \in Traders |-> [known |-> {}, paid |-> {}, position |-> NoAppPosition,
                               created |-> 0, applied |-> {}]]
  /\ faults = 0

Next ==
  \/ \E t \in Traders : \/ persist_position(t) \/ AppHandle(t)
                        \/ Login(t) \/ Register(t) \/ Logout(t)
  \/ \E i \in DOMAIN positions : \/ finish_open_position(i) \/ AppOpens(i) \/ insert(i)
                                 \/ \E kind \in Kinds : Propose(i, kind)
  \/ \E p \in DOMAIN protocols : \/ StartProtocol(p) \/ UpdatePosition(p)
                                 \/ AppAccepts(p) \/ AppRejects(p)
                                 \/ finish_dlc_protocol(p) \/ AppFinishes(p)
  \/ \E end_date \in 1..MaxHour : insert_funding_rates(end_date)
  \/ Tick \/ StartJob \/ SendEvent \/ JobFails \/ Deliver \/ Restart

Spec == Init /\ [][Next]_vars

---------------------------------------------------------------------------
(* Properties. *)

(* The types of the variables. *)
TypeOK ==
  /\ hour \in 0..MaxHour /\ rates \subseteq FundingRate
  /\ positions \in Seq([trader : Traders, state : PositionStates, created : 0..MaxHour])
  /\ events \in Seq(FundingFeeEvent)
  /\ links \in Seq(ProtocolFundingFeeEvent)
  /\ protocols \in Seq([kind : Kinds, position : 1..MaxPositions, state : ProtocolStates,
                        charged : SUBSET Nat, seen : Nat])
  /\ job \in [due : -1..MaxHour, todo : SUBSET (1..MaxPositions), send : Nat]
  /\ outbox \in Seq(Nat)
  /\ session \in [Traders -> Sessions] /\ inbox \in [Traders -> Seq(FeeMessage)]
  /\ app \in [Traders -> AppFundingFeeEvents]
  /\ missed \subseteq DOMAIN events /\ faults \in 0..MaxFaults

ChargedBy(e) == {p \in DOMAIN protocols :
                   e \in protocols[p].charged /\ protocols[p].state \in {"success", "done"}}

(* An event is charged by one finished protocol when it is marked as paid and *)
(* by none otherwise, whatever protocols fail and are repeated in between.    *)
(* Violated with two traders, by the rows mark_funding_fee_event_as_paid      *)
(* deletes: run fee_charged_twice.                                            *)
ChargedExactlyOnce ==
  \A e \in DOMAIN events : Cardinality(ChargedBy(e)) = (IF events[e].paid THEN 1 ELSE 0)

(* When a position is closed, every event it had when the close was proposed  *)
(* is paid (start_closing_position).                                          *)
ClosedIsPaid ==
  \A p \in DOMAIN protocols :
    protocols[p].kind = "Settle" /\ protocols[p].state \in {"success", "done"} =>
      \A e \in EventsOf(protocols[p].position) : e <= protocols[p].seen => events[e].paid

Heard(t) ==
  /\ session[t] = "registered" /\ inbox[t] = <<>>
  /\ ~Sees(t, {outbox[k] : k \in DOMAIN outbox} \union ({job.send} \ {0}))

(* A connected trader that has read its messages has applied every event of   *)
(* its active position, whatever messages a lost connection or a restart      *)
(* swallowed, but for events sent between the two steps of its login or       *)
(* before it had the position, or left out because a close was being tried.   *)
AppAppliesEvents ==
  \A t \in Traders : Heard(t) =>
    \A i \in DOMAIN positions :
      positions[i].trader = t /\ positions[i].state \in Active /\ app[t].position = i =>
        EventsOf(i) \subseteq app[t].applied \union missed
=============================================================================
