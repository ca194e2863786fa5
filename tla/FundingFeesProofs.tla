------------------------- MODULE FundingFeesProofs -------------------------
(***************************************************************************)
(* FundingFees for any number of traders, hours, positions, protocols and  *)
(* faults: TypeOK and AppAppliesEvents; and, for a single trader,          *)
(* ChargedExactlyOnce and ClosedIsPaid.                                    *)
(*                                                                         *)
(* The app recognises an event by its due date alone, so that it would     *)
(* skip an event of its position when an event of an earlier position of   *)
(* the same trader had that date.  That no two events of a trader have the *)
(* same date is a matter of time: a job may still insert events of a       *)
(* position that was closed meanwhile, but the next position is then       *)
(* created at or after their due date, and its own are due later.          *)
(***************************************************************************)
EXTENDS FundingFees, FiniteSetTheorems, TLAPS

-----------------------------------------------------------------------------
(* The inductive invariant *)

TraderOf(e) == positions[events[e].position].trader
Alive(e) == positions[events[e].position].state # "Closed"
On(q) == {q[k] : k \in DOMAIN q}

InProgress(p) == protocols[p].state \notin {"done", "failed"}
Unfinished(p) == protocols[p].state \in {"offered", "started", "pending", "accepted"}

\* Rows and messages refer to rows that exist.
RefsOK ==
  /\ Len(positions) <= MaxPositions /\ Len(protocols) <= MaxProtocols
  /\ \A e \in DOMAIN events : events[e].position \in DOMAIN positions
  /\ \A p \in DOMAIN protocols : /\ protocols[p].position \in DOMAIN positions
                                 /\ protocols[p].charged \subseteq EventsOf(protocols[p].position)
                                 /\ protocols[p].seen <= Len(events)

\* The job, the messages and what the app knows refer to rows of the trader.
QueuesOK ==
  /\ job.todo \subseteq DOMAIN positions /\ job.send \in DOMAIN events \union {0}
  /\ On(outbox) \subseteq DOMAIN events
  /\ \A t \in Traders : /\ app[t].known \subseteq EventsOfTrader(t)
                        /\ UNION On(inbox[t]) \subseteq EventsOfTrader(t)

\* A trader has one live row, its latest, which becomes the app's position.
RowsOK ==
  /\ \A i, j \in DOMAIN positions :
       i < j /\ positions[i].trader = positions[j].trader => positions[i].state = "Closed"
  /\ \A i \in DOMAIN positions :
       /\ positions[i].state = "Proposed" => EventsOf(i) = {} /\ i \notin job.todo
       /\ positions[i].state # "Closed" => app[positions[i].trader].position \in {NoAppPosition, i}

\* Of a trader's protocols one is in progress; it is about the app's position.
ProgressOK ==
  /\ \A p, q \in DOMAIN protocols :
       /\ InProgress(p) /\ InProgress(q)
       /\ positions[protocols[p].position].trader = positions[protocols[q].position].trader
       => p = q
  /\ \A p \in DOMAIN protocols :
       /\ InProgress(p) =>
            app[positions[protocols[p].position].trader].position = protocols[p].position
       /\ Unfinished(p) =>
            positions[protocols[p].position].state \notin {"Proposed", "Closed"}
       /\ protocols[p].kind = "Settle" /\ protocols[p].state = "success" =>
            positions[protocols[p].position].state = "Closed"

\* When events are due: after their position was created, not after the next one
\* was, and once for each date.
DatesOK ==
  /\ \A i \in DOMAIN positions : positions[i].created <= hour
  /\ \A e \in DOMAIN events : /\ events[e].due <= hour
                              /\ events[e].due > positions[events[e].position].created
  /\ job.todo # {} => job.due \in 0..hour
  /\ \A i \in job.todo : job.due > positions[i].created
  /\ \A i, j \in DOMAIN positions : i < j /\ positions[i].trader = positions[j].trader =>
       /\ \A e \in EventsOf(i) : events[e].due <= positions[j].created
       /\ i \in job.todo => job.due <= positions[j].created
  /\ \A e, f \in DOMAIN events :
       events[e].position = events[f].position /\ events[e].due = events[f].due => e = f

\* An event that the app knows was applied, unless it came too early.
KnownOK ==
  \A t \in Traders : \A e \in app[t].known :
    Alive(e) => \/ e \in missed
                \/ app[t].position = events[e].position /\ e \in app[t].applied

\* An event of a connected trader is known, was missed, or is on its way.
HeardOK ==
  \A t \in Traders : session[t] # "offline" =>
    \A e \in EventsOfTrader(t) : Alive(e) =>
      \/ e \in app[t].known \union missed
      \/ e \in UNION On(inbox[t])
      \/ e \in On(outbox) \union {job.send}

IInv == TypeOK /\ RefsOK /\ QueuesOK /\ RowsOK /\ ProgressOK /\ DatesOK /\ KnownOK /\ HeardOK

\* For one trader: what a protocol is going to pay, and what was paid.
ChargesOK ==
  /\ \A k \in DOMAIN links : /\ links[k].protocol \in DOMAIN protocols
                             /\ protocols[links[k].protocol].state # "offered"
  /\ \A p \in DOMAIN protocols :
       /\ Unfinished(p) => \A e \in protocols[p].charged : ~events[e].paid
       /\ Unfinished(p) /\ protocols[p].state # "offered" => PaidBy(p) = protocols[p].charged
       /\ protocols[p].state # "failed" =>
            \A e \in EventsOf(protocols[p].position) :
              e <= protocols[p].seen => events[e].paid \/ e \in protocols[p].charged
  /\ \A e \in DOMAIN events :
       /\ events[e].paid <=> ChargedBy(e) # {}
       /\ \A p, q \in ChargedBy(e) : p = q

-----------------------------------------------------------------------------
(* Sequences and rows *)

Row == [trader : Traders, state : PositionStates, created : 0..MaxHour]
Protocol == [kind : Kinds, position : 1..MaxPositions, state : ProtocolStates,
             charged : SUBSET Nat, seen : Nat]

\* What Append does to a sequence.
LEMMA AppendFacts ==
  ASSUME NEW S, NEW s \in Seq(S), NEW x \in S
  PROVE  /\ Append(s, x) \in Seq(S) /\ Len(s) \in Nat /\ Len(Append(s, x)) = Len(s) + 1
         /\ DOMAIN s = 1..Len(s) /\ DOMAIN Append(s, x) = DOMAIN s \union {Len(s) + 1}
         /\ \A k \in DOMAIN s : Append(s, x)[k] = s[k]
         /\ Append(s, x)[Len(s) + 1] = x
  OBVIOUS

\* The elements of a sequence, when one is added.
LEMMA OnAppend ==
  ASSUME NEW S, NEW s \in Seq(S), NEW x
  PROVE  On(Append(s, x)) = On(s) \union {x}
<1>0. /\ DOMAIN s = 1..Len(s) /\ Len(s) \in Nat /\ DOMAIN Append(s, x) = 1..(Len(s) + 1)
      /\ \A k \in DOMAIN s : k \in DOMAIN Append(s, x) /\ Append(s, x)[k] = s[k]
      /\ Append(s, x)[Len(s) + 1] = x
  OBVIOUS
<1>1. ASSUME NEW y \in On(Append(s, x)) PROVE y \in On(s) \union {x}
  BY <1>1, <1>0 DEF On
<1>2. ASSUME NEW y \in On(s) \union {x} PROVE y \in On(Append(s, x))
  <2>1. CASE y = x
    BY <2>1, <1>0 DEF On
  <2>2. CASE y \in On(s)
    <3>1. PICK k \in DOMAIN s : y = s[k]
      BY <2>2 DEF On
    <3>2. k \in DOMAIN Append(s, x) /\ y = Append(s, x)[k]
      BY <3>1, <1>0
    <3> QED BY <3>2 DEF On
  <2> QED BY <1>2, <2>1, <2>2
<1> QED BY <1>1, <1>2

\* The elements of a sequence and of its tail.
LEMMA OnTail ==
  ASSUME NEW S, NEW s \in Seq(S), s # <<>>
  PROVE  /\ Head(s) \in S /\ Tail(s) \in Seq(S)
         /\ On(s) = {Head(s)} \union On(Tail(s))
<1>1. /\ Head(s) \in S /\ Tail(s) \in Seq(S) /\ Len(s) \in Nat \ {0} /\ Head(s) = s[1]
      /\ DOMAIN s = 1..Len(s) /\ DOMAIN Tail(s) = 1..(Len(s) - 1)
      /\ \A k \in 1..(Len(s) - 1) : Tail(s)[k] = s[k + 1]
  OBVIOUS
<1>2. ASSUME NEW y \in On(s) PROVE y \in {Head(s)} \union On(Tail(s))
  <2>1. PICK k \in DOMAIN s : y = s[k]
    BY <1>2 DEF On
  <2>2. k = 1 \/ (k - 1 \in DOMAIN Tail(s) /\ Tail(s)[k - 1] = y)
    BY <1>1, <2>1
  <2> QED BY <1>1, <2>1, <2>2 DEF On
<1>3. ASSUME NEW y \in {Head(s)} \union On(Tail(s)) PROVE y \in On(s)
  <2>1. CASE y = Head(s)
    BY <1>1, <2>1 DEF On
  <2>2. CASE y \in On(Tail(s))
    <3>1. PICK k \in DOMAIN Tail(s) : y = Tail(s)[k]
      BY <2>2 DEF On
    <3>2. k + 1 \in DOMAIN s /\ y = s[k + 1]
      BY <1>1, <3>1
    <3> QED BY <3>2 DEF On
  <2> QED BY <1>3, <2>1, <2>2
<1> QED BY <1>1, <1>2, <1>3

\* A row of the positions table in a new state.
LEMMA SetState ==
  ASSUME TypeOK, NEW i \in DOMAIN positions, NEW st \in PositionStates,
         positions' = [positions EXCEPT ![i].state = st]
  PROVE  /\ positions' \in Seq(Row) /\ DOMAIN positions' = DOMAIN positions
         /\ Len(positions') = Len(positions)
         /\ \A j \in DOMAIN positions : /\ positions'[j].trader = positions[j].trader
                                        /\ positions'[j].created = positions[j].created
                                        /\ j # i => positions'[j].state = positions[j].state
         /\ positions'[i].state = st
<1>0. positions \in Seq(Row)
  BY DEF TypeOK, Row
<1>1. positions \in Seq(Row) /\ positions[i] \in Row
  BY <1>0
<1>2. [positions[i] EXCEPT !.state = st] \in Row
  BY <1>1 DEF Row
<1>3. positions' = [positions EXCEPT ![i] = [positions[i] EXCEPT !.state = st]]
  OBVIOUS
<1>4. positions' \in Seq(Row) /\ DOMAIN positions' = DOMAIN positions
      /\ Len(positions') = Len(positions)
  BY <1>1, <1>2, <1>3
<1>5. positions'[i] = [positions[i] EXCEPT !.state = st]
      /\ \A j \in DOMAIN positions : j # i => positions'[j] = positions[j]
  BY <1>3
<1> QED BY <1>1, <1>4, <1>5 DEF Row

\* A protocol in a new state.
LEMMA SetProtocol ==
  ASSUME TypeOK, NEW p \in DOMAIN protocols, NEW st \in ProtocolStates,
         protocols' = [protocols EXCEPT ![p].state = st]
  PROVE  /\ protocols' \in Seq(Protocol) /\ DOMAIN protocols' = DOMAIN protocols
         /\ Len(protocols') = Len(protocols)
         /\ \A q \in DOMAIN protocols : /\ protocols'[q].kind = protocols[q].kind
                                        /\ protocols'[q].position = protocols[q].position
                                        /\ protocols'[q].charged = protocols[q].charged
                                        /\ protocols'[q].seen = protocols[q].seen
                                        /\ q # p => protocols'[q].state = protocols[q].state
         /\ protocols'[p].state = st
<1>0. protocols \in Seq(Protocol)
  BY DEF TypeOK, Protocol
<1>1. protocols \in Seq(Protocol) /\ protocols[p] \in Protocol
  BY <1>0
<1>2. [protocols[p] EXCEPT !.state = st] \in Protocol
  BY <1>1 DEF Protocol
<1>3. protocols' = [protocols EXCEPT ![p] = [protocols[p] EXCEPT !.state = st]]
  OBVIOUS
<1>4. protocols' \in Seq(Protocol) /\ DOMAIN protocols' = DOMAIN protocols
      /\ Len(protocols') = Len(protocols)
  BY <1>1, <1>2, <1>3
<1>5. protocols'[p] = [protocols[p] EXCEPT !.state = st]
      /\ \A q \in DOMAIN protocols : q # p => protocols'[q] = protocols[q]
  BY <1>3
<1> QED BY <1>1, <1>4, <1>5 DEF Protocol

\* The types of what the rows hold.
LEMMA TypeFacts ==
  ASSUME TypeOK
  PROVE  /\ hour \in Nat /\ MaxHour \in Nat /\ MaxPositions \in Nat /\ MaxProtocols \in Nat
         /\ positions \in Seq(Row) /\ Len(positions) \in Nat /\ DOMAIN positions = 1..Len(positions)
         /\ \A i \in DOMAIN positions : /\ positions[i].trader \in Traders
                                        /\ positions[i].state \in PositionStates
                                        /\ positions[i].created \in Nat
         /\ events \in Seq(FundingFeeEvent) /\ Len(events) \in Nat /\ DOMAIN events = 1..Len(events)
         /\ \A e \in DOMAIN events : /\ events[e].position \in Nat /\ events[e].due \in Nat
                                     /\ events[e].paid \in BOOLEAN
         /\ protocols \in Seq(Protocol) /\ Len(protocols) \in Nat
         /\ DOMAIN protocols = 1..Len(protocols)
         /\ \A p \in DOMAIN protocols : /\ protocols[p].kind \in Kinds
                                        /\ protocols[p].position \in Nat
                                        /\ protocols[p].state \in ProtocolStates
                                        /\ protocols[p].charged \subseteq Nat
                                        /\ protocols[p].seen \in Nat
         /\ job.due \in Int /\ job.todo \subseteq Nat /\ job.send \in Nat
<1>1. /\ positions \in Seq(Row) /\ events \in Seq(FundingFeeEvent) /\ protocols \in Seq(Protocol)
      /\ hour \in Nat /\ MaxHour \in Nat /\ MaxPositions \in Nat /\ MaxProtocols \in Nat
  BY FundingFeesAssumption DEF TypeOK, Row, Protocol
<1>2. /\ job \in [due : -1..MaxHour, todo : SUBSET (1..MaxPositions), send : Nat]
  BY DEF TypeOK
<1>3. job.due \in Int /\ job.todo \subseteq Nat /\ job.send \in Nat
  BY <1>1, <1>2
<1>4. /\ \A i \in DOMAIN positions : positions[i] \in Row
      /\ \A e \in DOMAIN events : events[e] \in FundingFeeEvent
      /\ \A p \in DOMAIN protocols : protocols[p] \in Protocol
      /\ Len(positions) \in Nat /\ DOMAIN positions = 1..Len(positions)
      /\ Len(events) \in Nat /\ DOMAIN events = 1..Len(events)
      /\ Len(protocols) \in Nat /\ DOMAIN protocols = 1..Len(protocols)
  BY <1>1
<1>5. \A r \in Row : r.trader \in Traders /\ r.state \in PositionStates /\ r.created \in Nat
  BY <1>1 DEF Row
<1>6. \A r \in FundingFeeEvent : r.position \in Nat /\ r.due \in Nat /\ r.paid \in BOOLEAN
  BY <1>1 DEF FundingFeeEvent
<1>7. \A r \in Protocol : /\ r.kind \in Kinds /\ r.position \in Nat /\ r.state \in ProtocolStates
                          /\ r.charged \subseteq Nat /\ r.seen \in Nat
  BY <1>1 DEF Protocol
<1> QED BY <1>1, <1>3, <1>4, <1>5, <1>6, <1>7

\* The variables each part of the invariant is about.
LEMMA Frame ==
  ASSUME IInv
  PROVE  /\ UNCHANGED <<positions, events, protocols>> => RefsOK'
         /\ UNCHANGED <<positions, events, job, outbox, app, inbox>> => QueuesOK'
         /\ UNCHANGED <<positions, events, job, app>> => RowsOK'
         /\ UNCHANGED <<positions, protocols, app>> => ProgressOK'
         /\ UNCHANGED <<positions, events, job, hour>> => DatesOK'
         /\ UNCHANGED <<positions, events, app, missed>> => KnownOK'
         /\ UNCHANGED <<positions, events, app, missed, session, inbox, outbox, job>> => HeardOK'
<1>1. UNCHANGED <<positions, events, protocols>> => RefsOK'
  BY DEF IInv, RefsOK, EventsOf
<1>2. UNCHANGED <<positions, events, job, outbox, app, inbox>> => QueuesOK'
  BY DEF IInv, QueuesOK, EventsOfTrader, On
<1>3. UNCHANGED <<positions, events, job, app>> => RowsOK'
  BY DEF IInv, RowsOK, EventsOf
<1>4. UNCHANGED <<positions, protocols, app>> => ProgressOK'
  BY DEF IInv, ProgressOK, InProgress, Unfinished
<1>5. UNCHANGED <<positions, events, job, hour>> => DatesOK'
  BY DEF IInv, DatesOK, EventsOf
<1>6. UNCHANGED <<positions, events, app, missed>> => KnownOK'
  BY DEF IInv, KnownOK, Alive
<1>7. UNCHANGED <<positions, events, app, missed, session, inbox, outbox, job>> => HeardOK'
  BY DEF IInv, HeardOK, EventsOfTrader, Alive, On
<1> QED BY <1>1, <1>2, <1>3, <1>4, <1>5, <1>6, <1>7

\* The rest of the job: the positions that are left, or nothing.
LEMMA AfterJobFacts ==
  ASSUME TypeOK, NEW left, left \subseteq job.todo, job' = AfterJob(left)
  PROVE  /\ job'.send = 0 /\ job'.todo = left
         /\ left # {} => job'.due = job.due
         /\ job' \in [due : -1..MaxHour, todo : SUBSET (1..MaxPositions), send : Nat]
<1>1. job' = IF left = {} THEN NoJob ELSE [job EXCEPT !.todo = left, !.send = 0]
  BY DEF AfterJob
<1>2. job \in [due : -1..MaxHour, todo : SUBSET (1..MaxPositions), send : Nat]
  BY DEF TypeOK
<1>3. CASE left = {}
  BY <1>1, <1>3, FundingFeesAssumption DEF NoJob
<1>4. CASE left # {}
  <2>1. job' = [job EXCEPT !.todo = left, !.send = 0]
    BY <1>1, <1>4
  <2>2. left \in SUBSET (1..MaxPositions)
    BY <1>2
  <2>3. job' = [due |-> job.due, todo |-> left, send |-> 0] /\ job.due \in -1..MaxHour
    BY <1>2, <2>1
  <2> QED BY <2>2, <2>3
<1> QED BY <1>3, <1>4

\* A step that creates no row and reopens none.
Kept ==
  /\ DOMAIN positions' = DOMAIN positions /\ Len(positions') = Len(positions)
  /\ \A j \in DOMAIN positions :
       /\ positions'[j].trader = positions[j].trader /\ positions'[j].created = positions[j].created
       /\ positions[j].state = "Closed" => positions'[j].state = "Closed"
  /\ DOMAIN events' = DOMAIN events /\ Len(events') = Len(events)
  /\ \A e \in DOMAIN events :
       events'[e].position = events[e].position /\ events'[e].due = events[e].due

\* What such a step cannot disturb.
LEMMA KeptStep ==
  ASSUME IInv, Kept
  PROVE  /\ (/\ DOMAIN protocols' = DOMAIN protocols /\ Len(protocols') = Len(protocols)
             /\ \A p \in DOMAIN protocols : /\ protocols'[p].position = protocols[p].position
                                            /\ protocols'[p].charged = protocols[p].charged
                                            /\ protocols'[p].seen = protocols[p].seen)
              => RefsOK'
         /\ UNCHANGED <<job, outbox, app, inbox>> => QueuesOK'
         /\ UNCHANGED <<job, hour>> => DatesOK'
         /\ UNCHANGED <<app, missed>> => KnownOK'
         /\ UNCHANGED <<app, missed, session, inbox, outbox, job>> => HeardOK'
<1>1. /\ \A e \in DOMAIN events : events[e].position \in DOMAIN positions
      /\ \A t \in Traders : EventsOfTrader(t)' = EventsOfTrader(t)
      /\ \A i \in DOMAIN positions : EventsOf(i)' = EventsOf(i)
      /\ \A e \in DOMAIN events : Alive(e)' => Alive(e)
  BY DEF IInv, RefsOK, Kept, EventsOfTrader, EventsOf, Alive
<1>2. ASSUME DOMAIN protocols' = DOMAIN protocols, Len(protocols') = Len(protocols),
             \A p \in DOMAIN protocols : /\ protocols'[p].position = protocols[p].position
                                         /\ protocols'[p].charged = protocols[p].charged
                                         /\ protocols'[p].seen = protocols[p].seen
      PROVE  RefsOK'
  BY <1>1, <1>2 DEF IInv, RefsOK, Kept
<1>3. ASSUME UNCHANGED <<job, outbox, app, inbox>> PROVE QueuesOK'
  BY <1>1, <1>3 DEF IInv, QueuesOK, Kept
<1>4. ASSUME UNCHANGED <<job, hour>> PROVE DatesOK'
  <2>1. /\ \A i \in DOMAIN positions : positions'[i].created <= hour'
        /\ \A e \in DOMAIN events : /\ events'[e].due <= hour'
                                    /\ events'[e].due > positions'[events'[e].position].created
    BY <1>1, <1>4 DEF IInv, DatesOK, Kept
  <2>2. /\ job'.todo # {} => job'.due \in 0..hour'
        /\ \A i \in job'.todo : job'.due > positions'[i].created
    BY <1>1, <1>4 DEF IInv, DatesOK, QueuesOK, Kept
  <2>3. \A i, j \in DOMAIN positions : i < j /\ positions'[i].trader = positions'[j].trader =>
          /\ \A e \in EventsOf(i)' : events'[e].due <= positions'[j].created
          /\ i \in job'.todo => job'.due <= positions'[j].created
    <3>1. \A i \in DOMAIN positions : \A e \in EventsOf(i) : events'[e].due = events[e].due
      BY DEF Kept, EventsOf
    <3> QED BY <1>1, <1>4, <3>1 DEF IInv, DatesOK, Kept
  <2>4. \A e, f \in DOMAIN events :
          events'[e].position = events'[f].position /\ events'[e].due = events'[f].due => e = f
    BY DEF IInv, DatesOK, Kept
  <2> QED BY <2>1, <2>2, <2>3, <2>4 DEF DatesOK, Kept
<1>5. ASSUME UNCHANGED <<app, missed>> PROVE KnownOK'
  <2>1. ASSUME NEW t \in Traders, NEW e \in app[t].known
        PROVE  /\ e \in DOMAIN events /\ events'[e].position = events[e].position
               /\ Alive(e)' => Alive(e)
    BY <1>1, <2>1 DEF IInv, QueuesOK, EventsOfTrader, Kept
  <2> QED BY <1>5, <2>1 DEF IInv, KnownOK
<1>6. ASSUME UNCHANGED <<app, missed, session, inbox, outbox, job>> PROVE HeardOK'
  <2>1. ASSUME NEW t \in Traders, NEW e \in EventsOfTrader(t)'
        PROVE  e \in EventsOfTrader(t) /\ (Alive(e)' => Alive(e))
    BY <1>1, <2>1 DEF EventsOfTrader
  <2> QED BY <1>6, <2>1 DEF IInv, HeardOK
<1> QED BY <1>2, <1>3, <1>4, <1>5, <1>6

\* A live row changes its state.
LEMMA RowStep ==
  ASSUME IInv, Kept, UNCHANGED <<job, app>>, NEW r \in DOMAIN positions,
         positions[r].state # "Closed", positions'[r].state # "Proposed",
         \A j \in DOMAIN positions \ {r} : positions'[j].state = positions[j].state
  PROVE  RowsOK'
<1>1. \A i \in DOMAIN positions : EventsOf(i)' = EventsOf(i)
  BY DEF IInv, RefsOK, Kept, EventsOf
<1>2. \A j \in DOMAIN positions : positions'[j].state # "Closed" => positions[j].state # "Closed"
  BY DEF Kept
<1>3. \A i, j \in DOMAIN positions :
        i < j /\ positions'[i].trader = positions'[j].trader => positions'[i].state = "Closed"
  BY DEF IInv, RowsOK, Kept
<1>4. ASSUME NEW i \in DOMAIN positions
      PROVE  /\ positions'[i].state = "Proposed" => EventsOf(i)' = {} /\ i \notin job'.todo
             /\ positions'[i].state # "Closed" =>
                  app'[positions'[i].trader].position \in {NoAppPosition, i}
  BY <1>1, <1>2, <1>4 DEF IInv, RowsOK, Kept
<1> QED BY <1>3, <1>4 DEF RowsOK, Kept

\* The sequence that SetToSeq makes of a finite set.
LEMMA SetToSeqFacts ==
  ASSUME NEW S, IsFiniteSet(S)
  PROVE  SetToSeq(S) \in Seq(S) /\ On(SetToSeq(S)) = S
<1> DEFINE n == Cardinality(S)
<1>1. n \in Nat /\ ExistsBijection(1..n, S)
  BY FS_CardinalityType
<1>2. PICK f : f \in Bijection(1..n, S)
  BY <1>1 DEF ExistsBijection
<1>3. f \in [1..n -> S] /\ IsInjective(f)
  BY <1>2 DEF Bijection, Injection
<1>4. SetToSeq(S) \in [1..n -> S] /\ IsInjective(SetToSeq(S))
  BY <1>3 DEF SetToSeq
<1>5. SetToSeq(S) \in Injection(1..n, S)
  BY <1>4 DEF Injection
<1>6. IsFiniteSet(1..n) /\ Cardinality(1..n) = n
  BY <1>1, FS_Interval
<1>7. SetToSeq(S) \in Surjection(1..n, S)
  BY <1>5, <1>6, FS_Injection
<1>8. \A x \in S : \E k \in 1..n : SetToSeq(S)[k] = x
  BY <1>7 DEF Surjection
<1>9. SetToSeq(S) \in Seq(S) /\ DOMAIN SetToSeq(S) = 1..n
  BY <1>1, <1>4
<1> QED BY <1>4, <1>8, <1>9 DEF On

-----------------------------------------------------------------------------
(* One lemma for each action *)

\* The clock: nothing is due later than it.
LEMMA TickStep ==
  ASSUME IInv, Tick
  PROVE  IInv'
<1>1. UNCHANGED <<rates, positions, events, links, protocols, job, outbox, session,
                 inbox, app, missed, faults>>
  BY DEF Tick, protocolVars, socketVars
<1>2. hour \in Nat /\ hour' \in 0..MaxHour /\ hour' = hour + 1
  BY FundingFeesAssumption DEF IInv, Tick, TypeOK
<1>3. TypeOK'
  BY <1>1, TypeFacts, <1>2 DEF IInv, TypeOK
<1>4. DatesOK'
  BY <1>1, TypeFacts, <1>2 DEF IInv, DatesOK, EventsOf
<1>5. RefsOK' /\ QueuesOK' /\ RowsOK' /\ ProgressOK' /\ KnownOK' /\ HeardOK'
  BY <1>1, Frame
<1> QED BY <1>3, <1>4, <1>5 DEF IInv

\* A new rate touches nothing else.
LEMMA RatesStep ==
  ASSUME IInv, NEW end_date \in 1..MaxHour, insert_funding_rates(end_date)
  PROVE  IInv'
<1>1. UNCHANGED <<hour, positions, events, links, protocols, job, outbox, session,
                 inbox, app, missed, faults>>
  BY DEF insert_funding_rates, protocolVars, socketVars
<1>2. rates' \subseteq FundingRate
  BY DEF IInv, insert_funding_rates, TypeOK, FundingRate
<1>3. TypeOK'
  BY <1>1, TypeFacts, <1>2 DEF IInv, TypeOK
<1>4. RefsOK' /\ QueuesOK' /\ RowsOK' /\ ProgressOK' /\ DatesOK' /\ KnownOK' /\ HeardOK'
  BY <1>1, Frame
<1> QED BY <1>3, <1>4 DEF IInv

\* The second step of a login.
LEMMA RegisterStep ==
  ASSUME IInv, NEW t \in Traders, Register(t)
  PROVE  IInv'
<1>1. UNCHANGED <<hour, rates, positions, events, links, protocols, job, outbox, inbox,
                 app, missed, faults>>
  BY DEF Register, protocolVars, socketVars
<1>2. session' \in [Traders -> Sessions] /\ \A u \in Traders : session'[u] # "offline" => session[u] # "offline"
  BY DEF IInv, Register, TypeOK, Sessions
<1>3. TypeOK'
  BY <1>1, TypeFacts, <1>2 DEF IInv, TypeOK
<1>4. HeardOK'
  BY <1>1, TypeFacts, <1>2 DEF IInv, HeardOK, EventsOfTrader, Alive
<1>5. RefsOK' /\ QueuesOK' /\ RowsOK' /\ ProgressOK' /\ DatesOK' /\ KnownOK'
  BY <1>1, Frame
<1> QED BY <1>3, <1>4, <1>5 DEF IInv

\* A lost connection takes the unread messages along; the next login sends them
\* again.
LEMMA LogoutStep ==
  ASSUME IInv, NEW t \in Traders, Logout(t)
  PROVE  IInv'
<1>1. UNCHANGED <<hour, rates, positions, events, links, protocols, job, outbox, app,
                 missed>>
  BY DEF Logout, protocolVars, socketVars
<1>2. /\ session' \in [Traders -> Sessions] /\ inbox' \in [Traders -> Seq(FeeMessage)]
      /\ faults' \in 0..MaxFaults
  BY FundingFeesAssumption DEF IInv, Logout, TypeOK, Sessions
<1>3. /\ session'[t] = "offline" /\ On(inbox'[t]) = {}
      /\ \A u \in Traders \ {t} : session'[u] = session[u] /\ inbox'[u] = inbox[u]
  BY DEF IInv, Logout, TypeOK, On
<1>4. TypeOK'
  BY <1>1, TypeFacts, <1>2, <1>3 DEF IInv, TypeOK
<1>5. QueuesOK'
  BY <1>1, TypeFacts, <1>2, <1>3 DEF IInv, QueuesOK, EventsOfTrader
<1>6. HeardOK'
  BY <1>1, TypeFacts, <1>2, <1>3 DEF IInv, HeardOK, EventsOfTrader, Alive
<1>7. RefsOK' /\ RowsOK' /\ ProgressOK' /\ DatesOK' /\ KnownOK'
  BY <1>1, Frame
<1> QED BY <1>4, <1>5, <1>6, <1>7 DEF IInv

\* After a restart nobody is connected and no job runs.
LEMMA RestartStep ==
  ASSUME IInv, Restart
  PROVE  IInv'
<1>1. UNCHANGED <<hour, rates, positions, events, links, protocols, app, missed>>
  BY DEF Restart, protocolVars, socketVars
<1>2. /\ session' \in [Traders -> Sessions] /\ inbox' \in [Traders -> Seq(FeeMessage)]
      /\ faults' \in 0..MaxFaults
  BY FundingFeesAssumption DEF IInv, Restart, TypeOK, Sessions
<1>3. /\ job' = NoJob /\ outbox' = <<>>
      /\ \A u \in Traders : session'[u] = "offline" /\ On(inbox'[u]) = {}
  BY DEF IInv, Restart, TypeOK, On
<1>4. /\ job'.todo = {} /\ job'.send = 0 /\ On(outbox') = {} /\ outbox' \in Seq(Nat)
      /\ job' \in [due : -1..MaxHour, todo : SUBSET (1..MaxPositions), send : Nat]
  BY <1>3, FundingFeesAssumption DEF NoJob, On
<1>5. TypeOK'
  BY <1>1, TypeFacts, <1>2, <1>3, <1>4 DEF IInv, TypeOK
<1>6. QueuesOK'
  BY <1>1, TypeFacts, <1>2, <1>3, <1>4 DEF IInv, QueuesOK, EventsOfTrader
<1>7. RowsOK'
  BY <1>1, TypeFacts, <1>2, <1>3, <1>4 DEF IInv, RowsOK, EventsOf
<1>8. DatesOK'
  BY <1>1, TypeFacts, <1>2, <1>3, <1>4 DEF IInv, DatesOK, EventsOf
<1>9. HeardOK'
  BY <1>1, TypeFacts, <1>2, <1>3, <1>4 DEF IInv, HeardOK, EventsOfTrader, Alive
<1>10. RefsOK' /\ ProgressOK' /\ KnownOK'
  BY <1>1, Frame
<1> QED BY <1>5, <1>6, <1>7, <1>8, <1>9, <1>10 DEF IInv

\* A job that fails had sent every event it had inserted.
LEMMA JobFailsStep ==
  ASSUME IInv, JobFails
  PROVE  IInv'
<1>1. UNCHANGED <<hour, rates, positions, events, links, protocols, outbox, session,
                 inbox, app, missed>>
  BY DEF JobFails, protocolVars, socketVars
<1>2. faults' \in 0..MaxFaults
  BY FundingFeesAssumption DEF IInv, JobFails, TypeOK
<1>3. /\ job'.todo = {} /\ job'.send = 0 /\ job.send = 0
      /\ job' \in [due : -1..MaxHour, todo : SUBSET (1..MaxPositions), send : Nat]
  BY FundingFeesAssumption DEF JobFails, NoJob
<1>4. TypeOK'
  BY <1>1, TypeFacts, <1>2, <1>3 DEF IInv, TypeOK
<1>5. QueuesOK'
  BY <1>1, TypeFacts, <1>2, <1>3 DEF IInv, QueuesOK, EventsOfTrader
<1>6. RowsOK'
  BY <1>1, TypeFacts, <1>2, <1>3 DEF IInv, RowsOK, EventsOf
<1>7. DatesOK'
  BY <1>1, TypeFacts, <1>2, <1>3 DEF IInv, DatesOK, EventsOf
<1>8. HeardOK'
  BY <1>1, TypeFacts, <1>2, <1>3 DEF IInv, HeardOK, EventsOfTrader, Alive
<1>9. RefsOK' /\ ProgressOK' /\ KnownOK'
  BY <1>1, Frame
<1> QED BY <1>4, <1>5, <1>6, <1>7, <1>8, <1>9 DEF IInv

\* The positions of a job are live and were created before its due date.
LEMMA StartJobStep ==
  ASSUME IInv, StartJob
  PROVE  IInv'
<1>1. UNCHANGED <<hour, rates, positions, events, links, protocols, outbox, session,
                 inbox, app, missed, faults>>
  BY DEF StartJob, protocolVars, socketVars
<1>2. /\ job'.due = hour /\ job'.send = 0 /\ job.send = 0
      /\ job'.todo = {i \in DOMAIN positions :
                        positions[i].state \in Active /\ positions[i].created < hour}
  BY DEF StartJob, NoJob, get_all_active_positions_open_before
<1>3. job' = [due |-> hour, todo |-> job'.todo, send |-> 0]
  BY DEF StartJob
<1>4. DOMAIN positions \subseteq 1..MaxPositions
  BY TypeFacts DEF IInv, RefsOK
<1>5. job' \in [due : -1..MaxHour, todo : SUBSET (1..MaxPositions), send : Nat]
  BY <1>2, <1>3, <1>4 DEF IInv, TypeOK
<1>6. TypeOK'
  BY <1>1, TypeFacts, <1>2, <1>3, <1>4, <1>5 DEF IInv, TypeOK
<1>7. QueuesOK'
  BY <1>1, TypeFacts, <1>2, <1>3, <1>4, <1>5 DEF IInv, QueuesOK, EventsOfTrader
<1>8. RowsOK'
  BY <1>1, <1>2 DEF IInv, RowsOK, EventsOf, Active
<1>9. DatesOK'
  <2>1. \A i \in job'.todo : positions[i].state # "Closed"
    BY <1>2 DEF Active
  <2> QED BY <1>1, <1>2, <2>1, TypeFacts DEF IInv, DatesOK, RowsOK, EventsOf
<1>10. HeardOK'
  BY <1>1, TypeFacts, <1>2, <1>3, <1>4, <1>5 DEF IInv, HeardOK, EventsOfTrader, Alive
<1>11. RefsOK' /\ ProgressOK' /\ KnownOK'
  BY <1>1, Frame
<1> QED BY <1>6, <1>7, <1>8, <1>9, <1>10, <1>11 DEF IInv

\* The event moves from the job to the messages.
LEMMA SendEventStep ==
  ASSUME IInv, SendEvent
  PROVE  IInv'
<1>1. UNCHANGED <<hour, rates, positions, events, links, protocols, session, inbox, app,
                 missed, faults>>
  BY DEF SendEvent, protocolVars, socketVars
<1>2. job.send \in DOMAIN events /\ job.send \in Nat
  BY DEF IInv, QueuesOK, SendEvent, TypeOK
<1>3. outbox \in Seq(Nat) /\ outbox' = Append(outbox, job.send)
  BY DEF IInv, TypeOK, SendEvent
<1>4. outbox' \in Seq(Nat) /\ On(outbox') = On(outbox) \union {job.send}
  BY <1>2, <1>3, OnAppend, AppendFacts
<1>5. /\ job'.send = 0 /\ job'.todo \subseteq job.todo
      /\ job'.todo # {} => job'.due = job.due
      /\ job' \in [due : -1..MaxHour, todo : SUBSET (1..MaxPositions), send : Nat]
  <2>1. PICK left : left = job.todo \ {events[job.send].position}
    OBVIOUS
  <2>2. left \subseteq job.todo /\ job' = AfterJob(left)
    BY <2>1 DEF SendEvent
  <2> QED BY <2>2, AfterJobFacts DEF IInv
<1>6. TypeOK'
  BY <1>1, TypeFacts, <1>2, <1>3, <1>4, <1>5 DEF IInv, TypeOK
<1>7. QueuesOK'
  BY <1>1, TypeFacts, <1>2, <1>3, <1>4, <1>5 DEF IInv, QueuesOK, EventsOfTrader
<1>8. RowsOK'
  BY <1>1, <1>5 DEF IInv, RowsOK, EventsOf
<1>9. DatesOK'
  BY <1>1, TypeFacts, <1>2, <1>3, <1>4, <1>5 DEF IInv, DatesOK, EventsOf
<1>10. HeardOK'
  BY <1>1, TypeFacts, <1>2, <1>3, <1>4, <1>5 DEF IInv, HeardOK, EventsOfTrader, Alive
<1>11. RefsOK' /\ ProgressOK' /\ KnownOK'
  BY <1>1, Frame
<1> QED BY <1>6, <1>7, <1>8, <1>9, <1>10, <1>11 DEF IInv

\* The event moves to the inbox of a connected trader, or is missed.
LEMMA DeliverStep ==
  ASSUME IInv, Deliver
  PROVE  IInv'
<1>1. UNCHANGED <<hour, rates, positions, events, links, protocols, job, session, app,
                 faults>>
  BY DEF Deliver, protocolVars, socketVars
<1>2. /\ outbox \in Seq(Nat) /\ outbox # <<>> /\ outbox' = Tail(outbox)
      /\ inbox \in [Traders -> Seq(FeeMessage)]
  BY DEF IInv, TypeOK, Deliver
<1>3. outbox' \in Seq(Nat) /\ On(outbox) = {Head(outbox)} \union On(outbox')
  BY <1>2, OnTail
<1>4. PICK e : e = Head(outbox)
  OBVIOUS
<1>5. e \in DOMAIN events /\ {e} \in FeeMessage
  <2>1. e \in DOMAIN events
    BY <1>3, <1>4 DEF IInv, QueuesOK
  <2>2. e \in Nat
    BY <2>1, TypeFacts DEF IInv
  <2> QED BY <2>1, <2>2 DEF FeeMessage
<1>6. PICK t \in Traders : t = positions[events[e].position].trader
  BY <1>5, TypeFacts DEF IInv, RefsOK
<1>7. /\ inbox' = IF session[t] = "registered" THEN [inbox EXCEPT ![t] = Append(inbox[t], {e})]
                 ELSE inbox
      /\ missed' = IF session[t] = "login" THEN missed \union {e} ELSE missed
  BY <1>4, <1>6 DEF Deliver
<1>8. /\ Append(inbox[t], {e}) \in Seq(FeeMessage)
      /\ On(Append(inbox[t], {e})) = On(inbox[t]) \union {{e}}
  <2>1. inbox[t] \in Seq(FeeMessage)
    BY <1>2, <1>6
  <2>2. Append(inbox[t], {e}) \in Seq(FeeMessage)
    BY <1>5, <2>1, AppendFacts
  <2>3. On(Append(inbox[t], {e})) = On(inbox[t]) \union {{e}}
    BY <1>5, <2>1, OnAppend, Zenon
  <2> QED BY <2>2, <2>3
<1>9. /\ inbox' \in [Traders -> Seq(FeeMessage)]
      /\ \A u \in Traders \ {t} : inbox'[u] = inbox[u]
      /\ session[t] = "registered" => On(inbox'[t]) = On(inbox[t]) \union {{e}}
      /\ session[t] # "registered" => inbox'[t] = inbox[t]
  BY <1>2, <1>7, <1>8
<1>10. /\ missed' \subseteq DOMAIN events /\ missed \subseteq missed'
       /\ session[t] = "login" => e \in missed'
  BY <1>5, <1>7 DEF IInv, TypeOK
<1>11. session[t] \in Sessions
  BY DEF IInv, TypeOK
<1>12. TypeOK'
  BY <1>1, TypeFacts, <1>2, <1>3, <1>4, <1>5, <1>6, <1>7, <1>8, <1>9, <1>10, <1>11 DEF
     IInv, TypeOK
<1>13. QueuesOK'
  <2>1. e \in EventsOfTrader(t)
    BY <1>5, <1>6 DEF EventsOfTrader
  <2>2. ASSUME NEW u \in Traders PROVE UNION On(inbox'[u]) \subseteq EventsOfTrader(u)
    BY <1>9, <2>1 DEF IInv, QueuesOK
  <2> QED BY <1>1, <1>3, <2>2 DEF IInv, QueuesOK, EventsOfTrader
<1>14. KnownOK'
  <2>1. missed \subseteq missed'
    BY <1>10
  <2> QED BY <1>1, <2>1, Zenon DEF IInv, KnownOK, Alive
<1>15. HeardOK'
  <2>1. ASSUME NEW u \in Traders, session[u] # "offline",
               NEW f \in EventsOfTrader(u), Alive(f)
        PROVE  \/ f \in app[u].known \union missed'
               \/ f \in UNION On(inbox'[u])
               \/ f \in On(outbox') \union {job.send}
    <3>1. CASE f = e
      <4>1. u = t
        BY <1>6, <2>1, <3>1 DEF EventsOfTrader
      <4>2. CASE session[t] = "registered"
        <5>1. {e} \in On(inbox'[t])
          BY <1>9, <4>2
        <5> QED BY <3>1, <4>1, <5>1, Zenon
      <4>3. CASE session[t] = "login"
        BY <1>10, <3>1, <4>3
      <4> QED BY <1>11, <2>1, <4>1, <4>2, <4>3 DEF Sessions
    <3>2. CASE f # e
      <4>1. On(inbox[u]) \subseteq On(inbox'[u])
        <5>1. CASE u = t
          BY <1>9, <5>1
        <5>2. CASE u # t
          BY <1>9, <5>2
        <5> QED BY <5>1, <5>2
      <4> QED BY <1>3, <1>4, <1>10, <2>1, <3>2, <4>1 DEF IInv, HeardOK
    <3> QED BY <3>1, <3>2
  <2> QED BY <1>1, <2>1 DEF HeardOK, EventsOfTrader, Alive
<1>16. RefsOK' /\ RowsOK' /\ ProgressOK' /\ DatesOK'
  BY <1>1, Frame
<1> QED BY <1>12, <1>13, <1>14, <1>15, <1>16 DEF IInv

\* A login sends every event of the live row, or counts it as missed.
LEMMA LoginStep ==
  ASSUME IInv, NEW t \in Traders, Login(t)
  PROVE  IInv'
<1>1. UNCHANGED <<hour, rates, positions, events, links, protocols, job, outbox, app,
                 faults>>
  BY DEF Login, protocolVars, socketVars
<1>2. /\ inbox \in [Traders -> Seq(FeeMessage)] /\ session \in [Traders -> Sessions]
  BY DEF IInv, TypeOK
<1>3. PICK m : m = get_funding_fee_events_for_active_trader_positions(t)
  OBVIOUS
<1>4. /\ m \in FeeMessage /\ m \subseteq EventsOfTrader(t)
      /\ m = {e \in EventsOfTrader(t) : positions[events[e].position].state \in Active}
  BY <1>3, TypeFacts DEF IInv, EventsOfTrader, FeeMessage,
     get_funding_fee_events_for_active_trader_positions
<1>5. /\ session' = [session EXCEPT ![t] = "login"]
      /\ inbox' = [inbox EXCEPT ![t] = Append(inbox[t], m)]
      /\ missed' = missed \union {e \in EventsOfTrader(t) :
                                    positions[events[e].position].state = "Closing"}
  BY <1>3 DEF Login
<1>6. /\ Append(inbox[t], m) \in Seq(FeeMessage)
      /\ On(Append(inbox[t], m)) = On(inbox[t]) \union {m}
  <2>1. inbox[t] \in Seq(FeeMessage)
    BY <1>2
  <2>2. Append(inbox[t], m) \in Seq(FeeMessage)
    BY <1>4, <2>1, AppendFacts
  <2>3. On(Append(inbox[t], m)) = On(inbox[t]) \union {m}
    BY <1>4, <2>1, OnAppend, Zenon
  <2> QED BY <2>2, <2>3
<1>7. /\ inbox' \in [Traders -> Seq(FeeMessage)] /\ session' \in [Traders -> Sessions]
      /\ \A u \in Traders \ {t} : inbox'[u] = inbox[u] /\ session'[u] = session[u]
      /\ On(inbox'[t]) = On(inbox[t]) \union {m}
  BY <1>2, <1>5, <1>6 DEF Sessions
<1>8. missed' \subseteq DOMAIN events /\ missed \subseteq missed'
  BY <1>5 DEF IInv, TypeOK, EventsOfTrader
<1>9. TypeOK'
  BY <1>1, TypeFacts, <1>2, <1>3, <1>4, <1>5, <1>6, <1>7, <1>8 DEF IInv, TypeOK
<1>10. QueuesOK'
  <2>1. ASSUME NEW u \in Traders PROVE UNION On(inbox'[u]) \subseteq EventsOfTrader(u)
    BY <1>4, <1>7 DEF IInv, QueuesOK
  <2> QED BY <1>1, <2>1 DEF IInv, QueuesOK, EventsOfTrader
<1>11. KnownOK'
  BY <1>1, <1>8 DEF IInv, KnownOK, Alive
<1>12. HeardOK'
  <2>1. ASSUME NEW u \in Traders, session'[u] # "offline",
               NEW e \in EventsOfTrader(u), Alive(e)
        PROVE  \/ e \in app[u].known \union missed'
               \/ e \in UNION On(inbox'[u])
               \/ e \in On(outbox) \union {job.send}
    <3>1. CASE u # t
      BY <1>7, <1>8, <2>1, <3>1 DEF IInv, HeardOK
    <3>2. CASE u = t
      <4>1. /\ e \in DOMAIN events /\ positions[events[e].position].state \in PositionStates
            /\ positions[events[e].position].state # "Closed"
        BY <2>1, TypeFacts DEF IInv, RefsOK, EventsOfTrader, Alive
      <4>2. positions[events[e].position].state # "Proposed"
        BY <4>1 DEF IInv, RefsOK, RowsOK, EventsOf
      <4>3. positions[events[e].position].state \in Active \union {"Closing"}
        BY <4>1, <4>2 DEF Active, PositionStates
      <4> QED BY <1>4, <1>5, <1>7, <2>1, <3>2, <4>3
    <3> QED BY <3>1, <3>2
  <2> QED BY <1>1, <2>1 DEF HeardOK, EventsOfTrader, Alive
<1>13. RefsOK' /\ RowsOK' /\ ProgressOK' /\ DatesOK'
  BY <1>1, Frame
<1> QED BY <1>9, <1>10, <1>11, <1>12, <1>13 DEF IInv

\* A new event is the one the job sends next; its position has no other of that
\* date.
LEMMA InsertStep ==
  ASSUME IInv, NEW i \in DOMAIN positions, insert(i)
  PROVE  IInv'
<1>1. UNCHANGED <<hour, rates, positions, links, protocols, outbox, session, inbox, app, missed,
                  faults>>
  BY DEF insert, protocolVars, socketVars
<1>2. i \in job.todo /\ job.send = 0
  BY DEF insert
<1>3. CASE Exists(i, job.due)
  <2>1. events' = events /\ job' = AfterJob(job.todo \ {i})
    BY <1>3 DEF insert
  <2>2. /\ job'.send = 0 /\ job'.todo \subseteq job.todo
        /\ job'.todo # {} => job'.due = job.due
        /\ job' \in [due : -1..MaxHour, todo : SUBSET (1..MaxPositions), send : Nat]
    <3>1. PICK left : left = job.todo \ {i}
      OBVIOUS
    <3>2. left \subseteq job.todo /\ job' = AfterJob(left)
      BY <2>1, <3>1
    <3> QED BY <3>2, AfterJobFacts DEF IInv
  <2>3. TypeOK'
    BY <1>1, <2>1, <2>2 DEF IInv, TypeOK
  <2>4. QueuesOK'
    BY <1>1, <2>1, <2>2 DEF IInv, QueuesOK, EventsOfTrader
  <2>5. RowsOK'
    BY <1>1, <2>1, <2>2 DEF IInv, RowsOK, EventsOf
  <2>6. DatesOK'
    BY <1>1, <2>1, <2>2, TypeFacts DEF IInv, DatesOK, EventsOf
  <2>7. HeardOK'
    BY <1>1, <1>2, <2>1, <2>2 DEF IInv, HeardOK, EventsOfTrader, Alive
  <2>8. RefsOK' /\ ProgressOK' /\ KnownOK'
    BY <1>1, <2>1, Frame
  <2> QED BY <2>3, <2>4, <2>5, <2>6, <2>7, <2>8 DEF IInv
<1>4. CASE ~Exists(i, job.due)
  <2> DEFINE n == Len(events) + 1
             r == [position |-> i, due |-> job.due, paid |-> FALSE]
  <2>1. events' = Append(events, r) /\ job' = [job EXCEPT !.send = n]
    BY <1>4 DEF insert
  <2>2. /\ i \in 1..MaxPositions /\ job.due \in 0..hour /\ hour \in 0..MaxHour
        /\ job.due > positions[i].created
    BY <1>2, TypeFacts DEF IInv, RefsOK, DatesOK, TypeOK
  <2>3. r \in FundingFeeEvent /\ events \in Seq(FundingFeeEvent)
    BY <2>2, TypeFacts DEF IInv, FundingFeeEvent
  <2>4. /\ events' \in Seq(FundingFeeEvent) /\ Len(events) \in Nat /\ Len(events') = n
        /\ DOMAIN events = 1..Len(events) /\ DOMAIN events' = DOMAIN events \union {n}
        /\ \A e \in DOMAIN events : events'[e] = events[e]
        /\ events'[n] = r
    BY <2>1, <2>3, AppendFacts
  <2>5. n \in Nat /\ n \notin DOMAIN events /\ 0 \notin DOMAIN events'
    BY <2>4
  <2>6. /\ job'.due = job.due /\ job'.todo = job.todo /\ job'.send = n
        /\ job' \in [due : -1..MaxHour, todo : SUBSET (1..MaxPositions), send : Nat]
    BY <2>1, <2>5 DEF IInv, TypeOK
  <2>7. events'[n].position = i /\ events'[n].due = job.due
    BY <2>4
  <2> HIDE DEF n, r
  <2>8. /\ \A e \in DOMAIN events : events[e].position \in DOMAIN positions
        /\ \A j \in DOMAIN positions : j # i => EventsOf(j)' = EventsOf(j)
        /\ EventsOf(i)' = EventsOf(i) \union {n}
    BY <1>1, <2>4, <2>7 DEF IInv, RefsOK, EventsOf
  <2>9. /\ \A t \in Traders : EventsOfTrader(t) \subseteq EventsOfTrader(t)'
        /\ \A t \in Traders : EventsOfTrader(t)' \subseteq EventsOfTrader(t) \union {n}
        /\ \A e \in DOMAIN events : Alive(e)' <=> Alive(e)
    BY <1>1, <2>4, <2>8 DEF EventsOfTrader, Alive
  <2>10. TypeOK'
    BY <1>1, <2>4, <2>6 DEF IInv, TypeOK
  <2>11. RefsOK'
    <3>1. \A p \in DOMAIN protocols : protocols[p].seen <= Len(events')
      BY <2>4, TypeFacts DEF IInv, RefsOK, n
    <3> QED BY <1>1, <2>4, <2>7, <2>8, <3>1 DEF IInv, RefsOK
  <2>12. QueuesOK'
    BY <1>1, <2>4, <2>6, <2>9 DEF IInv, QueuesOK
  <2>13. RowsOK'
    BY <1>1, <1>2, <2>6, <2>8 DEF IInv, RowsOK
  <2>14. ProgressOK'
    BY <1>1, Frame
  <2>15. DatesOK'
    <3>1. \A e \in DOMAIN events' : /\ events'[e].due <= hour'
                                    /\ events'[e].due > positions'[events'[e].position].created
      BY <1>1, <2>2, <2>4, <2>7 DEF IInv, DatesOK
    <3>2. ASSUME NEW k \in DOMAIN positions, NEW j \in DOMAIN positions,
                 k < j, positions[k].trader = positions[j].trader
          PROVE  /\ \A e \in EventsOf(k)' : events'[e].due <= positions'[j].created
                 /\ k \in job'.todo => job'.due <= positions'[j].created
      <4>1. \A e \in EventsOf(k) : e \in DOMAIN events /\ events'[e].due = events[e].due
        BY <2>4 DEF EventsOf
      <4>2. \A e \in EventsOf(k)' : e \in EventsOf(k) \/ (e = n /\ k = i)
        BY <2>8
      <4> QED BY <1>1, <1>2, <2>6, <2>7, <3>2, <4>1, <4>2 DEF IInv, DatesOK
    <3>3. ASSUME NEW e \in DOMAIN events', NEW f \in DOMAIN events',
                 events'[e].position = events'[f].position, events'[e].due = events'[f].due
          PROVE  e = f
      <4>1. \A g \in DOMAIN events : ~(events[g].position = i /\ events[g].due = job.due)
        BY <1>4 DEF Exists, EventsOf
      <4> QED BY <2>4, <2>7, <3>3, <4>1 DEF IInv, DatesOK
    <3> QED BY <1>1, <2>6, <3>1, <3>2, <3>3 DEF IInv, DatesOK
  <2>16. KnownOK'
    <3>1. \A t \in Traders : \A e \in app[t].known : e \in DOMAIN events
      BY DEF IInv, QueuesOK, EventsOfTrader
    <3> QED BY <1>1, <2>4, <2>9, <3>1 DEF IInv, KnownOK
  <2>17. HeardOK'
    <3>1. ASSUME NEW t \in Traders, session[t] # "offline",
                 NEW e \in EventsOfTrader(t)', Alive(e)'
          PROVE  \/ e \in app[t].known \union missed
                 \/ e \in UNION On(inbox[t])
                 \/ e \in On(outbox) \union {n}
      <4>1. CASE e = n
        BY <4>1
      <4>2. CASE e # n
        <5>1. e \in EventsOfTrader(t) /\ e \in DOMAIN events
          BY <2>9, <3>1, <4>2 DEF EventsOfTrader
        <5>2. Alive(e) /\ e # job.send
          BY <1>2, <2>4, <2>9, <3>1, <5>1
        <5> QED BY <3>1, <5>1, <5>2 DEF IInv, HeardOK
      <4> QED BY <4>1, <4>2
    <3> QED BY <1>1, <2>6, <3>1 DEF HeardOK
  <2> QED BY <2>10, <2>11, <2>12, <2>13, <2>14, <2>15, <2>16, <2>17 DEF IInv
<1> QED BY <1>3, <1>4

\* A new row is created at or after the due dates of everything before it.
LEMMA PersistStep ==
  ASSUME IInv, NEW t \in Traders, persist_position(t)
  PROVE  IInv'
<1>0. PICK n : n = Len(positions) + 1
  OBVIOUS
<1> DEFINE r == [trader |-> t, state |-> "Proposed", created |-> hour]
<1>1. UNCHANGED <<hour, rates, events, links, protocols, job, outbox, session, inbox, app, missed,
                  faults>>
  BY DEF persist_position, socketVars
<1>2. /\ positions' = Append(positions, r) /\ Len(positions) < MaxPositions
      /\ LiveRow(t) = {} /\ app[t].position = NoAppPosition
  BY DEF persist_position
<1>3. r \in Row /\ positions \in Seq(Row)
  BY TypeFacts DEF IInv, TypeOK, Row, PositionStates
<1>4. /\ positions' \in Seq(Row) /\ Len(positions) \in Nat /\ Len(positions') = n
      /\ DOMAIN positions = 1..Len(positions) /\ DOMAIN positions' = DOMAIN positions \union {n}
      /\ \A j \in DOMAIN positions : positions'[j] = positions[j]
      /\ positions'[n] = r
  BY <1>0, <1>2, <1>3, AppendFacts
<1>5. /\ n \in Nat /\ n \notin DOMAIN positions /\ \A j \in DOMAIN positions : j < n
      /\ positions'[n].trader = t /\ positions'[n].state = "Proposed"
      /\ positions'[n].created = hour
  BY <1>0, <1>4
<1> HIDE DEF r
<1>6. \A i \in DOMAIN positions : positions[i].trader = t => positions[i].state = "Closed"
  BY <1>2 DEF LiveRow
<1>7. /\ \A e \in DOMAIN events : events[e].position \in DOMAIN positions
      /\ \A e \in DOMAIN events : positions'[events[e].position] = positions[events[e].position]
      /\ \A p \in DOMAIN protocols : protocols[p].position \in DOMAIN positions
      /\ \A p \in DOMAIN protocols :
           positions'[protocols[p].position] = positions[protocols[p].position]
      /\ job.todo \subseteq DOMAIN positions
  BY <1>4 DEF IInv, RefsOK, QueuesOK
<1>8. /\ \A u \in Traders : EventsOfTrader(u)' = EventsOfTrader(u)
      /\ \A j \in DOMAIN positions : EventsOf(j)' = EventsOf(j)
      /\ EventsOf(n)' = {}
      /\ \A e \in DOMAIN events : Alive(e)' <=> Alive(e)
  BY <1>1, <1>5, <1>7 DEF EventsOfTrader, EventsOf, Alive
<1>9. TypeOK'
  BY <1>1, <1>4 DEF IInv, TypeOK, Row
<1>10. RefsOK'
  <2>1. Len(positions') <= MaxPositions
    BY <1>0, <1>2, <1>4, TypeFacts DEF IInv
  <2> QED BY <1>1, <1>4, <1>7, <1>8, <2>1 DEF IInv, RefsOK
<1>11. QueuesOK'
  BY <1>1, <1>4, <1>8 DEF IInv, QueuesOK
<1>12. RowsOK'
  <2>1. ASSUME NEW i \in DOMAIN positions', NEW j \in DOMAIN positions',
               i < j, positions'[i].trader = positions'[j].trader
        PROVE  positions'[i].state = "Closed"
    <3>1. i # n
      BY <1>4, <1>5, <2>1, TypeFacts DEF IInv
    <3>2. i \in DOMAIN positions /\ positions'[i] = positions[i]
      BY <1>4, <3>1
    <3> QED BY <1>4, <1>5, <1>6, <2>1, <3>2 DEF IInv, RowsOK
  <2>2. ASSUME NEW i \in DOMAIN positions'
        PROVE  /\ positions'[i].state = "Proposed" => EventsOf(i)' = {} /\ i \notin job'.todo
               /\ positions'[i].state # "Closed" =>
                    app'[positions'[i].trader].position \in {NoAppPosition, i}
    <3>1. CASE i = n
      BY <1>1, <1>2, <1>5, <1>7, <1>8, <3>1
    <3>2. CASE i # n
      BY <1>1, <1>4, <1>8, <3>2 DEF IInv, RowsOK
    <3> QED BY <3>1, <3>2
  <2> QED BY <2>1, <2>2 DEF RowsOK
<1>13. ProgressOK'
  BY <1>1, <1>7 DEF IInv, ProgressOK, InProgress, Unfinished
<1>14. DatesOK'
  <2>1. \A i \in DOMAIN positions' : positions'[i].created <= hour'
    BY <1>1, <1>4, <1>5, TypeFacts DEF IInv, DatesOK
  <2>2. \A e \in DOMAIN events' : /\ events'[e].due <= hour'
                                  /\ events'[e].due > positions'[events'[e].position].created
    BY <1>1, <1>7 DEF IInv, DatesOK
  <2>3. /\ job'.todo # {} => job'.due \in 0..hour'
        /\ \A i \in job'.todo : job'.due > positions'[i].created
    BY <1>1, <1>4, <1>7 DEF IInv, DatesOK
  <2>4. ASSUME NEW i \in DOMAIN positions', NEW j \in DOMAIN positions',
               i < j, positions'[i].trader = positions'[j].trader
        PROVE  /\ \A e \in EventsOf(i)' : events'[e].due <= positions'[j].created
               /\ i \in job'.todo => job'.due <= positions'[j].created
    <3>1. i # n
      BY <1>4, <1>5, <2>4, TypeFacts DEF IInv
    <3>2. i \in DOMAIN positions /\ positions'[i] = positions[i] /\ EventsOf(i)' = EventsOf(i)
      BY <1>4, <1>8, <3>1
    <3>3. CASE j = n
      <4>1. \A e \in EventsOf(i) : e \in DOMAIN events
        BY DEF EventsOf
      <4>2. \A e \in EventsOf(i) : events[e].due <= hour
        BY <4>1 DEF IInv, DatesOK
      <4>3. i \in job.todo => job.due <= hour
        BY TypeFacts DEF IInv, DatesOK
      <4> QED BY <1>1, <1>5, <3>2, <3>3, <4>2, <4>3
    <3>4. CASE j # n
      BY <1>1, <1>4, <2>4, <3>2, <3>4 DEF IInv, DatesOK
    <3> QED BY <3>3, <3>4
  <2> QED BY <1>1, <2>1, <2>2, <2>3, <2>4 DEF IInv, DatesOK
<1>15. KnownOK'
  <2>1. \A u \in Traders : \A e \in app[u].known : e \in DOMAIN events
    BY DEF IInv, QueuesOK, EventsOfTrader
  <2> QED BY <1>1, <1>8, <2>1 DEF IInv, KnownOK
<1>16. HeardOK'
  <2>1. \A u \in Traders : \A e \in EventsOfTrader(u) : e \in DOMAIN events
    BY DEF EventsOfTrader
  <2> QED BY <1>1, <1>8, <2>1 DEF IInv, HeardOK
<1> QED BY <1>9, <1>10, <1>11, <1>12, <1>13, <1>14, <1>15, <1>16 DEF IInv

\* What marking the events of a protocol as paid leaves as it is.
LEMMA MarkFacts ==
  ASSUME TypeOK, NEW p, mark_funding_fee_event_as_paid(p)
  PROVE  /\ events' \in Seq(FundingFeeEvent) /\ links' \in Seq(ProtocolFundingFeeEvent)
         /\ DOMAIN events' = DOMAIN events /\ Len(events') = Len(events)
         /\ \A e \in DOMAIN events : /\ events'[e].position = events[e].position
                                     /\ events'[e].due = events[e].due
                                     /\ events'[e].paid <=> events[e].paid \/ e \in PaidBy(p)
         /\ DOMAIN links' = DOMAIN links
         /\ \A k \in DOMAIN links : /\ links'[k].protocol = links[k].protocol
                                    /\ links'[k].event = links[k].event
                                    /\ links'[k].deleted <=> links[k].deleted \/ k \in PaidBy(p)
<1>1. PICK paid : paid = PaidBy(p)
  OBVIOUS
<1>2. /\ events' = [e \in DOMAIN events |-> [events[e] EXCEPT !.paid = @ \/ e \in paid]]
      /\ links' = [k \in DOMAIN links |-> [links[k] EXCEPT !.deleted = @ \/ k \in paid]]
  BY <1>1 DEF mark_funding_fee_event_as_paid
<1>3. /\ events \in Seq(FundingFeeEvent) /\ links \in Seq(ProtocolFundingFeeEvent)
  BY DEF TypeOK
<1>4. ASSUME NEW e \in DOMAIN events
      PROVE  /\ events'[e] \in FundingFeeEvent
             /\ events'[e].position = events[e].position
             /\ events'[e].due = events[e].due
             /\ events'[e].paid <=> events[e].paid \/ e \in paid
  <2>1. events'[e] = [events[e] EXCEPT !.paid = @ \/ e \in paid] /\ events[e] \in FundingFeeEvent
    BY <1>2, <1>3
  <2> QED BY <2>1 DEF FundingFeeEvent
<1>5. ASSUME NEW k \in DOMAIN links
      PROVE  /\ links'[k] \in ProtocolFundingFeeEvent
             /\ links'[k].protocol = links[k].protocol
             /\ links'[k].event = links[k].event
             /\ links'[k].deleted <=> links[k].deleted \/ k \in paid
  <2>1. /\ links'[k] = [links[k] EXCEPT !.deleted = @ \/ k \in paid]
        /\ links[k] \in ProtocolFundingFeeEvent
    BY <1>2, <1>3
  <2> QED BY <2>1 DEF ProtocolFundingFeeEvent
<1>6. /\ DOMAIN events' = 1..Len(events) /\ DOMAIN links' = 1..Len(links)
      /\ DOMAIN events = 1..Len(events) /\ DOMAIN links = 1..Len(links)
      /\ Len(events) \in Nat /\ Len(links) \in Nat
  BY <1>2, <1>3
<1>7. events' \in [1..Len(events) -> FundingFeeEvent]
  BY <1>2, <1>4, <1>6
<1>8. links' \in [1..Len(links) -> ProtocolFundingFeeEvent]
  BY <1>2, <1>5, <1>6
<1>9. events' \in Seq(FundingFeeEvent) /\ Len(events') = Len(events)
  BY <1>6, <1>7
<1>10. links' \in Seq(ProtocolFundingFeeEvent)
  BY <1>6, <1>8
<1> QED BY <1>1, <1>4, <1>5, <1>6, <1>9, <1>10

\* A protocol that is not yet finished changes its state, and the row of its
\* position with it.
LEMMA ProtocolStep ==
  ASSUME IInv, Kept, UNCHANGED app, NEW p \in DOMAIN protocols, Unfinished(p),
         NEW st \in ProtocolStates, protocols' = [protocols EXCEPT ![p].state = st],
         NEW r \in DOMAIN positions, r = protocols[p].position,
         \A j \in DOMAIN positions \ {r} : positions'[j].state = positions[j].state,
         st \in {"offered", "started", "pending", "accepted"} =>
           positions'[r].state \notin {"Proposed", "Closed"},
         protocols[p].kind = "Settle" /\ st = "success" => positions'[r].state = "Closed"
  PROVE  RefsOK' /\ ProgressOK'
<1>1. /\ DOMAIN protocols' = DOMAIN protocols /\ Len(protocols') = Len(protocols)
      /\ \A q \in DOMAIN protocols : /\ protocols'[q].kind = protocols[q].kind
                                     /\ protocols'[q].position = protocols[q].position
                                     /\ protocols'[q].charged = protocols[q].charged
                                     /\ protocols'[q].seen = protocols[q].seen
                                     /\ q # p => protocols'[q].state = protocols[q].state
      /\ protocols'[p].state = st
  BY SetProtocol DEF IInv
<1>2. RefsOK'
  BY <1>1, KeptStep
<1>3. InProgress(p)
  BY DEF InProgress, Unfinished
<1>4. \A q \in DOMAIN protocols : q # p /\ protocols[q].position = r => ~InProgress(q)
  BY <1>3 DEF IInv, ProgressOK
<1>5. \A q \in DOMAIN protocols : InProgress(q)' => InProgress(q)
  BY <1>1, <1>3 DEF InProgress
<1>6. \A q \in DOMAIN protocols : /\ protocols[q].position \in DOMAIN positions
                                  /\ positions'[protocols'[q].position].trader =
                                       positions[protocols[q].position].trader
  BY <1>1 DEF IInv, RefsOK, Kept
<1>7. ASSUME NEW q \in DOMAIN protocols
      PROVE  /\ Unfinished(q)' =>
                  positions'[protocols'[q].position].state \notin {"Proposed", "Closed"}
             /\ protocols'[q].kind = "Settle" /\ protocols'[q].state = "success" =>
                  positions'[protocols'[q].position].state = "Closed"
  <2>1. CASE q = p
    BY <1>1, <2>1 DEF Unfinished
  <2>2. CASE q # p /\ protocols[q].position = r
    BY <1>1, <1>4, <2>2 DEF Unfinished, InProgress
  <2>3. CASE q # p /\ protocols[q].position # r
    BY <1>1, <1>6, <2>3 DEF IInv, ProgressOK, Unfinished
  <2> QED BY <2>1, <2>2, <2>3
<1>8. ProgressOK'
  BY <1>1, <1>5, <1>6, <1>7 DEF IInv, ProgressOK
<1> QED BY <1>2, <1>8

\* The row of a new position is opened.
LEMMA OpenStep ==
  ASSUME IInv, NEW i \in DOMAIN positions, finish_open_position(i)
  PROVE  IInv'
<1>1. UNCHANGED <<hour, rates, events, links, protocols, job, outbox, session, inbox, app, missed,
                  faults>>
  BY DEF finish_open_position, socketVars
<1>2. /\ positions[i].state = "Proposed" /\ "Open" \in PositionStates
      /\ positions' = [positions EXCEPT ![i].state = "Open"]
  BY DEF finish_open_position, PositionStates
<1>3. /\ positions' \in Seq(Row) /\ DOMAIN positions' = DOMAIN positions
      /\ Len(positions') = Len(positions)
      /\ \A j \in DOMAIN positions : /\ positions'[j].trader = positions[j].trader
                                     /\ positions'[j].created = positions[j].created
                                     /\ j # i => positions'[j].state = positions[j].state
      /\ positions'[i].state = "Open"
  BY <1>2, SetState DEF IInv
<1>4. Kept
  BY <1>1, <1>2, <1>3 DEF Kept
<1>5. TypeOK'
  BY <1>1, <1>3 DEF IInv, TypeOK, Row
<1>6. RefsOK' /\ QueuesOK' /\ DatesOK' /\ KnownOK' /\ HeardOK'
  BY <1>1, <1>4, KeptStep
<1>7. RowsOK'
  BY <1>1, <1>2, <1>3, <1>4, RowStep
<1>8. ProgressOK'
  <2>1. \A p \in DOMAIN protocols : protocols[p].position \in DOMAIN positions
    BY DEF IInv, RefsOK
  <2> QED BY <1>1, <1>2, <1>3, <2>1 DEF IInv, ProgressOK, InProgress, Unfinished
<1> QED BY <1>5, <1>6, <1>7, <1>8 DEF IInv

\* The row of a position becomes busy.
LEMMA UpdateStep ==
  ASSUME IInv, NEW p \in DOMAIN protocols, UpdatePosition(p)
  PROVE  IInv'
<1>1. UNCHANGED <<hour, rates, events, links, job, outbox, session, inbox, app, missed, faults>>
  BY DEF UpdatePosition, socketVars
<1>2. PICK r \in DOMAIN positions : r = protocols[p].position
  BY DEF IInv, RefsOK
<1>3. PICK st : st = Busy(protocols[p].kind)
  OBVIOUS
<1>4. st \in {"Resizing", "Closing", "Rollover"}
  BY <1>3, TypeFacts DEF IInv, Kinds, Busy
<1>5. /\ protocols[p].state = "started" /\ protocols' = [protocols EXCEPT ![p].state = "pending"]
      /\ positions' = [positions EXCEPT ![r].state = st]
      /\ "pending" \in ProtocolStates /\ st \in PositionStates
  BY <1>2, <1>3, <1>4 DEF UpdatePosition, ProtocolStates, PositionStates
<1>6. Unfinished(p) /\ positions[r].state \notin {"Proposed", "Closed"}
  BY <1>2, <1>5 DEF IInv, ProgressOK, Unfinished
<1>7. /\ positions' \in Seq(Row) /\ DOMAIN positions' = DOMAIN positions
      /\ Len(positions') = Len(positions)
      /\ \A j \in DOMAIN positions : /\ positions'[j].trader = positions[j].trader
                                     /\ positions'[j].created = positions[j].created
                                     /\ j # r => positions'[j].state = positions[j].state
      /\ positions'[r].state = st
  BY <1>5, SetState DEF IInv
<1>8. Kept
  BY <1>1, <1>6, <1>7 DEF Kept
<1>9. protocols' \in Seq(Protocol)
  BY <1>5, SetProtocol DEF IInv
<1>10. TypeOK'
  BY <1>1, <1>7, <1>9 DEF IInv, TypeOK, Row, Protocol
<1>11. RefsOK' /\ ProgressOK'
  <2>1. UNCHANGED app /\ \A j \in DOMAIN positions \ {r} : positions'[j].state = positions[j].state
    BY <1>1, <1>7
  <2>2. PICK ps \in ProtocolStates : ps = "pending"
    BY <1>5
  <2>3. /\ ps \in {"offered", "started", "pending", "accepted"} =>
             positions'[r].state \notin {"Proposed", "Closed"}
        /\ protocols[p].kind = "Settle" /\ ps = "success" => positions'[r].state = "Closed"
        /\ protocols' = [protocols EXCEPT ![p].state = ps]
    BY <1>4, <1>5, <1>7, <2>2
  <2> QED BY <1>2, <1>6, <1>8, <2>1, <2>2, <2>3, ProtocolStep
<1>12. QueuesOK' /\ DatesOK' /\ KnownOK' /\ HeardOK'
  BY <1>1, <1>8, KeptStep
<1>13. RowsOK'
  BY <1>1, <1>4, <1>6, <1>7, <1>8, RowStep
<1> QED BY <1>10, <1>11, <1>12, <1>13 DEF IInv

\* A protocol fails.
LEMMA RejectStep ==
  ASSUME IInv, NEW p \in DOMAIN protocols, AppRejects(p)
  PROVE  IInv'
<1>1. UNCHANGED <<hour, rates, events, links, job, outbox, session, inbox, app, missed, faults>>
  BY DEF AppRejects, socketVars
<1>2. PICK r \in DOMAIN positions : r = protocols[p].position
  BY DEF IInv, RefsOK
<1>3. /\ protocols[p].state = "pending" /\ protocols' = [protocols EXCEPT ![p].state = "failed"]
      /\ positions' = positions \/ positions' = [positions EXCEPT ![r].state = "Open"]
      /\ "failed" \in ProtocolStates /\ "Open" \in PositionStates
  BY <1>2 DEF AppRejects, ProtocolStates, PositionStates
<1>4. Unfinished(p) /\ positions[r].state \notin {"Proposed", "Closed"}
  BY <1>2, <1>3 DEF IInv, ProgressOK, Unfinished
<1>5. /\ positions' \in Seq(Row) /\ DOMAIN positions' = DOMAIN positions
      /\ Len(positions') = Len(positions)
      /\ \A j \in DOMAIN positions : /\ positions'[j].trader = positions[j].trader
                                     /\ positions'[j].created = positions[j].created
                                     /\ j # r => positions'[j].state = positions[j].state
      /\ positions'[r].state \in {"Open", positions[r].state}
  <2>1. CASE positions' = positions
    BY <2>1, TypeFacts DEF IInv
  <2>2. CASE positions' = [positions EXCEPT ![r].state = "Open"]
    BY <1>3, <2>2, SetState DEF IInv
  <2> QED BY <1>3, <2>1, <2>2
<1>6. Kept
  BY <1>1, <1>4, <1>5 DEF Kept
<1>7. protocols' \in Seq(Protocol)
  BY <1>3, SetProtocol DEF IInv
<1>8. TypeOK'
  BY <1>1, <1>5, <1>7 DEF IInv, TypeOK, Row, Protocol
<1>9. RefsOK' /\ ProgressOK'
  <2>1. UNCHANGED app /\ \A j \in DOMAIN positions \ {r} : positions'[j].state = positions[j].state
    BY <1>1, <1>5
  <2>2. PICK ps \in ProtocolStates : ps = "failed"
    BY <1>3
  <2>3. /\ ps \in {"offered", "started", "pending", "accepted"} =>
             positions'[r].state \notin {"Proposed", "Closed"}
        /\ protocols[p].kind = "Settle" /\ ps = "success" => positions'[r].state = "Closed"
        /\ protocols' = [protocols EXCEPT ![p].state = ps]
    BY <1>3, <2>2
  <2> QED BY <1>2, <1>4, <1>6, <2>1, <2>2, <2>3, ProtocolStep
<1>10. QueuesOK' /\ DatesOK' /\ KnownOK' /\ HeardOK'
  BY <1>1, <1>6, KeptStep
<1>11. RowsOK'
  BY <1>1, <1>4, <1>5, <1>6, RowStep
<1> QED BY <1>8, <1>9, <1>10, <1>11 DEF IInv

\* A protocol is finished in the coordinator, which closes the row of a settled
\* position.
LEMMA FinishStep ==
  ASSUME IInv, NEW p \in DOMAIN protocols, finish_dlc_protocol(p)
  PROVE  IInv'
<1>1. UNCHANGED <<hour, rates, job, outbox, session, inbox, app, missed, faults>>
  BY DEF finish_dlc_protocol, socketVars
<1>2. PICK r \in DOMAIN positions : r = protocols[p].position
  BY DEF IInv, RefsOK
<1>3. PICK st : st = IF protocols[p].kind = "Settle" THEN "Closed" ELSE "Open"
  OBVIOUS
<1>4. /\ protocols[p].state = "accepted" /\ protocols' = [protocols EXCEPT ![p].state = "success"]
      /\ positions' = [positions EXCEPT ![r].state = st]
      /\ "success" \in ProtocolStates /\ st \in PositionStates /\ st # "Proposed"
      /\ protocols[p].kind = "Settle" => st = "Closed"
  BY <1>2, <1>3 DEF finish_dlc_protocol, ProtocolStates, PositionStates
<1>5. Unfinished(p) /\ positions[r].state \notin {"Proposed", "Closed"}
  BY <1>2, <1>4 DEF IInv, ProgressOK, Unfinished
<1>6. /\ positions' \in Seq(Row) /\ DOMAIN positions' = DOMAIN positions
      /\ Len(positions') = Len(positions)
      /\ \A j \in DOMAIN positions : /\ positions'[j].trader = positions[j].trader
                                     /\ positions'[j].created = positions[j].created
                                     /\ j # r => positions'[j].state = positions[j].state
      /\ positions'[r].state = st
  BY <1>4, SetState DEF IInv
<1>7. /\ events' \in Seq(FundingFeeEvent) /\ links' \in Seq(ProtocolFundingFeeEvent)
      /\ DOMAIN events' = DOMAIN events /\ Len(events') = Len(events)
      /\ \A e \in DOMAIN events :
           events'[e].position = events[e].position /\ events'[e].due = events[e].due
  BY MarkFacts DEF IInv, finish_dlc_protocol
<1>8. Kept
  BY <1>5, <1>6, <1>7 DEF Kept
<1>9. protocols' \in Seq(Protocol)
  BY <1>4, SetProtocol DEF IInv
<1>10. TypeOK'
  BY <1>1, <1>6, <1>7, <1>9 DEF IInv, TypeOK, Row, Protocol
<1>11. RefsOK' /\ ProgressOK'
  <2>1. UNCHANGED app /\ \A j \in DOMAIN positions \ {r} : positions'[j].state = positions[j].state
    BY <1>1, <1>6
  <2>2. PICK ps \in ProtocolStates : ps = "success"
    BY <1>4
  <2>3. /\ ps \in {"offered", "started", "pending", "accepted"} =>
             positions'[r].state \notin {"Proposed", "Closed"}
        /\ protocols[p].kind = "Settle" /\ ps = "success" => positions'[r].state = "Closed"
        /\ protocols' = [protocols EXCEPT ![p].state = ps]
    BY <1>4, <1>6, <2>2
  <2> QED BY <1>2, <1>5, <1>8, <2>1, <2>2, <2>3, ProtocolStep
<1>12. QueuesOK' /\ DatesOK' /\ KnownOK' /\ HeardOK'
  BY <1>1, <1>8, KeptStep
<1>13. RowsOK'
  BY <1>1, <1>4, <1>5, <1>6, <1>8, RowStep
<1> QED BY <1>10, <1>11, <1>12, <1>13 DEF IInv

\* A new protocol is the only one of its trader in progress.
LEMMA ProposeStep ==
  ASSUME IInv, NEW i \in DOMAIN positions, NEW kind \in Kinds, Propose(i, kind)
  PROVE  IInv'
<1>1. UNCHANGED <<hour, rates, positions, events, links, job, outbox, session, inbox, app, missed,
                  faults>>
  BY DEF Propose, socketVars
<1>2. PICK n : n = Len(protocols) + 1
  OBVIOUS
<1>3. PICK c : c = get_outstanding_funding_fee_events(i)
  OBVIOUS
<1>4. c \subseteq EventsOf(i) /\ EventsOf(i) \subseteq DOMAIN events /\ DOMAIN events \subseteq Nat
  BY <1>3, TypeFacts DEF IInv, get_outstanding_funding_fee_events, EventsOf
<1>5. PICK r : r = [kind |-> kind, position |-> i, state |-> "offered", charged |-> c,
                    seen |-> Len(events)]
  OBVIOUS
<1>6. /\ Len(protocols) < MaxProtocols /\ protocols' = Append(protocols, r)
      /\ positions[i].state = "Open" /\ Running(positions[i].trader) = {}
      /\ app[positions[i].trader].position = i
  BY <1>3, <1>5 DEF Propose
<1>7. r \in Protocol /\ protocols \in Seq(Protocol)
  <2>1. i \in 1..MaxPositions /\ Len(events) \in Nat /\ protocols \in Seq(Protocol)
    BY TypeFacts DEF IInv, RefsOK
  <2>2. c \in SUBSET Nat
    BY <1>4
  <2> QED BY <1>5, <2>1, <2>2 DEF Protocol, ProtocolStates
<1>8. /\ protocols' \in Seq(Protocol) /\ Len(protocols) \in Nat /\ Len(protocols') = n
      /\ DOMAIN protocols' = DOMAIN protocols \union {n} /\ n \notin DOMAIN protocols
      /\ \A p \in DOMAIN protocols : protocols'[p] = protocols[p]
      /\ protocols'[n] = r
  <2>1. DOMAIN protocols = 1..Len(protocols) /\ Len(protocols) \in Nat
    BY <1>7
  <2>2. n \notin DOMAIN protocols
    BY <1>2, <2>1
  <2> QED BY <1>2, <1>6, <1>7, <2>2, AppendFacts
<1>9. /\ protocols'[n].position = i /\ protocols'[n].state = "offered"
      /\ protocols'[n].charged = c /\ protocols'[n].seen = Len(events)
  BY <1>5, <1>8
<1>10. TypeOK'
  BY <1>1, <1>8 DEF IInv, TypeOK, Protocol
<1>11. RefsOK'
  <2>1. Len(protocols') <= MaxProtocols
    BY <1>2, <1>6, <1>8, TypeFacts DEF IInv
  <2>2. \A e \in DOMAIN events : events[e].position \in DOMAIN positions
    BY DEF IInv, RefsOK
  <2>3. ASSUME NEW p \in DOMAIN protocols'
        PROVE  /\ protocols'[p].position \in DOMAIN positions
               /\ protocols'[p].charged \subseteq EventsOf(protocols'[p].position)
               /\ protocols'[p].seen <= Len(events)
    <3>1. CASE p = n
      BY <1>4, <1>9, <3>1, TypeFacts DEF IInv
    <3>2. CASE p # n
      BY <1>8, <3>2 DEF IInv, RefsOK
    <3> QED BY <3>1, <3>2
  <2> QED BY <1>1, <2>1, <2>2, <2>3 DEF IInv, RefsOK, EventsOf
<1>12. ProgressOK'
  <2>1. \A q \in DOMAIN protocols :
          positions[protocols[q].position].trader = positions[i].trader => ~InProgress(q)
    BY <1>6 DEF Running, InProgress
  <2>2. \A q \in DOMAIN protocols : /\ InProgress(q)' <=> InProgress(q)
                                    /\ Unfinished(q)' <=> Unfinished(q)
    BY <1>8 DEF InProgress, Unfinished
  <2>3. ASSUME NEW p \in DOMAIN protocols', NEW q \in DOMAIN protocols',
               InProgress(p)', InProgress(q)',
               positions'[protocols'[p].position].trader = positions'[protocols'[q].position].trader
        PROVE  p = q
    <3>1. CASE p = n \/ q = n
      BY <1>1, <1>8, <1>9, <2>1, <2>2, <2>3, <3>1
    <3>2. CASE p # n /\ q # n
      BY <1>1, <1>8, <2>2, <2>3, <3>2 DEF IInv, ProgressOK
    <3> QED BY <3>1, <3>2
  <2>4. ASSUME NEW p \in DOMAIN protocols'
        PROVE  /\ InProgress(p)' => app'[positions'[protocols'[p].position].trader].position =
                                      protocols'[p].position
               /\ Unfinished(p)' =>
                    positions'[protocols'[p].position].state \notin {"Proposed", "Closed"}
               /\ protocols'[p].kind = "Settle" /\ protocols'[p].state = "success" =>
                    positions'[protocols'[p].position].state = "Closed"
    <3>1. CASE p = n
      BY <1>1, <1>6, <1>9, <3>1
    <3>2. CASE p # n
      BY <1>1, <1>8, <2>2, <3>2 DEF IInv, ProgressOK
    <3> QED BY <3>1, <3>2
  <2> QED BY <2>3, <2>4 DEF ProgressOK
<1>13. QueuesOK' /\ RowsOK' /\ DatesOK' /\ KnownOK' /\ HeardOK'
  BY <1>1, Frame
<1> QED BY <1>10, <1>11, <1>12, <1>13 DEF IInv

\* The rows that link a protocol to the events it charges.
LEMMA LinkFacts ==
  ASSUME IInv, NEW p \in DOMAIN protocols,
         links' = insert_protocol_funding_fee_event(p, protocols[p].charged)
  PROVE  /\ links' \in Seq(ProtocolFundingFeeEvent)
         /\ DOMAIN links \subseteq DOMAIN links'
         /\ \A k \in DOMAIN links : links'[k] = links[k]
         /\ \A k \in DOMAIN links' \ DOMAIN links :
              /\ links'[k].protocol = p /\ links'[k].event \in protocols[p].charged
              /\ ~links'[k].deleted
         /\ \A e \in protocols[p].charged : \E k \in DOMAIN links' \ DOMAIN links :
              links'[k].event = e
<1>1. PICK c : c = protocols[p].charged
  OBVIOUS
<1>2. c \subseteq 1..Len(events) /\ Len(events) \in Nat
  BY <1>1, TypeFacts DEF IInv, RefsOK, EventsOf
<1>3. IsFiniteSet(c)
  <2>1. IsFiniteSet(1..Len(events))
    BY <1>2, FS_Interval
  <2> QED BY <1>2, <2>1, FS_Subset
<1>4. PICK f : f = [e \in c |-> [protocol |-> p, event |-> e, deleted |-> FALSE]]
  OBVIOUS
<1>5. PICK S : S = {[protocol |-> p, event |-> e, deleted |-> FALSE] : e \in c}
  OBVIOUS
<1>6. IsFiniteSet(S)
  <2>1. f \in Surjection(c, S)
    BY <1>4, <1>5 DEF Surjection
  <2> QED BY <1>3, <2>1, FS_Surjection
<1>7. p \in 1..MaxProtocols
  BY TypeFacts DEF IInv, RefsOK
<1>8. ASSUME NEW x \in S
      PROVE  /\ x \in ProtocolFundingFeeEvent /\ x.protocol = p /\ x.event \in c /\ ~x.deleted
  <2>1. PICK e \in c : x = [protocol |-> p, event |-> e, deleted |-> FALSE]
    BY <1>5, <1>8
  <2>2. e \in Nat
    BY <1>2, <2>1
  <2> QED BY <1>7, <2>1, <2>2 DEF ProtocolFundingFeeEvent
<1>9. ASSUME NEW e \in c PROVE \E x \in S : x.event = e
  <2>1. PICK x : x = [protocol |-> p, event |-> e, deleted |-> FALSE]
    OBVIOUS
  <2>2. x \in S
    BY <1>5, <1>9, <2>1
  <2>3. x.event = e
    BY <2>1
  <2> QED BY <2>2, <2>3
<1>10. PICK s : s = SetToSeq(S)
  OBVIOUS
<1>11. s \in Seq(S) /\ On(s) = S
  BY <1>6, <1>10, SetToSeqFacts
<1>12. s \in Seq(ProtocolFundingFeeEvent) /\ links \in Seq(ProtocolFundingFeeEvent)
  BY <1>8, <1>11 DEF IInv, TypeOK
<1>13. links' = links \o s
  BY <1>1, <1>5, <1>10 DEF insert_protocol_funding_fee_event
<1>14. /\ links' \in Seq(ProtocolFundingFeeEvent)
       /\ DOMAIN links = 1..Len(links) /\ DOMAIN s = 1..Len(s) /\ Len(links) \in Nat
       /\ Len(s) \in Nat /\ DOMAIN links' = 1..(Len(links) + Len(s))
       /\ \A k \in 1..Len(links) : links'[k] = links[k]
       /\ \A k \in 1..Len(s) : links'[Len(links) + k] = s[k]
  BY <1>12, <1>13
<1>15. ASSUME NEW k \in DOMAIN links' \ DOMAIN links
       PROVE  links'[k] \in S
  <2>1. PICK j \in 1..Len(s) : k = Len(links) + j
    <3>1. k - Len(links) \in 1..Len(s) /\ k = Len(links) + (k - Len(links))
      BY <1>14, <1>15
    <3> QED BY <3>1
  <2>2. links'[k] = s[j]
    BY <1>14, <2>1
  <2>3. s[j] \in On(s)
    BY <1>14 DEF On
  <2> QED BY <1>11, <2>2, <2>3
<1>16. ASSUME NEW e \in c
       PROVE  \E k \in DOMAIN links' \ DOMAIN links : links'[k].event = e
  <2>1. PICK x \in On(s) : x.event = e
    BY <1>9, <1>11, <1>16
  <2>2. PICK k \in DOMAIN s : x = s[k]
    BY <2>1 DEF On
  <2>3. Len(links) + k \in DOMAIN links' \ DOMAIN links /\ links'[Len(links) + k] = x
    BY <1>14, <2>2
  <2> QED BY <2>1, <2>3
<1>17. DOMAIN links \subseteq DOMAIN links' /\ \A k \in DOMAIN links : links'[k] = links[k]
  BY <1>14
<1> QED BY <1>1, <1>8, <1>14, <1>15, <1>16, <1>17

\* A protocol is stored with the events it charges.
LEMMA StartStep ==
  ASSUME IInv, NEW p \in DOMAIN protocols, StartProtocol(p)
  PROVE  IInv'
<1>1. UNCHANGED <<hour, rates, positions, events, job, outbox, session, inbox, app, missed, faults>>
  BY DEF StartProtocol, socketVars
<1>2. PICK r \in DOMAIN positions : r = protocols[p].position
  BY DEF IInv, RefsOK
<1>3. PICK st \in ProtocolStates : st = "started"
  BY DEF ProtocolStates
<1>4. /\ protocols[p].state = "offered" /\ protocols' = [protocols EXCEPT ![p].state = st]
  BY <1>3 DEF StartProtocol
<1>5. Unfinished(p) /\ positions[r].state \notin {"Proposed", "Closed"}
  BY <1>2, <1>4 DEF IInv, ProgressOK, Unfinished
<1>6. Kept /\ \A j \in DOMAIN positions \ {r} : positions'[j].state = positions[j].state
  BY <1>1 DEF Kept
<1>7. protocols' \in Seq(Protocol)
  BY <1>4, SetProtocol DEF IInv
<1>8. links' \in Seq(ProtocolFundingFeeEvent)
  BY LinkFacts DEF StartProtocol
<1>9. TypeOK'
  BY <1>1, <1>7, <1>8 DEF IInv, TypeOK, Protocol
<1>10. RefsOK' /\ ProgressOK'
  <2>1. /\ UNCHANGED app /\ positions'[r].state \notin {"Proposed", "Closed"} /\ st # "success"
    BY <1>1, <1>3, <1>5
  <2> QED BY <1>2, <1>4, <1>5, <1>6, <2>1, ProtocolStep
<1>11. QueuesOK' /\ RowsOK' /\ DatesOK' /\ KnownOK' /\ HeardOK'
  BY <1>1, Frame
<1> QED BY <1>9, <1>10, <1>11 DEF IInv

\* No two events of a trader are due at the same time.
LEMMA SameDate ==
  ASSUME IInv, NEW e \in DOMAIN events, NEW f \in DOMAIN events,
         positions[events[e].position].trader = positions[events[f].position].trader,
         events[f].due = events[e].due
  PROVE  f = e
<1> DEFINE i == events[e].position
           j == events[f].position
<1>1. /\ i \in DOMAIN positions /\ j \in DOMAIN positions /\ i \in Nat /\ j \in Nat
      /\ events[e].due \in Nat /\ positions[i].created \in Nat /\ positions[j].created \in Nat
  BY TypeFacts DEF IInv, RefsOK
<1>2. /\ events[e].due > positions[i].created /\ events[f].due > positions[j].created
  BY DEF IInv, DatesOK
<1>3. e \in EventsOf(i) /\ f \in EventsOf(j)
  BY DEF EventsOf
<1> HIDE DEF i, j
<1>4. ~(i < j)
  <2>1. i < j => events[e].due <= positions[j].created
    BY <1>1, <1>3 DEF IInv, DatesOK, i, j
  <2> QED BY <1>1, <1>2, <2>1
<1>5. ~(j < i)
  <2>1. j < i => events[f].due <= positions[i].created
    BY <1>1, <1>3 DEF IInv, DatesOK, i, j
  <2> QED BY <1>1, <1>2, <2>1
<1>6. i = j
  BY <1>1, <1>4, <1>5
<1> QED BY <1>6 DEF IInv, DatesOK, i, j

\* The app inserts a message: every event of it is known then, since no other
\* event of the trader has its due date.
LEMMA AppLearns ==
  ASSUME IInv, NEW t \in Traders, NEW es, es \subseteq EventsOfTrader(t),
         app' = [app EXCEPT ![t] = WithEvents(app[t], es)]
  PROVE  /\ app' \in [Traders -> AppFundingFeeEvents]
         /\ \A u \in Traders \ {t} : app'[u] = app[u]
         /\ app'[t].position = app[t].position
         /\ app'[t].known = app[t].known \union es
         /\ app[t].applied \subseteq app'[t].applied
         /\ app[t].position # NoAppPosition => es \ app[t].known \subseteq app'[t].applied
<1>1. PICK new : new = insert_unpaid_funding_fee_events(app[t], es)
  OBVIOUS
<1>2. new = {e \in es : \A f \in app[t].known : events[f].due # events[e].due}
  BY <1>1 DEF insert_unpaid_funding_fee_events
<1>3. app \in [Traders -> AppFundingFeeEvents] /\ app[t] \in AppFundingFeeEvents
  BY DEF IInv, TypeOK
<1>4. es \subseteq Nat
  BY TypeFacts DEF IInv, EventsOfTrader
<1>5. PICK ap : ap = IF app[t].position = NoAppPosition THEN app[t].applied
                     ELSE app[t].applied \union new
  OBVIOUS
<1>6. WithEvents(app[t], es) = [app[t] EXCEPT !.known = app[t].known \union new, !.applied = ap]
  BY <1>1, <1>5 DEF WithEvents
<1>7. app[t].known \union new \in SUBSET Nat /\ ap \in SUBSET Nat
  BY <1>2, <1>3, <1>4, <1>5 DEF AppFundingFeeEvents
<1>8. PICK a : a = WithEvents(app[t], es)
  OBVIOUS
<1>9. /\ a \in AppFundingFeeEvents /\ a.position = app[t].position
      /\ a.known = app[t].known \union new /\ a.applied = ap
  BY <1>3, <1>6, <1>7, <1>8 DEF AppFundingFeeEvents
<1>10. app' = [app EXCEPT ![t] = a]
  BY <1>8
<1>11. ASSUME NEW e \in es, NEW f \in app[t].known, events[f].due = events[e].due
       PROVE  f = e
  <2>1. /\ e \in DOMAIN events /\ f \in DOMAIN events
        /\ positions[events[e].position].trader = positions[events[f].position].trader
    BY <1>11 DEF IInv, QueuesOK, EventsOfTrader
  <2> QED BY <1>11, <2>1, SameDate
<1>12. new = es \ app[t].known
  BY <1>2, <1>11
<1> QED BY <1>3, <1>5, <1>9, <1>10, <1>12

\* The app reads a message.
LEMMA HandleStep ==
  ASSUME IInv, NEW t \in Traders, AppHandle(t)
  PROVE  IInv'
<1>1. UNCHANGED <<hour, rates, positions, events, links, protocols, job, outbox, session, faults>>
  BY DEF AppHandle, protocolVars
<1>2. PICK m : m = Head(inbox[t])
  OBVIOUS
<1>3. inbox \in [Traders -> Seq(FeeMessage)] /\ inbox[t] # <<>>
  BY DEF IInv, TypeOK, AppHandle
<1>4. /\ Tail(inbox[t]) \in Seq(FeeMessage)
      /\ On(inbox[t]) = {m} \union On(Tail(inbox[t]))
  <2>1. inbox[t] \in Seq(FeeMessage)
    BY <1>3
  <2> QED BY <1>2, <1>3, <2>1, OnTail, Zenon
<1>5. m \subseteq EventsOfTrader(t)
  <2>1. m \in On(inbox[t])
    BY <1>4
  <2> QED BY <2>1 DEF IInv, QueuesOK
<1>6. /\ inbox' \in [Traders -> Seq(FeeMessage)]
      /\ \A u \in Traders \ {t} : inbox'[u] = inbox[u]
      /\ inbox'[t] = Tail(inbox[t])
  <2>1. inbox' = [inbox EXCEPT ![t] = Tail(inbox[t])]
    BY DEF AppHandle
  <2> QED BY <1>3, <1>4, <2>1
<1>7. /\ app' \in [Traders -> AppFundingFeeEvents]
      /\ \A u \in Traders \ {t} : app'[u] = app[u]
      /\ app'[t].position = app[t].position
      /\ app'[t].known = app[t].known \union m
      /\ app[t].applied \subseteq app'[t].applied
      /\ app[t].position # NoAppPosition => m \ app[t].known \subseteq app'[t].applied
  <2>1. app' = [app EXCEPT ![t] = WithEvents(app[t], m)]
    BY <1>2 DEF AppHandle
  <2> QED BY <1>5, <2>1, AppLearns
<1>8. /\ missed' \subseteq DOMAIN events /\ missed \subseteq missed'
      /\ app[t].position = NoAppPosition => m \ app[t].known \subseteq missed'
  <2>1. PICK new : new = insert_unpaid_funding_fee_events(app[t], m)
    OBVIOUS
  <2>2. new \subseteq m /\ m \subseteq DOMAIN events
    BY <1>5, <2>1 DEF insert_unpaid_funding_fee_events, EventsOfTrader
  <2>3. m \ app[t].known \subseteq new
    <3>1. ASSUME NEW e \in m, NEW f \in app[t].known, events[f].due = events[e].due
          PROVE  f = e
      <4>1. /\ e \in DOMAIN events /\ f \in DOMAIN events
            /\ positions[events[e].position].trader = positions[events[f].position].trader
        BY <1>5, <3>1 DEF IInv, QueuesOK, EventsOfTrader
      <4> QED BY <3>1, <4>1, SameDate
    <3> QED BY <2>1, <3>1 DEF insert_unpaid_funding_fee_events
  <2>4. missed' = IF app[t].position = NoAppPosition THEN missed \union new ELSE missed
    BY <1>2, <2>1 DEF AppHandle
  <2> QED BY <2>2, <2>3, <2>4 DEF IInv, TypeOK
<1>9. TypeOK'
  BY <1>1, <1>6, <1>7, <1>8 DEF IInv, TypeOK
<1>10. QueuesOK'
  <2>1. ASSUME NEW u \in Traders
        PROVE  app'[u].known \subseteq EventsOfTrader(u) /\ UNION On(inbox'[u]) \subseteq EventsOfTrader(u)
    <3>1. CASE u = t
      <4>1. On(inbox'[t]) \subseteq On(inbox[t])
        BY <1>4, <1>6
      <4> QED BY <1>5, <1>7, <3>1, <4>1 DEF IInv, QueuesOK
    <3>2. CASE u # t
      BY <1>6, <1>7, <3>2 DEF IInv, QueuesOK
    <3> QED BY <3>1, <3>2
  <2> QED BY <1>1, <2>1 DEF IInv, QueuesOK, EventsOfTrader
<1>11. \A u \in Traders : app'[u].position = app[u].position
  BY <1>7
<1>12. RowsOK'
  BY <1>1, <1>11, TypeFacts DEF IInv, RowsOK, EventsOf
<1>13. ProgressOK'
  BY <1>1, <1>11, TypeFacts DEF IInv, RefsOK, ProgressOK, InProgress, Unfinished
<1>14. KnownOK'
  <2>1. ASSUME NEW u \in Traders, NEW e \in app'[u].known, Alive(e)
        PROVE  \/ e \in missed'
               \/ app'[u].position = events[e].position /\ e \in app'[u].applied
    <3>1. CASE e \in app[u].known
      <4>1. e \in missed \/ (app[u].position = events[e].position /\ e \in app[u].applied)
        BY <2>1, <3>1 DEF IInv, KnownOK
      <4> QED BY <1>7, <1>8, <4>1
    <3>2. CASE e \notin app[u].known
      <4>1. u = t /\ e \in m \ app[t].known
        BY <1>7, <2>1, <3>2
      <4>2. CASE app[t].position = NoAppPosition
        BY <1>8, <4>1, <4>2
      <4>3. CASE app[t].position # NoAppPosition
        <5>1. /\ events[e].position \in DOMAIN positions
              /\ positions[events[e].position].trader = t
              /\ positions[events[e].position].state # "Closed"
          BY <1>5, <2>1, <4>1 DEF IInv, RefsOK, EventsOfTrader, Alive
        <5>2. app[t].position = events[e].position
          BY <4>3, <5>1 DEF IInv, RowsOK
        <5> QED BY <1>7, <4>1, <4>3, <5>2
      <4> QED BY <4>2, <4>3
    <3> QED BY <3>1, <3>2
  <2> QED BY <1>1, <2>1 DEF KnownOK, Alive
<1>15. HeardOK'
  <2>1. ASSUME NEW u \in Traders, session[u] # "offline",
               NEW e \in EventsOfTrader(u), Alive(e)
        PROVE  \/ e \in app'[u].known \union missed'
               \/ e \in UNION On(inbox'[u])
               \/ e \in On(outbox) \union {job.send}
    <3>1. \/ e \in app[u].known \union missed
          \/ e \in UNION On(inbox[u])
          \/ e \in On(outbox) \union {job.send}
      BY <2>1 DEF IInv, HeardOK
    <3>2. app[u].known \subseteq app'[u].known
      BY <1>7
    <3>3. CASE u = t
      <4>1. e \in UNION On(inbox[t]) => e \in m \/ e \in UNION On(inbox'[t])
        BY <1>4, <1>6
      <4> QED BY <1>7, <1>8, <3>1, <3>2, <3>3, <4>1
    <3>4. CASE u # t
      BY <1>6, <1>8, <3>1, <3>2, <3>4
    <3> QED BY <3>3, <3>4
  <2> QED BY <1>1, <2>1 DEF HeardOK, EventsOfTrader, Alive
<1>16. RefsOK' /\ DatesOK'
  BY <1>1, Frame
<1> QED BY <1>9, <1>10, <1>12, <1>13, <1>14, <1>15, <1>16 DEF IInv

\* The app gets its position; events it knew before are among the missed ones.
LEMMA AppOpensStep ==
  ASSUME IInv, NEW i \in DOMAIN positions, AppOpens(i)
  PROVE  IInv'
<1>1. UNCHANGED <<hour, rates, positions, events, links, protocols, job, outbox, session, inbox,
                  missed, faults>>
  BY DEF AppOpens, protocolVars, socketVars
<1>2. PICK t \in Traders : t = positions[i].trader
  BY TypeFacts DEF IInv
<1>3. /\ positions[i].state # "Closed" /\ app[t].position # i
      /\ app' = [app EXCEPT ![t].position = i, ![t].created = hour, ![t].applied = {}]
  BY <1>2 DEF AppOpens, Active
<1>4. app[t].position = NoAppPosition /\ \A j \in DOMAIN positions : j # NoAppPosition
  <2>1. app[t].position = NoAppPosition
    BY <1>2, <1>3 DEF IInv, RowsOK
  <2> QED BY <2>1, TypeFacts DEF IInv, NoAppPosition
<1>5. /\ app' \in [Traders -> AppFundingFeeEvents]
      /\ \A u \in Traders \ {t} : app'[u] = app[u]
      /\ app'[t].position = i
      /\ \A u \in Traders : app'[u].known = app[u].known
  <2>1. app \in [Traders -> AppFundingFeeEvents] /\ app[t] \in AppFundingFeeEvents
    BY DEF IInv, TypeOK
  <2>2. i \in 0..MaxPositions /\ hour \in 0..MaxHour /\ {} \in SUBSET Nat
    <3>1. i \in 0..MaxPositions
      BY TypeFacts DEF IInv, RefsOK
    <3>2. hour \in 0..MaxHour
      BY DEF IInv, TypeOK
    <3> QED BY <3>1, <3>2
  <2>3. PICK a : a = [app[t] EXCEPT !.position = i, !.created = hour, !.applied = {}]
    OBVIOUS
  <2>4. a \in AppFundingFeeEvents /\ a.position = i /\ a.known = app[t].known
    BY <2>1, <2>2, <2>3 DEF AppFundingFeeEvents
  <2>5. app' = [app EXCEPT ![t] = a]
    BY <1>3, <2>1, <2>3
  <2> QED BY <2>1, <2>4, <2>5
<1>6. TypeOK'
  BY <1>1, <1>5 DEF IInv, TypeOK
<1>7. QueuesOK'
  BY <1>1, <1>5 DEF IInv, QueuesOK, EventsOfTrader
<1>8. RowsOK'
  <2>1. ASSUME NEW j \in DOMAIN positions, positions[j].state # "Closed"
        PROVE  app'[positions[j].trader].position \in {NoAppPosition, j}
    <3>1. CASE positions[j].trader = t
      <4>1. ~(i < j) /\ ~(j < i)
        BY <1>2, <1>3, <2>1, <3>1 DEF IInv, RowsOK
      <4>2. j = i
        BY <4>1, TypeFacts DEF IInv
      <4> QED BY <1>5, <3>1, <4>2
    <3>2. CASE positions[j].trader # t
      BY <1>5, <2>1, <3>2, TypeFacts DEF IInv, RowsOK
    <3> QED BY <3>1, <3>2
  <2> QED BY <1>1, <2>1 DEF IInv, RowsOK, EventsOf
<1>9. ProgressOK'
  <2>1. ASSUME NEW p \in DOMAIN protocols, InProgress(p)
        PROVE  app'[positions[protocols[p].position].trader].position = protocols[p].position
    <3>1. /\ protocols[p].position \in DOMAIN positions
          /\ app[positions[protocols[p].position].trader].position = protocols[p].position
          /\ positions[protocols[p].position].trader \in Traders
      BY <2>1, TypeFacts DEF IInv, RefsOK, ProgressOK
    <3>2. positions[protocols[p].position].trader # t
      BY <1>4, <3>1
    <3> QED BY <1>5, <3>1, <3>2
  <2> QED BY <1>1, <2>1 DEF IInv, ProgressOK, InProgress, Unfinished
<1>10. KnownOK'
  <2>1. ASSUME NEW u \in Traders, NEW e \in app[u].known, Alive(e)
        PROVE  \/ e \in missed
               \/ app'[u].position = events[e].position /\ e \in app'[u].applied
    <3>1. e \in missed \/ (app[u].position = events[e].position /\ e \in app[u].applied)
      BY <2>1 DEF IInv, KnownOK
    <3>2. events[e].position \in DOMAIN positions
      BY <2>1 DEF IInv, QueuesOK, RefsOK, EventsOfTrader
    <3>3. CASE u = t
      BY <1>4, <3>1, <3>2, <3>3
    <3>4. CASE u # t
      BY <1>5, <3>1, <3>4
    <3> QED BY <3>3, <3>4
  <2> QED BY <1>1, <1>5, <2>1 DEF KnownOK, Alive
<1>11. HeardOK'
  BY <1>1, <1>5 DEF IInv, HeardOK, EventsOfTrader, Alive
<1>12. RefsOK' /\ DatesOK'
  BY <1>1, Frame
<1> QED BY <1>6, <1>7, <1>8, <1>9, <1>10, <1>11, <1>12 DEF IInv

\* The app accepts a protocol, and learns the events of a rollover.
LEMMA AcceptStep ==
  ASSUME IInv, NEW p \in DOMAIN protocols, AppAccepts(p)
  PROVE  IInv'
<1>1. UNCHANGED <<hour, rates, positions, events, links, job, outbox, session, inbox, missed,
                  faults>>
  BY DEF AppAccepts, socketVars
<1>2. PICK r \in DOMAIN positions : r = protocols[p].position
  BY DEF IInv, RefsOK
<1>3. PICK t \in Traders : t = positions[r].trader
  BY TypeFacts DEF IInv
<1>4. PICK st \in ProtocolStates : st = "accepted"
  BY DEF ProtocolStates
<1>5. /\ protocols[p].state = "pending" /\ protocols' = [protocols EXCEPT ![p].state = st]
      /\ \/ app' = app
         \/ app' = [app EXCEPT ![t] = WithEvents(app[t], protocols[p].charged)]
  BY <1>2, <1>3, <1>4 DEF AppAccepts
<1>6. /\ Unfinished(p) /\ positions[r].state \notin {"Proposed", "Closed"}
      /\ app[t].position = r /\ r # NoAppPosition
  <2>1. Unfinished(p) /\ InProgress(p)
    BY <1>5 DEF Unfinished, InProgress
  <2>2. r # NoAppPosition
    BY TypeFacts DEF IInv, NoAppPosition
  <2> QED BY <1>2, <1>3, <2>1, <2>2 DEF IInv, ProgressOK
<1>7. /\ protocols[p].charged \subseteq EventsOfTrader(t)
      /\ \A e \in protocols[p].charged : events[e].position = r
  BY <1>2, <1>3 DEF IInv, RefsOK, EventsOf, EventsOfTrader
<1>8. /\ app' \in [Traders -> AppFundingFeeEvents]
      /\ \A u \in Traders : /\ u # t => app'[u] = app[u]
                            /\ app'[u].position = app[u].position
                            /\ app[u].known \subseteq app'[u].known
                            /\ app[u].applied \subseteq app'[u].applied
      /\ app'[t].known \subseteq app[t].known \union protocols[p].charged
      /\ app'[t].known \ app[t].known \subseteq app'[t].applied
  <2>1. CASE app' = app
    BY <2>1 DEF IInv, TypeOK
  <2>2. CASE app' = [app EXCEPT ![t] = WithEvents(app[t], protocols[p].charged)]
    <3>1. /\ app' \in [Traders -> AppFundingFeeEvents]
          /\ \A u \in Traders \ {t} : app'[u] = app[u]
          /\ app'[t].position = app[t].position
          /\ app'[t].known = app[t].known \union protocols[p].charged
          /\ app[t].applied \subseteq app'[t].applied
          /\ app[t].position # NoAppPosition =>
               protocols[p].charged \ app[t].known \subseteq app'[t].applied
      BY <1>7, <2>2, AppLearns
    <3> QED BY <1>6, <3>1
  <2> QED BY <1>5, <2>1, <2>2
<1>9. protocols' \in Seq(Protocol)
  BY <1>5, SetProtocol DEF IInv
<1>10. TypeOK'
  BY <1>1, <1>8, <1>9 DEF IInv, TypeOK, Protocol
<1>11. RefsOK' /\ ProgressOK'
  <2>1. /\ DOMAIN protocols' = DOMAIN protocols /\ Len(protocols') = Len(protocols)
        /\ \A q \in DOMAIN protocols : /\ protocols'[q].kind = protocols[q].kind
                                       /\ protocols'[q].position = protocols[q].position
                                       /\ protocols'[q].charged = protocols[q].charged
                                       /\ protocols'[q].seen = protocols[q].seen
                                       /\ q # p => protocols'[q].state = protocols[q].state
        /\ protocols'[p].state = "accepted"
    BY <1>4, <1>5, SetProtocol DEF IInv
  <2>2. Kept
    BY <1>1 DEF Kept
  <2>3. RefsOK'
    BY <2>1, <2>2, KeptStep
  <2>4. \A q \in DOMAIN protocols : /\ InProgress(q)' <=> InProgress(q)
                                    /\ Unfinished(q)' <=> Unfinished(q)
    BY <1>5, <2>1 DEF InProgress, Unfinished
  <2>5. \A q \in DOMAIN protocols : /\ protocols[q].position \in DOMAIN positions
                                    /\ positions[protocols[q].position].trader \in Traders
    BY TypeFacts DEF IInv, RefsOK
  <2> QED BY <1>1, <1>8, <2>1, <2>3, <2>4, <2>5 DEF IInv, ProgressOK
<1>12. QueuesOK'
  BY <1>1, <1>7, <1>8 DEF IInv, QueuesOK, EventsOfTrader
<1>13. RowsOK'
  BY <1>1, <1>8, TypeFacts DEF IInv, RowsOK, EventsOf
<1>14. KnownOK'
  <2>1. ASSUME NEW u \in Traders, NEW e \in app'[u].known, Alive(e)
        PROVE  \/ e \in missed
               \/ app'[u].position = events[e].position /\ e \in app'[u].applied
    <3>1. CASE e \in app[u].known
      <4>1. e \in missed \/ (app[u].position = events[e].position /\ e \in app[u].applied)
        BY <2>1, <3>1 DEF IInv, KnownOK
      <4> QED BY <1>8, <4>1
    <3>2. CASE e \notin app[u].known
      <4>1. u = t /\ e \in app'[t].known \ app[t].known /\ e \in protocols[p].charged
        BY <1>8, <2>1, <3>2
      <4> QED BY <1>6, <1>7, <1>8, <4>1
    <3> QED BY <3>1, <3>2
  <2> QED BY <1>1, <2>1 DEF KnownOK, Alive
<1>15. HeardOK'
  <2>1. \A u \in Traders : app[u].known \subseteq app'[u].known
    BY <1>8
  <2> QED BY <1>1, <2>1 DEF IInv, HeardOK, EventsOfTrader, Alive
<1>16. DatesOK'
  BY <1>1, Frame
<1> QED BY <1>10, <1>11, <1>12, <1>13, <1>14, <1>15, <1>16 DEF IInv

\* The app finishes a protocol, and forgets a position whose row is closed.
LEMMA AppFinishesStep ==
  ASSUME IInv, NEW p \in DOMAIN protocols, AppFinishes(p)
  PROVE  IInv'
<1>1. UNCHANGED <<hour, rates, positions, events, links, job, outbox, session, inbox, missed,
                  faults>>
  BY DEF AppFinishes, socketVars
<1>2. PICK r \in DOMAIN positions : r = protocols[p].position
  BY DEF IInv, RefsOK
<1>3. PICK t \in Traders : t = positions[r].trader
  BY TypeFacts DEF IInv
<1>4. PICK st \in ProtocolStates : st = "done"
  BY DEF ProtocolStates
<1>5. /\ protocols[p].state = "success" /\ protocols' = [protocols EXCEPT ![p].state = st]
  BY <1>4 DEF AppFinishes
<1>6. InProgress(p) /\ app[t].position = r
  BY <1>2, <1>3, <1>5 DEF IInv, ProgressOK, InProgress
<1>7. /\ app' \in [Traders -> AppFundingFeeEvents]
      /\ \A u \in Traders : /\ u # t => app'[u] = app[u]
                            /\ app'[u].known = app[u].known
                            /\ app'[u].applied = app[u].applied
      /\ \/ app'[t].position = app[t].position
         \/ app'[t].position = NoAppPosition /\ positions[r].state = "Closed"
  <2>0. app \in [Traders -> AppFundingFeeEvents] /\ app[t] \in AppFundingFeeEvents
    BY DEF IInv, TypeOK
  <2>1. CASE protocols[p].kind = "Rollover"
    <3>1. PICK ids : ids = app[t].paid \union {e \in app[t].known : events[e].due >= app[t].created}
      OBVIOUS
    <3>2. app' = [app EXCEPT ![t].paid = ids]
      BY <1>2, <1>3, <2>0, <2>1, <3>1 DEF AppFinishes
    <3>3. ids \in SUBSET Nat
      BY <2>0, <3>1 DEF AppFundingFeeEvents
    <3>4. PICK a : a = [app[t] EXCEPT !.paid = ids]
      OBVIOUS
    <3>5. /\ a \in AppFundingFeeEvents /\ a.position = app[t].position /\ a.known = app[t].known
          /\ a.applied = app[t].applied
      BY <2>0, <3>3, <3>4 DEF AppFundingFeeEvents
    <3>6. app' = [app EXCEPT ![t] = a]
      BY <2>0, <3>2, <3>4
    <3> QED BY <2>0, <3>5, <3>6
  <2>2. CASE protocols[p].kind = "Settle"
    <3>1. app' = [app EXCEPT ![t].position = NoAppPosition]
      BY <1>2, <1>3, <2>2 DEF AppFinishes
    <3>2. PICK a : a = [app[t] EXCEPT !.position = NoAppPosition]
      OBVIOUS
    <3>3. /\ a \in AppFundingFeeEvents /\ a.position = NoAppPosition /\ a.known = app[t].known
          /\ a.applied = app[t].applied
      <4>1. NoAppPosition \in 0..MaxPositions
        BY TypeFacts DEF IInv, NoAppPosition
      <4> QED BY <2>0, <3>2, <4>1 DEF AppFundingFeeEvents
    <3>4. app' = [app EXCEPT ![t] = a]
      BY <2>0, <3>1, <3>2
    <3>5. positions[r].state = "Closed"
      BY <1>2, <1>5, <2>2 DEF IInv, ProgressOK
    <3> QED BY <2>0, <3>3, <3>4, <3>5
  <2>3. CASE protocols[p].kind = "Resize"
    <3>1. app' = app
      BY <2>3 DEF AppFinishes
    <3> QED BY <2>0, <3>1
  <2> QED BY <2>1, <2>2, <2>3, TypeFacts DEF IInv, Kinds
<1>8. protocols' \in Seq(Protocol)
  BY <1>5, SetProtocol DEF IInv
<1>9. TypeOK'
  BY <1>1, <1>7, <1>8 DEF IInv, TypeOK, Protocol
<1>10. RefsOK' /\ ProgressOK'
  <2>1. /\ DOMAIN protocols' = DOMAIN protocols /\ Len(protocols') = Len(protocols)
        /\ \A q \in DOMAIN protocols : /\ protocols'[q].kind = protocols[q].kind
                                       /\ protocols'[q].position = protocols[q].position
                                       /\ protocols'[q].charged = protocols[q].charged
                                       /\ protocols'[q].seen = protocols[q].seen
                                       /\ q # p => protocols'[q].state = protocols[q].state
        /\ protocols'[p].state = "done"
    BY <1>4, <1>5, SetProtocol DEF IInv
  <2>2. Kept
    BY <1>1 DEF Kept
  <2>3. RefsOK'
    BY <2>1, <2>2, KeptStep
  <2>4. ~InProgress(p)' /\ ~Unfinished(p)'
    BY <2>1 DEF InProgress, Unfinished
  <2>5. \A q \in DOMAIN protocols : q # p => /\ InProgress(q)' <=> InProgress(q)
                                             /\ Unfinished(q)' <=> Unfinished(q)
    BY <2>1 DEF InProgress, Unfinished
  <2>6. ASSUME NEW q \in DOMAIN protocols, InProgress(q)'
        PROVE  /\ q # p /\ InProgress(q)
               /\ positions[protocols[q].position].trader \in Traders
               /\ positions[protocols[q].position].trader # t
    <3>1. q # p /\ InProgress(q)
      BY <2>4, <2>5, <2>6
    <3>2. positions[protocols[q].position].trader \in Traders
      BY TypeFacts DEF IInv, RefsOK
    <3>3. positions[protocols[q].position].trader # t
      BY <1>2, <1>3, <1>6, <3>1 DEF IInv, ProgressOK
    <3> QED BY <3>1, <3>2, <3>3
  <2>7. \A q \in DOMAIN protocols : Unfinished(q)' => Unfinished(q)
    BY <2>4, <2>5
  <2>8. \A q \in DOMAIN protocols : InProgress(q)' =>
          app'[positions'[protocols'[q].position].trader].position = protocols'[q].position
    BY <1>1, <1>7, <2>1, <2>6 DEF IInv, ProgressOK
  <2> QED BY <1>1, <2>1, <2>3, <2>6, <2>7, <2>8 DEF IInv, ProgressOK
<1>11. QueuesOK'
  BY <1>1, <1>7 DEF IInv, QueuesOK, EventsOfTrader
<1>12. RowsOK'
  <2>1. ASSUME NEW j \in DOMAIN positions, positions[j].state # "Closed"
        PROVE  app'[positions[j].trader].position \in {NoAppPosition, j}
    <3>1. app[positions[j].trader].position \in {NoAppPosition, j} /\ positions[j].trader \in Traders
      BY <2>1, TypeFacts DEF IInv, RowsOK
    <3> QED BY <1>7, <3>1
  <2> QED BY <1>1, <2>1 DEF IInv, RowsOK, EventsOf
<1>13. KnownOK'
  <2>1. ASSUME NEW u \in Traders, NEW e \in app[u].known, Alive(e)
        PROVE  \/ e \in missed
               \/ app'[u].position = events[e].position /\ e \in app'[u].applied
    <3>1. e \in missed \/ (app[u].position = events[e].position /\ e \in app[u].applied)
      BY <2>1 DEF IInv, KnownOK
    <3>2. CASE u = t
      BY <1>6, <1>7, <2>1, <3>1, <3>2 DEF Alive
    <3>3. CASE u # t
      BY <1>7, <3>1, <3>3
    <3> QED BY <3>2, <3>3
  <2> QED BY <1>1, <1>7, <2>1 DEF KnownOK, Alive
<1>14. HeardOK'
  BY <1>1, <1>7 DEF IInv, HeardOK, EventsOfTrader, Alive
<1>15. DatesOK'
  BY <1>1, Frame
<1> QED BY <1>9, <1>10, <1>11, <1>12, <1>13, <1>14, <1>15 DEF IInv

-----------------------------------------------------------------------------
(* The invariant holds, and with it what the app knows *)

\* At the start there are no rows and no messages.
LEMMA InitIInv ==
  ASSUME Init
  PROVE  IInv
<1>1. /\ hour = 0 /\ rates = {} /\ positions = <<>> /\ events = <<>> /\ links = <<>>
      /\ protocols = <<>> /\ job = NoJob /\ outbox = <<>> /\ missed = {}
      /\ \A t \in Traders : /\ session[t] = "offline" /\ inbox[t] = <<>> /\ app[t].known = {}
                            /\ app[t].position = NoAppPosition
  BY DEF Init
<1>2. /\ DOMAIN positions = {} /\ DOMAIN events = {} /\ DOMAIN protocols = {}
      /\ DOMAIN outbox = {} /\ Len(positions) = 0 /\ Len(protocols) = 0
      /\ job.todo = {} /\ job.send = 0
      /\ \A t \in Traders : DOMAIN inbox[t] = {}
  BY <1>1 DEF NoJob
<1>3. On(outbox) = {} /\ \A t \in Traders : On(inbox[t]) = {}
  BY <1>2 DEF On
<1>4. TypeOK
  <2>1. /\ session \in [Traders -> Sessions] /\ inbox \in [Traders -> Seq(FeeMessage)]
        /\ faults \in 0..MaxFaults /\ hour \in 0..MaxHour
    BY FundingFeesAssumption DEF Init, Sessions
  <2>2. /\ job \in [due : -1..MaxHour, todo : SUBSET (1..MaxPositions), send : Nat]
    BY <1>1, FundingFeesAssumption DEF NoJob
  <2>3. app \in [Traders -> AppFundingFeeEvents]
    BY FundingFeesAssumption DEF Init, AppFundingFeeEvents, NoAppPosition
  <2> QED BY <1>1, <2>1, <2>2, <2>3 DEF TypeOK
<1>5. RefsOK
  BY <1>2, FundingFeesAssumption DEF RefsOK
<1>6. QueuesOK /\ RowsOK /\ ProgressOK
  BY <1>1, <1>2, <1>3 DEF QueuesOK, RowsOK, ProgressOK
<1>7. DatesOK
  BY <1>2 DEF DatesOK
<1>8. KnownOK /\ HeardOK
  BY <1>1 DEF KnownOK, HeardOK
<1> QED BY <1>4, <1>5, <1>6, <1>7, <1>8 DEF IInv

\* Every step keeps the invariant.
LEMMA StepIInv ==
  ASSUME IInv, [Next]_vars
  PROVE  IInv'
<1>1. ASSUME NEW t \in Traders,
             persist_position(t) \/ AppHandle(t) \/ Login(t) \/ Register(t) \/ Logout(t)
      PROVE  IInv'
  BY <1>1, PersistStep, HandleStep, LoginStep, RegisterStep, LogoutStep
<1>2. ASSUME NEW i \in DOMAIN positions,
             \/ finish_open_position(i) \/ AppOpens(i) \/ insert(i)
             \/ \E kind \in Kinds : Propose(i, kind)
      PROVE  IInv'
  BY <1>2, OpenStep, AppOpensStep, InsertStep, ProposeStep
<1>3. ASSUME NEW p \in DOMAIN protocols,
             \/ StartProtocol(p) \/ UpdatePosition(p) \/ AppAccepts(p) \/ AppRejects(p)
             \/ finish_dlc_protocol(p) \/ AppFinishes(p)
      PROVE  IInv'
  BY <1>3, StartStep, UpdateStep, AcceptStep, RejectStep, FinishStep, AppFinishesStep
<1>4. ASSUME NEW end_date \in 1..MaxHour, insert_funding_rates(end_date)
      PROVE  IInv'
  BY <1>4, RatesStep
<1>5. CASE Tick \/ StartJob \/ SendEvent \/ JobFails \/ Deliver \/ Restart
  BY <1>5, TickStep, StartJobStep, SendEventStep, JobFailsStep, DeliverStep, RestartStep
<1>6. CASE UNCHANGED vars
  <2>1. UNCHANGED <<hour, rates, positions, events, links, protocols, job, outbox, session, inbox,
                    app, missed, faults>>
    BY <1>6 DEF vars
  <2>2. TypeOK'
    BY <2>1 DEF IInv, TypeOK
  <2> QED BY <2>1, <2>2, Frame DEF IInv
<1> QED BY <1>1, <1>2, <1>3, <1>4, <1>5, <1>6 DEF Next

\* The invariant says what AppAppliesEvents does.
LEMMA HeardIsApplied ==
  ASSUME IInv
  PROVE  AppAppliesEvents
<1> SUFFICES ASSUME NEW t \in Traders, Heard(t), NEW i \in DOMAIN positions,
                    positions[i].trader = t, positions[i].state \in Active, app[t].position = i,
                    NEW e \in EventsOf(i)
             PROVE  e \in app[t].applied \union missed
  BY DEF AppAppliesEvents
<1>1. /\ e \in DOMAIN events /\ e # 0 /\ events[e].position = i
      /\ e \in EventsOfTrader(t) /\ Alive(e)
  BY TypeFacts DEF IInv, EventsOf, EventsOfTrader, Alive, Active
<1>2. UNION On(inbox[t]) = {}
  BY DEF Heard, On
<1>3. e \notin On(outbox) \union {job.send}
  BY <1>1 DEF Heard, Sees, On
<1>4. e \in app[t].known \union missed
  BY <1>1, <1>2, <1>3 DEF IInv, HeardOK, Heard
<1> QED BY <1>1, <1>4 DEF IInv, KnownOK

\* The tables, the queues and the app's data keep their types.
THEOREM TypeCorrect == Spec => []TypeOK
<1>1. Init => IInv
  BY InitIInv
<1>2. IInv /\ [Next]_vars => IInv'
  BY StepIInv
<1>3. IInv => TypeOK
  BY DEF IInv
<1> QED BY <1>1, <1>2, <1>3, PTL DEF Spec

\* Whatever messages a lost connection, a failed job or a restart swallowed, a
\* connected trader that has read its messages has applied every event of its
\* active position, but for the ones that no message could carry
\* (get_funding_fee_events_for_active_trader_positions, handle_funding_fee_events).
THEOREM EventsAreApplied == Spec => []AppAppliesEvents
<1>1. Init => IInv
  BY InitIInv
<1>2. IInv /\ [Next]_vars => IInv'
  BY StepIInv
<1>3. IInv => AppAppliesEvents
  BY HeardIsApplied
<1> QED BY <1>1, <1>2, <1>3, PTL DEF Spec

-----------------------------------------------------------------------------
(* One trader: every event is charged once *)

OneTrader == \A t, u \in Traders : t = u

\* Of one trader's protocols one is in progress at a time.
LEMMA OneInProgress ==
  ASSUME IInv, OneTrader, NEW p \in DOMAIN protocols, NEW q \in DOMAIN protocols,
         InProgress(p), InProgress(q)
  PROVE  p = q
<1>1. /\ positions[protocols[p].position].trader \in Traders
      /\ positions[protocols[q].position].trader \in Traders
  BY TypeFacts DEF IInv, RefsOK
<1> QED BY <1>1 DEF OneTrader, IInv, ProgressOK

\* The variables that the charges are about.
LEMMA ChargesFrame ==
  ASSUME ChargesOK, UNCHANGED <<events, links, protocols>>
  PROVE  ChargesOK'
BY DEF ChargesOK, Unfinished, PaidBy, EventsOf, ChargedBy

\* A protocol moves on without charging anything.
LEMMA ChargesMove ==
  ASSUME IInv, ChargesOK, UNCHANGED <<events, links>>, NEW p \in DOMAIN protocols,
         NEW st \in ProtocolStates, protocols' = [protocols EXCEPT ![p].state = st],
         st # "offered", protocols[p].state \notin {"offered", "failed"},
         st \in {"started", "pending", "accepted"} => Unfinished(p),
         st \in {"success", "done"} <=> protocols[p].state \in {"success", "done"}
  PROVE  ChargesOK'
<1>1. /\ DOMAIN protocols' = DOMAIN protocols
      /\ \A q \in DOMAIN protocols : /\ protocols'[q].position = protocols[q].position
                                     /\ protocols'[q].charged = protocols[q].charged
                                     /\ protocols'[q].seen = protocols[q].seen
                                     /\ q # p => protocols'[q].state = protocols[q].state
      /\ protocols'[p].state = st
  BY SetProtocol DEF IInv
<1>2. \A e \in DOMAIN events : ChargedBy(e)' = ChargedBy(e)
  BY <1>1 DEF ChargedBy
<1>3. /\ \A q \in DOMAIN protocols : PaidBy(q)' = PaidBy(q)
      /\ \A i : EventsOf(i)' = EventsOf(i)
  BY DEF PaidBy, EventsOf
<1>4. \A q \in DOMAIN protocols :
        /\ Unfinished(q)' => Unfinished(q)
        /\ Unfinished(q)' /\ protocols'[q].state # "offered" => protocols[q].state # "offered"
        /\ protocols'[q].state # "failed" => protocols[q].state # "failed"
  BY <1>1 DEF Unfinished
<1>5. \A k \in DOMAIN links' : /\ links'[k].protocol \in DOMAIN protocols'
                               /\ protocols'[links'[k].protocol].state # "offered"
  BY <1>1 DEF ChargesOK
<1>6. \A q \in DOMAIN protocols' :
        /\ Unfinished(q)' => \A e \in protocols'[q].charged : ~events'[e].paid
        /\ Unfinished(q)' /\ protocols'[q].state # "offered" =>
             PaidBy(q)' = protocols'[q].charged
        /\ protocols'[q].state # "failed" =>
             \A e \in EventsOf(protocols[q].position)' :
               e <= protocols'[q].seen => events'[e].paid \/ e \in protocols'[q].charged
  BY <1>1, <1>3, <1>4 DEF ChargesOK
<1> QED BY <1>2, <1>5, <1>6 DEF ChargesOK

\* A new event is unpaid and nothing charges it.
LEMMA InsertCharges ==
  ASSUME IInv, ChargesOK, NEW i \in DOMAIN positions, insert(i)
  PROVE  ChargesOK'
<1>1. UNCHANGED <<links, protocols>>
  BY DEF insert, protocolVars
<1>2. CASE events' = events
  BY <1>1, <1>2, ChargesFrame
<1>3. CASE events' # events
  <2>1. PICK n : n = Len(events) + 1
    OBVIOUS
  <2>2. PICK r : r = [position |-> i, due |-> job.due, paid |-> FALSE]
    OBVIOUS
  <2>3. events' = Append(events, r) /\ i \in job.todo
    BY <1>3, <2>2 DEF insert
  <2>4. r \in FundingFeeEvent
    <3>1. /\ i \in 1..MaxPositions /\ job.due \in 0..hour /\ hour \in 0..MaxHour
      BY <2>3, TypeFacts DEF IInv, RefsOK, DatesOK, TypeOK
    <3>2. job.due \in 0..MaxHour
      BY <3>1, TypeFacts DEF IInv
    <3> QED BY <2>2, <3>1, <3>2 DEF FundingFeeEvent
  <2>5. /\ DOMAIN events' = DOMAIN events \union {n} /\ DOMAIN events = 1..Len(events)
        /\ Len(events) \in Nat /\ events'[n] = r
        /\ \A e \in DOMAIN events : events'[e] = events[e]
    BY <2>1, <2>3, <2>4, AppendFacts, TypeFacts DEF IInv
  <2>6. ~events'[n].paid /\ n \notin DOMAIN events /\ n \in Nat
    BY <2>1, <2>2, <2>5
  <2>7. /\ \A p \in DOMAIN protocols : protocols[p].charged \subseteq DOMAIN events
        /\ \A p \in DOMAIN protocols : ~(n <= protocols[p].seen)
    <3>1. \A p \in DOMAIN protocols : /\ protocols[p].charged \subseteq DOMAIN events
                                      /\ protocols[p].seen <= Len(events) /\ protocols[p].seen \in Nat
      BY TypeFacts DEF IInv, RefsOK, EventsOf
    <3> QED BY <2>1, <2>5, <3>1
  <2>8. /\ \A p \in DOMAIN protocols : PaidBy(p)' = PaidBy(p) /\ (Unfinished(p)' <=> Unfinished(p))
        /\ \A j : EventsOf(j)' \subseteq EventsOf(j) \union {n} /\ EventsOf(j) \subseteq DOMAIN events
        /\ \A e \in DOMAIN events : ChargedBy(e)' = ChargedBy(e)
        /\ ChargedBy(n)' = {}
    BY <1>1, <2>5, <2>6, <2>7 DEF PaidBy, Unfinished, EventsOf, ChargedBy
  <2>9. ASSUME NEW p \in DOMAIN protocols
        PROVE  /\ Unfinished(p)' => \A e \in protocols'[p].charged : ~events'[e].paid
               /\ Unfinished(p)' /\ protocols'[p].state # "offered" =>
                    PaidBy(p)' = protocols'[p].charged
    BY <1>1, <2>5, <2>7, <2>8 DEF ChargesOK
  <2>10. ASSUME NEW p \in DOMAIN protocols, protocols[p].state # "failed",
                NEW e \in EventsOf(protocols[p].position)', e <= protocols[p].seen
         PROVE  events'[e].paid \/ e \in protocols[p].charged
    <3>1. e \in EventsOf(protocols[p].position) \union {n}
      BY <1>1, <2>8, <2>10
    <3>2. e # n
      BY <2>7, <2>10
    <3>3. events[e].paid \/ e \in protocols[p].charged
      BY <2>10, <3>1, <3>2 DEF ChargesOK
    <3> QED BY <2>5, <2>8, <3>1, <3>2, <3>3
  <2>11. ASSUME NEW e \in DOMAIN events'
         PROVE  /\ events'[e].paid <=> ChargedBy(e)' # {}
                /\ \A p, q \in ChargedBy(e)' : p = q
    <3>1. CASE e = n
      BY <2>6, <2>8, <3>1
    <3>2. CASE e # n
      BY <2>5, <2>8, <3>2 DEF ChargesOK
    <3> QED BY <3>1, <3>2
  <2> QED BY <1>1, <2>9, <2>10, <2>11 DEF ChargesOK
<1> QED BY <1>2, <1>3

\* What is offered is what is outstanding.
LEMMA ProposeCharges ==
  ASSUME IInv, ChargesOK, NEW i \in DOMAIN positions, NEW kind \in Kinds, Propose(i, kind)
  PROVE  ChargesOK'
<1>1. UNCHANGED <<events, links>>
  BY DEF Propose
<1>2. PICK n : n = Len(protocols) + 1
  OBVIOUS
<1>3. PICK c : c = get_outstanding_funding_fee_events(i)
  OBVIOUS
<1>4. c = {e \in EventsOf(i) : ~events[e].paid} /\ c \subseteq Nat
  BY <1>3, TypeFacts DEF IInv, get_outstanding_funding_fee_events, EventsOf
<1>5. PICK r : r = [kind |-> kind, position |-> i, state |-> "offered", charged |-> c,
                    seen |-> Len(events)]
  OBVIOUS
<1>6. protocols' = Append(protocols, r)
  BY <1>3, <1>5 DEF Propose
<1>7. r \in Protocol /\ protocols \in Seq(Protocol)
  <2>1. i \in 1..MaxPositions /\ Len(events) \in Nat /\ protocols \in Seq(Protocol)
    BY TypeFacts DEF IInv, RefsOK
  <2>2. c \in SUBSET Nat
    BY <1>4
  <2> QED BY <1>5, <2>1, <2>2 DEF Protocol, ProtocolStates
<1>8. /\ DOMAIN protocols' = DOMAIN protocols \union {n} /\ n \notin DOMAIN protocols
      /\ \A p \in DOMAIN protocols : protocols'[p] = protocols[p]
      /\ protocols'[n] = r
  <2>1. DOMAIN protocols = 1..Len(protocols) /\ Len(protocols) \in Nat
    BY <1>7
  <2>2. n \notin DOMAIN protocols
    BY <1>2, <2>1
  <2> QED BY <1>2, <1>6, <1>7, <2>2, AppendFacts
<1>9. /\ protocols'[n].position = i /\ protocols'[n].state = "offered" /\ protocols'[n].charged = c
  BY <1>5, <1>8
<1>10. /\ \A p \in DOMAIN protocols : PaidBy(p)' = PaidBy(p) /\ (Unfinished(p)' <=> Unfinished(p))
       /\ \A j : EventsOf(j)' = EventsOf(j)
       /\ \A e \in DOMAIN events : ChargedBy(e)' = ChargedBy(e)
  BY <1>1, <1>8, <1>9 DEF PaidBy, Unfinished, EventsOf, ChargedBy
<1>11. ASSUME NEW p \in DOMAIN protocols'
       PROVE  /\ Unfinished(p)' => \A e \in protocols'[p].charged : ~events'[e].paid
              /\ Unfinished(p)' /\ protocols'[p].state # "offered" =>
                   PaidBy(p)' = protocols'[p].charged
              /\ protocols'[p].state # "failed" =>
                   \A e \in EventsOf(protocols[p].position)' :
                     e <= protocols'[p].seen => events'[e].paid \/ e \in protocols'[p].charged
  <2>1. CASE p = n
    BY <1>1, <1>4, <1>9, <1>10, <2>1
  <2>2. CASE p # n
    BY <1>1, <1>8, <1>10, <2>2 DEF ChargesOK
  <2> QED BY <2>1, <2>2
<1>12. \A k \in DOMAIN links : /\ links[k].protocol \in DOMAIN protocols'
                               /\ protocols'[links[k].protocol].state # "offered"
  BY <1>8 DEF ChargesOK
<1> QED BY <1>1, <1>10, <1>11, <1>12 DEF ChargesOK

\* The rows of the started protocol are the events it charges.
LEMMA StartCharges ==
  ASSUME IInv, ChargesOK, NEW p \in DOMAIN protocols, StartProtocol(p)
  PROVE  ChargesOK'
<1>1. UNCHANGED events
  BY DEF StartProtocol
<1>2. PICK st \in ProtocolStates : st = "started"
  BY DEF ProtocolStates
<1>3. /\ protocols[p].state = "offered" /\ protocols' = [protocols EXCEPT ![p].state = st]
  BY <1>2 DEF StartProtocol
<1>4. /\ DOMAIN protocols' = DOMAIN protocols
      /\ \A q \in DOMAIN protocols : /\ protocols'[q].position = protocols[q].position
                                     /\ protocols'[q].charged = protocols[q].charged
                                     /\ protocols'[q].seen = protocols[q].seen
                                     /\ q # p => protocols'[q].state = protocols[q].state
      /\ protocols'[p].state = "started"
  BY <1>2, <1>3, SetProtocol DEF IInv
<1>5. /\ DOMAIN links \subseteq DOMAIN links'
      /\ \A k \in DOMAIN links : links'[k] = links[k]
      /\ \A k \in DOMAIN links' \ DOMAIN links :
           /\ links'[k].protocol = p /\ links'[k].event \in protocols[p].charged
           /\ ~links'[k].deleted
      /\ \A e \in protocols[p].charged : \E k \in DOMAIN links' \ DOMAIN links :
           links'[k].event = e
  BY LinkFacts DEF StartProtocol
<1>6. \A k \in DOMAIN links : /\ links[k].protocol \in DOMAIN protocols /\ links[k].protocol # p
                              /\ protocols[links[k].protocol].state # "offered"
  BY <1>3 DEF ChargesOK
<1>7. PaidBy(p)' = protocols[p].charged
  BY <1>5, <1>6 DEF PaidBy
<1>8. \A q \in DOMAIN protocols : q # p => PaidBy(q)' = PaidBy(q)
  BY <1>5 DEF PaidBy
<1>9. /\ \A q \in DOMAIN protocols : Unfinished(q)' <=> Unfinished(q)
      /\ \A j : EventsOf(j)' = EventsOf(j)
      /\ \A e \in DOMAIN events : ChargedBy(e)' = ChargedBy(e)
  BY <1>1, <1>3, <1>4 DEF Unfinished, EventsOf, ChargedBy
<1>10. ASSUME NEW q \in DOMAIN protocols
       PROVE  /\ Unfinished(q)' => \A e \in protocols'[q].charged : ~events'[e].paid
              /\ Unfinished(q)' /\ protocols'[q].state # "offered" =>
                   PaidBy(q)' = protocols'[q].charged
              /\ protocols'[q].state # "failed" =>
                   \A e \in EventsOf(protocols[q].position)' :
                     e <= protocols'[q].seen => events'[e].paid \/ e \in protocols'[q].charged
  <2>1. CASE q = p
    BY <1>1, <1>3, <1>4, <1>7, <1>9, <2>1 DEF ChargesOK
  <2>2. CASE q # p
    BY <1>1, <1>4, <1>8, <1>9, <2>2 DEF ChargesOK
  <2> QED BY <2>1, <2>2
<1>11. \A k \in DOMAIN links' : /\ links'[k].protocol \in DOMAIN protocols'
                                /\ protocols'[links'[k].protocol].state # "offered"
  BY <1>4, <1>5, <1>6
<1> QED BY <1>1, <1>4, <1>9, <1>10, <1>11 DEF ChargesOK

\* The step that needs a single trader: the rows that are deleted by mistake are
\* then rows of protocols that are over.
LEMMA FinishCharges ==
  ASSUME IInv, ChargesOK, OneTrader, NEW p \in DOMAIN protocols, finish_dlc_protocol(p)
  PROVE  ChargesOK'
<1>1. PICK st \in ProtocolStates : st = "success"
  BY DEF ProtocolStates
<1>2. protocols[p].state = "accepted" /\ protocols' = [protocols EXCEPT ![p].state = st]
  BY <1>1 DEF finish_dlc_protocol
<1>3. /\ DOMAIN protocols' = DOMAIN protocols
      /\ \A q \in DOMAIN protocols : /\ protocols'[q].position = protocols[q].position
                                     /\ protocols'[q].charged = protocols[q].charged
                                     /\ protocols'[q].seen = protocols[q].seen
                                     /\ q # p => protocols'[q].state = protocols[q].state
      /\ protocols'[p].state = "success"
  BY <1>1, <1>2, SetProtocol DEF IInv
<1>4. Unfinished(p) /\ InProgress(p)
  BY <1>2 DEF Unfinished, InProgress
<1>5. PaidBy(p) = protocols[p].charged /\ \A e \in protocols[p].charged : ~events[e].paid
  BY <1>2, <1>4 DEF ChargesOK
<1>6. /\ DOMAIN events' = DOMAIN events
      /\ \A e \in DOMAIN events : /\ events'[e].position = events[e].position
                                  /\ events'[e].paid <=> events[e].paid \/ e \in PaidBy(p)
      /\ DOMAIN links' = DOMAIN links
      /\ \A k \in DOMAIN links : links'[k].protocol = links[k].protocol
  BY MarkFacts DEF IInv, finish_dlc_protocol
<1>7. \A q \in DOMAIN protocols : ~Unfinished(q)'
  <2>1. ASSUME NEW q \in DOMAIN protocols, Unfinished(q)' PROVE FALSE
    <3>1. q # p /\ InProgress(q)
      BY <1>3, <2>1 DEF Unfinished, InProgress
    <3> QED BY <1>4, <3>1, OneInProgress
  <2> QED BY <2>1
<1>8. /\ \A j : EventsOf(j)' = EventsOf(j)
      /\ \A j : EventsOf(j) \subseteq DOMAIN events
  BY <1>6 DEF EventsOf
<1>9. ASSUME NEW e \in DOMAIN events
      PROVE  /\ e \in protocols[p].charged => ChargedBy(e)' = ChargedBy(e) \union {p}
             /\ e \notin protocols[p].charged => ChargedBy(e)' = ChargedBy(e)
  BY <1>2, <1>3 DEF ChargedBy
<1>10. ASSUME NEW e \in DOMAIN events
       PROVE  /\ events'[e].paid <=> ChargedBy(e)' # {}
              /\ \A r, q \in ChargedBy(e)' : r = q
  <2>1. /\ events[e].paid <=> ChargedBy(e) # {}
        /\ \A r, q \in ChargedBy(e) : r = q
    BY DEF ChargesOK
  <2>2. CASE e \in protocols[p].charged
    BY <1>5, <1>6, <1>9, <2>1, <2>2
  <2>3. CASE e \notin protocols[p].charged
    BY <1>5, <1>6, <1>9, <2>1, <2>3
  <2> QED BY <2>2, <2>3
<1>11. ASSUME NEW q \in DOMAIN protocols, protocols'[q].state # "failed",
              NEW e \in EventsOf(protocols[q].position), e <= protocols[q].seen
       PROVE  events'[e].paid \/ e \in protocols[q].charged
  <2>1. protocols[q].state # "failed"
    BY <1>2, <1>3, <1>11
  <2>2. events[e].paid \/ e \in protocols[q].charged
    BY <1>11, <2>1 DEF ChargesOK
  <2> QED BY <1>6, <1>8, <2>2
<1>12. \A k \in DOMAIN links' : /\ links'[k].protocol \in DOMAIN protocols'
                                /\ protocols'[links'[k].protocol].state # "offered"
  BY <1>3, <1>6 DEF ChargesOK
<1>13. \A q \in DOMAIN protocols' :
        /\ Unfinished(q)' => \A e \in protocols'[q].charged : ~events'[e].paid
        /\ Unfinished(q)' /\ protocols'[q].state # "offered" =>
             PaidBy(q)' = protocols'[q].charged
        /\ protocols'[q].state # "failed" =>
             \A e \in EventsOf(protocols[q].position)' :
               e <= protocols'[q].seen => events'[e].paid \/ e \in protocols'[q].charged
  BY <1>3, <1>7, <1>8, <1>11
<1> QED BY <1>6, <1>10, <1>12, <1>13 DEF ChargesOK

\* With one trader every step keeps the charges in order.
LEMMA StepCharges ==
  ASSUME IInv, ChargesOK, OneTrader, [Next]_vars
  PROVE  ChargesOK'
<1>1. ASSUME NEW t \in Traders,
             persist_position(t) \/ AppHandle(t) \/ Login(t) \/ Register(t) \/ Logout(t)
      PROVE  UNCHANGED <<events, links, protocols>>
  BY <1>1 DEF persist_position, AppHandle, Login, Register, Logout, protocolVars
<1>2. ASSUME NEW i \in DOMAIN positions, finish_open_position(i) \/ AppOpens(i)
      PROVE  UNCHANGED <<events, links, protocols>>
  BY <1>2 DEF finish_open_position, AppOpens, protocolVars
<1>3. ASSUME NEW p \in DOMAIN protocols,
             UpdatePosition(p) \/ AppAccepts(p) \/ AppRejects(p) \/ AppFinishes(p)
      PROVE  ChargesOK'
  <2>1. PICK st : \/ st = "pending" /\ UpdatePosition(p)
                  \/ st = "accepted" /\ AppAccepts(p)
                  \/ st = "failed" /\ AppRejects(p)
                  \/ st = "done" /\ AppFinishes(p)
    BY <1>3
  <2>2. UNCHANGED <<events, links>> /\ st \in ProtocolStates /\ st # "offered"
    BY <2>1 DEF UpdatePosition, AppAccepts, AppRejects, AppFinishes, ProtocolStates
  <2>3. /\ protocols' = [protocols EXCEPT ![p].state = st]
        /\ \/ st = "pending" /\ protocols[p].state = "started"
           \/ st \in {"accepted", "failed"} /\ protocols[p].state = "pending"
           \/ st = "done" /\ protocols[p].state = "success"
    BY <2>1 DEF UpdatePosition, AppAccepts, AppRejects, AppFinishes
  <2>4. /\ protocols[p].state \notin {"offered", "failed"}
        /\ st \in {"started", "pending", "accepted"} => Unfinished(p)
        /\ st \in {"success", "done"} <=> protocols[p].state \in {"success", "done"}
    BY <2>3 DEF Unfinished
  <2> QED BY <2>2, <2>3, <2>4, ChargesMove
<1>4. ASSUME NEW end_date \in 1..MaxHour, insert_funding_rates(end_date)
      PROVE  UNCHANGED <<events, links, protocols>>
  BY <1>4 DEF insert_funding_rates, protocolVars
<1>5. ASSUME Tick \/ StartJob \/ SendEvent \/ JobFails \/ Deliver \/ Restart
      PROVE  UNCHANGED <<events, links, protocols>>
  BY <1>5 DEF Tick, StartJob, SendEvent, JobFails, Deliver, Restart, protocolVars
<1>6. ASSUME UNCHANGED vars PROVE UNCHANGED <<events, links, protocols>>
  BY <1>6 DEF vars
<1>7. ASSUME NEW i \in DOMAIN positions, insert(i) \/ \E kind \in Kinds : Propose(i, kind)
      PROVE  ChargesOK'
  BY <1>7, InsertCharges, ProposeCharges
<1>8. ASSUME NEW p \in DOMAIN protocols, StartProtocol(p) \/ finish_dlc_protocol(p)
      PROVE  ChargesOK'
  BY <1>8, StartCharges, FinishCharges
<1> QED BY <1>1, <1>2, <1>3, <1>4, <1>5, <1>6, <1>7, <1>8, ChargesFrame DEF Next

\* At the start nothing is charged.
LEMMA InitCharges ==
  ASSUME Init
  PROVE  ChargesOK
<1>1. DOMAIN links = {} /\ DOMAIN protocols = {} /\ DOMAIN events = {}
  BY DEF Init
<1> QED BY <1>1 DEF ChargesOK

\* An event has no protocol that charged it, or a single one.
LEMMA ChargedOnce ==
  ASSUME ChargesOK
  PROVE  ChargedExactlyOnce
<1> SUFFICES ASSUME NEW e \in DOMAIN events
             PROVE  Cardinality(ChargedBy(e)) = IF events[e].paid THEN 1 ELSE 0
  BY DEF ChargedExactlyOnce
<1>1. CASE ChargedBy(e) = {}
  BY <1>1, FS_EmptySet DEF ChargesOK
<1>2. CASE ChargedBy(e) # {}
  <2>1. PICK p : p \in ChargedBy(e)
    BY <1>2
  <2>2. ChargedBy(e) = {p}
    BY <2>1 DEF ChargesOK
  <2>3. Cardinality(ChargedBy(e)) = 1
    BY <2>2, FS_Singleton
  <2>4. events[e].paid
    BY <1>2 DEF ChargesOK
  <2> QED BY <2>3, <2>4
<1> QED BY <1>1, <1>2

\* What a finished protocol charged is paid, and it charged what was not.
LEMMA PaidWhenClosed ==
  ASSUME IInv, ChargesOK
  PROVE  ClosedIsPaid
<1> SUFFICES ASSUME NEW p \in DOMAIN protocols, protocols[p].state \in {"success", "done"},
                    NEW e \in EventsOf(protocols[p].position), e <= protocols[p].seen
             PROVE  events[e].paid
  BY DEF ClosedIsPaid
<1>1. e \in DOMAIN events /\ (events[e].paid \/ e \in protocols[p].charged)
  BY DEF ChargesOK, EventsOf
<1>2. CASE e \in protocols[p].charged
  <2>1. p \in ChargedBy(e)
    BY <1>2 DEF ChargedBy
  <2> QED BY <1>1, <2>1 DEF ChargesOK
<1> QED BY <1>1, <1>2

\* With one trader an event is charged by one finished protocol when it is marked
\* as paid, and by none otherwise (mark_funding_fee_event_as_paid).
THEOREM EventsAreChargedOnce ==
  ASSUME OneTrader
  PROVE  Spec => []ChargedExactlyOnce
<1>1. Init => IInv /\ ChargesOK
  BY InitIInv, InitCharges
<1>2. IInv /\ ChargesOK /\ [Next]_vars => IInv' /\ ChargesOK'
  BY StepIInv, StepCharges
<1>3. ChargesOK => ChargedExactlyOnce
  BY ChargedOnce
<1> QED BY <1>1, <1>2, <1>3, PTL DEF Spec

\* With one trader every event that a position had when its close was proposed is
\* paid once it is closed (start_closing_position).
THEOREM ClosedPositionsArePaid ==
  ASSUME OneTrader
  PROVE  Spec => []ClosedIsPaid
<1>1. Init => IInv /\ ChargesOK
  BY InitIInv, InitCharges
<1>2. IInv /\ ChargesOK /\ [Next]_vars => IInv' /\ ChargesOK'
  BY StepIInv, StepCharges
<1>3. IInv /\ ChargesOK => ClosedIsPaid
  BY PaidWhenClosed
<1> QED BY <1>1, <1>2, <1>3, PTL DEF Spec

=============================================================================
