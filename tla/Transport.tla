----------------------------- MODULE Transport -----------------------------
(***************************************************************************)
(* How a DLC message gets from one node to the other                       *)
(* (crates/xxi-node: message_handler.rs, networking, node/connection.rs,   *)
(* node/event.rs; the dlc_handler.rs and the message tables of both        *)
(* nodes).                                                                 *)
(*                                                                         *)
(* The protocol code publishes a node event; the DlcHandler task stores    *)
(* the message and hands it to the TenTenOneMessageHandler, which cuts it  *)
(* into segments; LDK's peer manager queues them for the connection; the   *)
(* socket task writes them to the kernel, and pauses reading while the     *)
(* kernel does not take more.  The other node reads, puts segments         *)
(* together and processes what it received.  Whenever a connection is      *)
(* established each node sends its last outbound message again.            *)
(*                                                                         *)
(* LDK's peer manager and the kernel are external.  Nothing in the         *)
(* repository calls timer_tick_occurred, so LDK never pings a peer and     *)
(* never times one out.  Connections are TCP or web sockets.               *)
(***************************************************************************)
EXTENDS Integers, Sequences, FiniteSets

CONSTANTS
    Script,        \* for each node the messages it sends: kind and number of segments
    KernelBuffer,  \* segments the kernels hold in one direction of a connection
    BufferLimit,   \* OUTBOUND_BUFFER_LIMIT_READ_PAUSE of LDK
    MaxConnections, \* bound on the connections made
    MaxFaults      \* bound on lost connections and restarts

Nodes == {"coordinator", "app"}
Peer(n) == CHOOSE p \in Nodes : p # n

ASSUME BuffersAssumption == KernelBuffer \in Nat \ {0} /\ BufferLimit \in Nat \ {0, 1}
ASSUME FaultsAssumption == MaxConnections \in Nat /\ MaxFaults \in Nat

VARIABLES
    published,  \* number of messages of its script a node has published
    events,     \* node events the DlcHandler task has yet to receive
    table,      \* dlc_messages
    lastOut,    \* last_outbound_dlc_messages: the message and its hash, 0 if there is none
    conn,       \* the node's end of the connection
    wire,       \* segments a node's kernel has taken and the peer has not read
    broken,     \* whether the kernel has an error or the end of the stream to report
    silent,     \* whether the network between the two lost everything without a notice
    reader,     \* segment_readers: the segments of an incomplete message
    received,   \* msg_received
    connections, faults

vars == <<published, events, table, lastOut, conn, wire, broken, silent, reader, received,
          connections, faults>>

-----------------------------------------------------------------------------
(* Messages.  A message is the index in its sender's script, which stands  *)
(* for its content and its hash, together with its kind.                   *)

\* The number each kind of message has on the wire.
TypeId ==
    [Reject |-> 43024, Offer |-> 43000, Accept |-> 43002, Sign |-> 43004,
     SettleOffer |-> 43006, SettleAccept |-> 43008, SettleConfirm |-> 43010,
     SettleFinalize |-> 43012, RenewOffer |-> 43014, RenewAccept |-> 43016,
     RenewConfirm |-> 43018, RenewFinalize |-> 43020, RenewRevoke |-> 43026,
     RolloverOffer |-> 43028, RolloverAccept |-> 43030, RolloverConfirm |-> 43032,
     RolloverFinalize |-> 43034, RolloverRevoke |-> 43036,
     CollaborativeCloseOffer |-> 43022]

Kinds == DOMAIN TypeId
Bug_read_tentenone_message(id) ==
    CHOOSE k \in Kinds : TypeId[k] = IF id = TypeId.RolloverRevoke THEN TypeId.RenewRevoke ELSE id
read_tentenone_message(id) == CHOOSE k \in Kinds : TypeId[k] = id

ASSUME ScriptAssumption ==
    Script \in [Nodes -> Seq([kind : Kinds, segments : Nat \ {0}])]

\* What the nodes keep: events for the DlcHandler, messages decoded and not yet
\* processed, and the rows of the two message tables.
NodeEvent == [type : {"Connected", "SendDlcMessage"}, hash : Nat]
ReceivedMessage == [hash : Nat, kind : Kinds]
MessageRow == [message_hash : Nat, message_type : Kinds, inbound : BOOLEAN]
LastOutboundDlcMessage == [message_hash : Nat, message : Nat]
WireMessage ==
    [type : {"Init", "Message", "SegmentStart", "SegmentChunk"}, hash : Nat, id : Nat, of : Nat]

\* Bytes on the wire: the Init message that ends the handshake, a whole message,
\* the start of a segmented one, or one of its further chunks.
InitMessage == [type |-> "Init", hash |-> 0, id |-> 0, of |-> 0]
Segment(m, i, of) ==
    [type |-> IF of = 1 THEN "Message" ELSE IF i = 1 THEN "SegmentStart" ELSE "SegmentChunk",
     hash |-> m.hash, id |-> TypeId[m.kind], of |-> of]

\* send_message: all segments of a message enter the queue together.
send_message(n, m) ==
    LET of == Script[n][m.hash].segments
    IN  [i \in 1 .. of |-> Segment(m, i, of)]

Decoded(w) == [hash |-> w.hash, kind |-> read_tentenone_message(w.id)]

\* The segment reader after a segment, the message it completes (at most one), and
\* whether the peer manager is told to disconnect.
Bug_reset(r) == r
reset(r) == <<>>

process_segment_chunk(r, w) ==
    LET s == Append(r, w)
    IN  IF Len(s) < s[1].of THEN [reader |-> s, messages |-> <<>>, ok |-> TRUE]
        ELSE [reader |-> <<>>,
              messages |-> IF \A i \in DOMAIN s : s[i].hash = s[1].hash
                           THEN <<Decoded(s[1])>> ELSE <<>>,
              ok |-> \A i \in DOMAIN s : s[i].hash = s[1].hash]

handle_custom_message(r, w) ==
    IF r # <<>> /\ w.type = "SegmentChunk" THEN process_segment_chunk(r, w)
    ELSE LET fresh == IF r # <<>> THEN reset(r) ELSE r
         IN  CASE w.type = "Message" ->
                    [reader |-> fresh, messages |-> <<Decoded(w)>>, ok |-> TRUE]
               [] w.type = "SegmentStart" ->
                    [reader |-> <<w>>, messages |-> <<>>, ok |-> fresh = <<>>]
               [] OTHER -> [reader |-> fresh, messages |-> <<>>, ok |-> FALSE]

-----------------------------------------------------------------------------
(* One end of a connection.                                                *)
(*   buffer   what LDK has queued (TCP), or the socket task (web socket)   *)
(*   awaiting LDK waits for write_buffer_space_avail                       *)
(*   waker    the kernel will say when it takes more                       *)
(*   avail    the channel of depth one that tells the read task so         *)
(*   paused   read_paused; read_waker has the read task look at it again   *)
(*   sending  the task of a web socket is in ws.send                       *)

Connection ==
    [state : {"closed", "handshake", "ready", "forgotten"}, ws : BOOLEAN, buffer : Seq(WireMessage),
     awaiting : BOOLEAN, waker : BOOLEAN, avail : BOOLEAN, paused : BOOLEAN, sending : BOOLEAN]
Closed == [state |-> "closed", ws |-> FALSE, buffer |-> <<>>, awaiting |-> FALSE, waker |-> FALSE,
           avail |-> FALSE, paused |-> FALSE, sending |-> FALSE]

should_read(c) == Len(c.buffer) < BufferLimit

\* send_data, called until the buffer is empty or the kernel takes no more.  With the
\* stream broken a write fails: nothing is registered, the read task is to notice.
Bug_send_data(c, k, isBroken) ==
    [c EXCEPT !.buffer = SubSeq(@, k + 1, Len(@)),
              !.awaiting = k < Len(c.buffer), !.paused = k < Len(c.buffer)]
send_data(c, k, isBroken) ==
    IF isBroken
    THEN [c EXCEPT !.awaiting = c.buffer # <<>>,
                   !.paused = @ /\ ~ should_read(c)]
    ELSE LET full == k < Len(c.buffer)
         IN  [c EXCEPT !.buffer = SubSeq(@, k + 1, Len(@)),
                       !.awaiting = full, !.waker = full, !.paused = full]

Room(n) == KernelBuffer - Len(wire[n])
Min2(a, b) == IF a < b THEN a ELSE b

\* do_attempt_write_data for the end c of node n: what it becomes and what is on the wire.
\* The task of a web socket takes the data from a channel without a bound instead.
Written(n, c) ==
    LET k == IF broken[n] THEN 0 ELSE Min2(Len(c.buffer), Room(n))
    IN  IF c.ws \/ c.awaiting THEN [conn |-> c, wire |-> wire[n]]
        ELSE [conn |-> send_data(c, k, broken[n]), wire |-> wire[n] \o SubSeq(c.buffer, 1, k)]

\* The kernel wakes a task that waits to write: there is room again, or an error.
Woken(c) == IF c.waker THEN [c EXCEPT !.waker = FALSE, !.avail = TRUE] ELSE c

\* The end of n is gone; unless the network is silent, its peer is told.
Disconnected(n) ==
    LET last == conn[Peer(n)].state = "closed"
    IN  /\ conn' = [conn EXCEPT ![n] = Closed,
                                ![Peer(n)] = IF silent THEN @ ELSE Woken(@)]
        /\ wire' = IF last THEN [m \in Nodes |-> <<>>]
                   ELSE [wire EXCEPT ![IF silent THEN n ELSE Peer(n)] = <<>>]
        /\ broken' = IF last THEN [m \in Nodes |-> FALSE]
                     ELSE [broken EXCEPT ![n] = FALSE, ![Peer(n)] = @ \/ ~ silent]
        /\ silent' = (silent /\ ~ last)

-----------------------------------------------------------------------------
(* Connections *)

\* The end of the app, and that of the coordinator's listeners.
OutboundTcp == [Closed EXCEPT !.state = "handshake"]
OutboundWs == [Closed EXCEPT !.state = "handshake", !.ws = TRUE]
InboundTcp == [Closed EXCEPT !.state = "handshake"]
InboundWs == [Closed EXCEPT !.state = "handshake", !.ws = TRUE]
connect_outbound(ws) ==
    [app |-> IF ws THEN OutboundWs ELSE OutboundTcp,
     coordinator |-> IF ws THEN InboundWs ELSE InboundTcp]

\* keep_connected of the app dials whenever its connection has ended.  The coordinator's
\* peer manager refuses a second connection of a peer it believes is connected; then the
\* app tries again.
Dial(ws) ==
    /\ \A n \in Nodes : conn[n].state = "closed"
    /\ connections < MaxConnections
    /\ connections' = connections + 1
    /\ conn' = connect_outbound(ws)
    /\ wire' = [n \in Nodes |-> <<InitMessage>>]
    /\ UNCHANGED <<published, events, table, lastOut, broken, silent, reader, received, faults>>

\* The connection is cut, and each kernel has some of what was sent to it.
Prefixes(s) == {SubSeq(s, 1, k) : k \in 0 .. Len(s)}
Cut ==
    /\ faults < MaxFaults
    /\ faults' = faults + 1
    /\ ~ silent
    /\ \A n \in Nodes : conn[n].state # "closed" /\ ~ broken[n]
    /\ conn' = [n \in Nodes |-> Woken(conn[n])]
    /\ \E toApp \in Prefixes(wire["coordinator"]), toCoordinator \in Prefixes(wire["app"]) :
        wire' = [coordinator |-> toApp, app |-> toCoordinator]
    /\ broken' = [n \in Nodes |-> TRUE]
    /\ UNCHANGED <<published, events, table, lastOut, silent, reader, received, connections>>

\* The network is gone and neither kernel knows.
GoSilent ==
    /\ faults < MaxFaults
    /\ faults' = faults + 1
    /\ ~ silent
    /\ \A n \in Nodes : conn[n].state # "closed" /\ ~ broken[n]
    /\ silent' = TRUE
    /\ UNCHANGED <<published, events, table, lastOut, conn, wire, broken, reader, received,
                   connections>>

\* Data that is never acknowledged makes the kernel give up.
KernelGivesUp(n) ==
    /\ silent /\ wire[n] # <<>> /\ ~ broken[n] /\ conn[n].state # "closed"
    /\ broken' = [broken EXCEPT ![n] = TRUE]
    /\ conn' = [conn EXCEPT ![n] = Woken(@)]
    /\ UNCHANGED <<published, events, table, lastOut, wire, silent, reader, received,
                   connections, faults>>

\* The process ends and starts again; what is in the database stays.
Restart(n) ==
    /\ faults < MaxFaults
    /\ faults' = faults + 1
    /\ IF conn[n].state = "closed" THEN UNCHANGED <<conn, wire, broken, silent>>
       ELSE Disconnected(n)
    /\ events' = [events EXCEPT ![n] = <<>>]
    /\ reader' = [reader EXCEPT ![n] = <<>>]
    /\ received' = [received EXCEPT ![n] = <<>>]
    /\ UNCHANGED <<published, table, lastOut, connections>>

-----------------------------------------------------------------------------
(* The socket tasks: schedule_read of tcp.rs, process_messages of axum.rs  *)
(* and tungstenite.rs                                                      *)

Readable(n) == ~ silent /\ wire[Peer(n)] # <<>>
CanRead(n) ==
    /\ conn[n].state \in {"handshake", "ready"}
    /\ ~ conn[n].paused /\ ~ conn[n].sending

\* What read_event does with what was read: the handshake ends with peer_connected, and
\* everything else is for the message handler, which may have the peer disconnected; the
\* task of a web socket ignores that, and its socket stays open.
peer_connected(n, c) ==
    /\ conn' = [conn EXCEPT ![n] = [c EXCEPT !.state = "ready"], ![Peer(n)] = Woken(@)]
    /\ wire' = [wire EXCEPT ![Peer(n)] = Tail(@)]
    /\ events' = [events EXCEPT ![n] = Append(@, [type |-> "Connected", hash |-> 0])]
    /\ UNCHANGED <<reader, received, broken, silent>>

Handled(n, c, result) ==
    /\ IF result.ok \/ c.ws
       THEN /\ conn' = [conn EXCEPT ![n] = IF result.ok THEN c ELSE [c EXCEPT !.state = "forgotten"],
                                    ![Peer(n)] = Woken(@)]
            /\ wire' = [wire EXCEPT ![Peer(n)] = Tail(@)]
            /\ UNCHANGED <<broken, silent>>
       ELSE Disconnected(n)
    /\ reader' = [reader EXCEPT ![n] = result.reader]
    /\ received' = [received EXCEPT ![n] = @ \o result.messages]
    /\ UNCHANGED events

\* Reading makes room in the kernel of the peer.  Reading is paused while LDK has much
\* to write, which it never has for a web socket.
ReadEvent(n) ==
    LET w == Head(wire[Peer(n)])
        c == [conn[n] EXCEPT !.paused = ~ conn[n].ws /\ ~ should_read(conn[n])]
    IN  /\ CanRead(n) /\ Readable(n)
        /\ IF w.type = "Init" THEN peer_connected(n, c)
           ELSE Handled(n, c, handle_custom_message(reader[n], w))
        /\ UNCHANGED <<published, table, lastOut, connections, faults>>

\* The end of the stream, or an error: socket_disconnected.
ReadEnd(n) ==
    /\ CanRead(n) /\ ~ Readable(n) /\ broken[n]
    /\ Disconnected(n)
    /\ UNCHANGED <<published, events, table, lastOut, reader, received, connections, faults>>

\* The read task learns that the kernel takes more: write_buffer_space_avail.
WriteAvail(n) ==
    LET c == [conn[n] EXCEPT !.avail = FALSE, !.awaiting = FALSE]
    IN  /\ conn[n].state # "closed" /\ conn[n].avail
        /\ conn' = [conn EXCEPT ![n] = Written(n, c).conn]
        /\ wire' = [wire EXCEPT ![n] = Written(n, c).wire]
        /\ UNCHANGED <<published, events, table, lastOut, broken, silent, reader, received,
                       connections, faults>>

\* A web socket's task takes a message from its channel, and reads nothing until
\* ws.send has returned.
WsTake(n) ==
    /\ conn[n].ws /\ ~ conn[n].sending /\ conn[n].buffer # <<>>
    /\ conn' = [conn EXCEPT ![n].sending = TRUE]
    /\ UNCHANGED <<published, events, table, lastOut, wire, broken, silent, reader, received,
                   connections, faults>>

WsSend(n) ==
    /\ conn[n].ws /\ conn[n].sending
    /\ IF broken[n] THEN Disconnected(n)
       ELSE /\ Room(n) > 0
            /\ wire' = [wire EXCEPT ![n] = Append(@, Head(conn[n].buffer))]
            /\ conn' = [conn EXCEPT ![n].sending = FALSE, ![n].buffer = Tail(@)]
            /\ UNCHANGED <<broken, silent>>
    /\ UNCHANGED <<published, events, table, lastOut, reader, received, connections, faults>>

-----------------------------------------------------------------------------
(* The DlcHandler task *)

\* send_dlc_message of the node library: the message is queued and process_events is
\* called.  The peer manager drops what is for a peer that is not connected.
Transmit(n, m) ==
    LET c == [conn[n] EXCEPT !.buffer = @ \o send_message(n, m)]
    IN  IF conn[n].state = "ready"
        THEN /\ conn' = [conn EXCEPT ![n] = Written(n, c).conn]
             /\ wire' = [wire EXCEPT ![n] = Written(n, c).wire]
        ELSE UNCHANGED <<conn, wire>>

\* The protocol code has a message to send: NodeEvent::SendDlcMessage.
Publish(n) ==
    /\ published[n] < Len(Script[n])
    /\ published' = [published EXCEPT ![n] = @ + 1]
    /\ events' = [events EXCEPT ![n] = Append(@, [type |-> "SendDlcMessage",
                                                  hash |-> published[n] + 1])]
    /\ UNCHANGED <<table, lastOut, conn, wire, broken, silent, reader, received, connections,
                   faults>>

\* A message as it is stored: its content, and its type beside it.
SerializedDlcMessage(m) == [message |-> m.hash, message_type |-> m.kind]
generate_hash(s) == s.message
TenTenOneMessage(s) == [hash |-> s.message, kind |-> s.message_type]

DlcMessage(s, inbound) ==
    [message_hash |-> generate_hash(s), message_type |-> s.message_type, inbound |-> inbound]
insert(rows, s, inbound) == rows \union {DlcMessage(s, inbound)}

upsert_last_outbound(s) == [message_hash |-> generate_hash(s), message |-> s.message]
NoMessage == [message_hash |-> 0, message |-> 0]
\* The last outbound message; its type comes from the row of dlc_messages with its hash.
get_last_outbound(n) ==
    LET row == CHOOSE r \in table[n] :
                    r.message_hash = lastOut[n].message_hash /\ ~ r.inbound
    IN  [message |-> lastOut[n].message, message_type |-> row.message_type]

\* send_dlc_message of the DlcHandler: store_dlc_message, then send.
SendDlcMessage(n) ==
    LET hash == Head(events[n]).hash
        m == [hash |-> hash, kind |-> Script[n][hash].kind]
    IN  /\ events[n] # <<>> /\ Head(events[n]).type = "SendDlcMessage"
        /\ events' = [events EXCEPT ![n] = Tail(@)]
        /\ table' = [table EXCEPT ![n] = insert(@, SerializedDlcMessage(m), FALSE)]
        /\ lastOut' = [lastOut EXCEPT ![n] = upsert_last_outbound(SerializedDlcMessage(m))]
        /\ Transmit(n, m)
        /\ UNCHANGED <<published, broken, silent, reader, received, connections, faults>>

\* on_connect: send_last_dlc_message.
OnConnect(n) ==
    /\ events[n] # <<>> /\ Head(events[n]).type = "Connected"
    /\ events' = [events EXCEPT ![n] = Tail(@)]
    /\ IF lastOut[n] = NoMessage THEN UNCHANGED <<conn, wire>>
       ELSE Transmit(n, TenTenOneMessage(get_last_outbound(n)))
    /\ UNCHANGED <<published, table, lastOut, broken, silent, reader, received, connections,
                   faults>>

get_and_clear_received_messages(n) == received' = [received EXCEPT ![n] = <<>>]

\* process_incoming_dlc_messages: every message received is processed, unless it was
\* before, and recorded as processed.
ProcessIncoming(n) ==
    /\ received[n] # <<>>
    /\ get_and_clear_received_messages(n)
    /\ table' = [table EXCEPT ![n] = @ \union
                    {DlcMessage(SerializedDlcMessage(received[n][i]), TRUE) :
                        i \in DOMAIN received[n]}]
    /\ UNCHANGED <<published, events, lastOut, conn, wire, broken, silent, reader, connections,
                   faults>>

-----------------------------------------------------------------------------
Init ==
    /\ published = [n \in Nodes |-> 0]
    /\ events = [n \in Nodes |-> <<>>]
    /\ table = [n \in Nodes |-> {}]
    /\ lastOut = [n \in Nodes |-> NoMessage]
    /\ conn = [n \in Nodes |-> Closed]
    /\ wire = [n \in Nodes |-> <<>>]
    /\ broken = [n \in Nodes |-> FALSE]
    /\ silent = FALSE
    /\ reader = [n \in Nodes |-> <<>>]
    /\ received = [n \in Nodes |-> <<>>]
    /\ connections = 0 /\ faults = 0

SocketTask(n) ==
    ReadEvent(n) \/ ReadEnd(n) \/ WriteAvail(n) \/ WsTake(n) \/ WsSend(n)
HandlerTask(n) == SendDlcMessage(n) \/ OnConnect(n) \/ ProcessIncoming(n)

Background ==
    \/ \E n \in Nodes : SocketTask(n) \/ HandlerTask(n) \/ KernelGivesUp(n)
    \/ \E ws \in BOOLEAN : Dial(ws)

Next ==
    \/ Background
    \/ \E n \in Nodes : Publish(n) \/ Restart(n)
    \/ Cut
    \/ GoSilent

\* Tokio runs every task, keep_connected dials for ever, and the kernel reports
\* what it knows.  Nobody owes a message, a failure or a restart.
Spec == Init /\ [][Next]_vars /\ WF_vars(Background)

-----------------------------------------------------------------------------
(* Properties *)

\* The types of the variables.
TypeOK ==
    /\ published \in [Nodes -> Nat]
    /\ events \in [Nodes -> Seq(NodeEvent)]
    /\ table \in [Nodes -> SUBSET MessageRow]
    /\ lastOut \in [Nodes -> LastOutboundDlcMessage]
    /\ conn \in [Nodes -> Connection]
    /\ wire \in [Nodes -> Seq(WireMessage)]
    /\ broken \in [Nodes -> BOOLEAN] /\ silent \in BOOLEAN
    /\ reader \in [Nodes -> Seq(WireMessage)]
    /\ received \in [Nodes -> Seq(ReceivedMessage)]
    /\ connections \in 0 .. MaxConnections /\ faults \in 0 .. MaxFaults

\* What a node has processed is what its peer sent, of the same kind and put together
\* from its own segments, across lost connections and restarts (handle_custom_message,
\* last_outbound_dlc_message::get).
MessagesAreIntact ==
    \A n \in Nodes : \A r \in table[n] :
        r.inbound => /\ r.message_hash \in 1 .. published[Peer(n)]
                     /\ r.message_type = Script[Peer(n)][r.message_hash].kind

\* No segment is ever refused: whatever was lost, the next segment a node reads is one
\* its segment reader can take (DisconnectPeer in handle_custom_message).
SegmentsAreExpected ==
    \A n \in Nodes :
        CanRead(n) /\ Readable(n) /\ Head(wire[Peer(n)]).type # "Init" =>
            handle_custom_message(reader[n], Head(wire[Peer(n)])).ok

\* States in which nothing happens any more until a node has something new to send.
\* Nothing tells a node of a silent network.
Unnoticed(n) ==
    silent /\ conn[n].state # "closed" /\ wire[n] = <<>> /\ conn[n].buffer = <<>>
\* Neither node reads before the other does.
Parked(c) == (c.paused /\ ~ c.avail) \/ c.sending
Jammed == \A n \in Nodes : Parked(conn[n]) /\ Room(n) = 0
\* The write that failed has left the read task paused.
Hung(n) == broken[n] /\ Parked(conn[n]) /\ ~ conn[n].waker /\ ~ conn[n].ws

Stuck == Jammed \/ \E n \in Nodes : Unnoticed(n) \/ Hung(n)

Delivered(n) ==
    \/ lastOut[n] = NoMessage
    \/ \E r \in table[Peer(n)] : r.inbound /\ r.message_hash = lastOut[n].message_hash

\* Again and again the last message a node stored for its peer has been processed there,
\* however connections fail and processes restart; the only exceptions are the three
\* states above, which a ping would end (send_dlc_message, on_connect, schedule_read).
LastMessageArrives == []<>((\A n \in Nodes : Delivered(n)) \/ Stuck)
=============================================================================
