--------------------------- MODULE TransportProofs ---------------------------
(***************************************************************************)
(* MessagesAreIntact and SegmentsAreExpected for all scripts, sizes of     *)
(* messages and buffers, connections and faults.                           *)
(*                                                                         *)
(* A segment carries no number, so that a reader takes whatever chunk      *)
(* comes next.  That it is the right one follows from the stream: what the *)
(* reader holds, what is on the wire and what is queued are whole messages *)
(* one after the other.  A broken stream ends anywhere, but nothing is     *)
(* written to it any more; and a reader that was left with half a message  *)
(* by a lost connection meets a stream that starts with a message.         *)
(***************************************************************************)
EXTENDS Transport, SequenceTheorems, TLAPS

-----------------------------------------------------------------------------
(* The inductive invariant *)

\* What node n may have sent: the contents of its script, under their own numbers.
Genuine(n, w) ==
    w.type # "Init" => /\ w.hash \in 1 .. published[n]
                       /\ w.id = TypeId[Script[n][w.hash].kind]
                       /\ w.type = "SegmentStart" => w.of > 1
Recorded(n, hash, kind) == hash \in 1 .. published[n] /\ kind = Script[n][hash].kind

EventsOK(n) ==
    /\ published[n] <= Len(Script[n])
    /\ \A i \in DOMAIN events[n] :
            events[n][i].type = "SendDlcMessage" => events[n][i].hash \in 1 .. published[n]
SentOK(n) ==
    /\ \A i \in DOMAIN wire[n] : Genuine(n, wire[n][i])
    /\ \A i \in DOMAIN conn[n].buffer : Genuine(n, conn[n].buffer[i])
ReadOK(n) ==
    /\ \A i \in DOMAIN reader[n] : Genuine(Peer(n), reader[n][i]) /\ reader[n][i].type # "Init"
    /\ \A i \in DOMAIN received[n] :
            Recorded(Peer(n), received[n][i].hash, received[n][i].kind)
TableOK(n) ==
    /\ \A r \in table[n] :
            Recorded(IF r.inbound THEN Peer(n) ELSE n, r.message_hash, r.message_type)
    /\ lastOut[n] # NoMessage =>
            /\ lastOut[n].message = lastOut[n].message_hash
            /\ \E r \in table[n] : r.message_hash = lastOut[n].message_hash /\ ~ r.inbound

ContentsOK == \A n \in Nodes : EventsOK(n) /\ SentOK(n) /\ ReadOK(n) /\ TableOK(n)

\* The start of a message is followed by its chunks, and every chunk has its start.
WellFormed(t) ==
    /\ \A j, k \in DOMAIN t :
            t[j].type = "SegmentStart" /\ j < k /\ k < j + t[j].of =>
                t[k].type = "SegmentChunk" /\ t[k].hash = t[j].hash
    /\ \A k \in DOMAIN t : t[k].type = "SegmentChunk" =>
            \E j \in DOMAIN t : t[j].type = "SegmentStart" /\ j < k /\ k < j + t[j].of
\* No message is cut off at the end.
Whole(t) == \A j \in DOMAIN t : t[j].type = "SegmentStart" => j + t[j].of <= Len(t) + 1

\* Stream s continues what the reader holds, or starts afresh.
Parses(r, s) == \E q \in {r, <<>>} : WellFormed(q \o s)
ParsesWhole(r, s) == \E q \in {r, <<>>} : WellFormed(q \o s) /\ Whole(q \o s)

Partial(r) == r # <<>> => r[1].type = "SegmentStart" /\ Len(r) < r[1].of

\* Node p still writes to the stream.
Writing(p) == conn[p].state # "closed" /\ ~ broken[p]
StreamOK(p) ==
    conn[Peer(p)].state # "closed" =>
        /\ Parses(reader[Peer(p)], wire[p])
        /\ Writing(p) => ParsesWhole(reader[Peer(p)], wire[p] \o conn[p].buffer)

EndOK(n) ==
    /\ Partial(reader[n])
    /\ Len(wire[n]) <= KernelBuffer
    /\ conn[n].state # "forgotten"
    /\ conn[n].state = "closed" => conn[n].buffer = <<>>
    /\ conn[n].sending => conn[n].ws /\ conn[n].buffer # <<>>

StreamsOK == \A n \in Nodes : EndOK(n) /\ StreamOK(n)

IInv == TypeOK /\ ContentsOK /\ StreamsOK

-----------------------------------------------------------------------------
(* Nodes, numbers of messages, sequences *)

LEMMA PeerFacts ==
    ASSUME NEW n \in Nodes
    PROVE  Peer(n) \in Nodes /\ Peer(n) # n /\ Peer(Peer(n)) = n /\ Nodes = {n, Peer(n)}
<1>1. Peer("app") = "coordinator" /\ Peer("coordinator") = "app"
  BY DEF Peer, Nodes
<1> QED BY <1>1 DEF Nodes

\* No two kinds of messages have the same number.
LEMMA DecodeOK ==
    ASSUME NEW k \in Kinds
    PROVE  TypeId[k] \in Nat /\ read_tentenone_message(TypeId[k]) = k
<1>1. \A l \in Kinds : TypeId[l] = TypeId[k] => l = k
  BY DEF Kinds, TypeId
<1>2. TypeId[k] \in Nat
  BY DEF Kinds, TypeId
<1> QED BY <1>1, <1>2 DEF read_tentenone_message

LEMMA ElementOf ==
    ASSUME NEW S, NEW q \in Seq(S)
    PROVE  Len(q) \in Nat /\ DOMAIN q = 1 .. Len(q) /\ \A i \in 1 .. Len(q) : q[i] \in S
OBVIOUS

LEMMA ScriptOK ==
    ASSUME NEW n \in Nodes, NEW h \in 1 .. Len(Script[n])
    PROVE  Script[n][h].kind \in Kinds /\ Script[n][h].segments \in Nat \ {0}
<1>1. Script[n] \in Seq([kind : Kinds, segments : Nat \ {0}])
  BY ScriptAssumption
<1>2. Script[n][h] \in [kind : Kinds, segments : Nat \ {0}]
  BY <1>1, ElementOf
<1> QED BY <1>2

\* A stream that is cut off is still well-formed.
LEMMA PrefixOK ==
    ASSUME NEW s \in Seq(WireMessage), NEW t \in Seq(WireMessage), WellFormed(s \o t)
    PROVE  WellFormed(s)
<1>1. /\ s \o t \in Seq(WireMessage) /\ Len(s \o t) = Len(s) + Len(t)
      /\ \A i \in 1 .. Len(s) : (s \o t)[i] = s[i]
  OBVIOUS
<1>2. DOMAIN s = 1 .. Len(s) /\ DOMAIN (s \o t) = 1 .. Len(s \o t) /\ Len(s) \in Nat /\ Len(t) \in Nat
  OBVIOUS
<1>3. DOMAIN s \subseteq DOMAIN (s \o t)
  BY <1>1, <1>2
<1> QED BY <1>1, <1>2, <1>3 DEF WellFormed

LEMMA Segments ==
    ASSUME NEW n \in Nodes, NEW m, m.hash \in 1 .. Len(Script[n]), m.kind = Script[n][m.hash].kind
    PROVE  LET s == send_message(n, m)
           IN  /\ s \in Seq(WireMessage) /\ Len(s) = Script[n][m.hash].segments
               /\ \A i \in 1 .. Len(s) : /\ s[i].hash = m.hash /\ s[i].id = TypeId[m.kind]
                                         /\ s[i].of = Len(s)
                                         /\ s[i].type = IF Len(s) = 1 THEN "Message"
                                                        ELSE IF i = 1 THEN "SegmentStart" ELSE "SegmentChunk"
<1> DEFINE of == Script[n][m.hash].segments
<1>1. of \in Nat \ {0} /\ TypeId[m.kind] \in Nat /\ m.hash \in Nat
  BY ScriptOK, DecodeOK
<1>2. \A i \in 1 .. of : Segment(m, i, of) \in WireMessage
  BY <1>1 DEF Segment, WireMessage
<1>3. send_message(n, m) = [i \in 1 .. of |-> Segment(m, i, of)]
  BY DEF send_message
<1>4. send_message(n, m) \in Seq(WireMessage) /\ Len(send_message(n, m)) = of
  BY <1>1, <1>2, <1>3
<1>5. \A i \in 1 .. of : send_message(n, m)[i] = Segment(m, i, of)
  BY <1>3
<1>6. \A i \in 1 .. of : /\ Segment(m, i, of).hash = m.hash /\ Segment(m, i, of).id = TypeId[m.kind]
                         /\ Segment(m, i, of).of = of
                         /\ Segment(m, i, of).type = IF of = 1 THEN "Message"
                                                     ELSE IF i = 1 THEN "SegmentStart" ELSE "SegmentChunk"
  BY DEF Segment
<1> HIDE DEF of
<1> QED BY <1>1, <1>4, <1>5, <1>6 DEF of

\* A message may follow a stream that ends with the end of one.
LEMMA MessageFollows ==
    ASSUME NEW t \in Seq(WireMessage), WellFormed(t), Whole(t),
           NEW n \in Nodes, NEW m, m.hash \in 1 .. Len(Script[n]), m.kind = Script[n][m.hash].kind
    PROVE  WellFormed(t \o send_message(n, m)) /\ Whole(t \o send_message(n, m))
<1> DEFINE s == send_message(n, m)
           u == t \o s
<1>1. /\ s \in Seq(WireMessage) /\ Len(s) \in Nat \ {0}
      /\ \A i \in 1 .. Len(s) : /\ s[i].hash = m.hash /\ s[i].of = Len(s)
                                /\ s[i].type = IF Len(s) = 1 THEN "Message"
                                               ELSE IF i = 1 THEN "SegmentStart" ELSE "SegmentChunk"
  BY Segments, ScriptOK
<1> HIDE DEF s
<1>2. /\ u \in Seq(WireMessage) /\ Len(u) = Len(t) + Len(s)
      /\ \A i \in 1 .. Len(t) : u[i] = t[i]
      /\ \A i \in 1 .. Len(u) : i > Len(t) => u[i] = s[i - Len(t)] /\ i - Len(t) \in 1 .. Len(s)
  BY <1>1
<1>3. Len(t) \in Nat /\ DOMAIN t = 1 .. Len(t) /\ DOMAIN u = 1 .. Len(u)
      /\ \A i \in DOMAIN t : t[i].of \in Nat
  <2>1. \A i \in DOMAIN t : t[i] \in WireMessage
    BY ElementOf
  <2>2. \A w \in WireMessage : w.of \in Nat
    BY DEF WireMessage
  <2> QED BY <1>2, <2>1, <2>2
<1> HIDE DEF u
<1>4. ASSUME NEW i \in DOMAIN u
      PROVE  \/ i \in DOMAIN t /\ u[i] = t[i]
             \/ /\ i \notin DOMAIN t /\ u[i].hash = m.hash /\ u[i].of = Len(s)
                /\ u[i].type = IF Len(s) = 1 THEN "Message"
                               ELSE IF i = Len(t) + 1 THEN "SegmentStart" ELSE "SegmentChunk"
  <2>1. CASE i > Len(t)
    BY <1>1, <1>2, <1>3, <2>1, SMTT(30)
  <2>2. CASE i <= Len(t)
    BY <1>2, <1>3, <2>2
  <2> QED BY <2>1, <2>2, <1>3
<1>5. ASSUME NEW j \in DOMAIN u, NEW k \in DOMAIN u,
             u[j].type = "SegmentStart", j < k, k < j + u[j].of
      PROVE  u[k].type = "SegmentChunk" /\ u[k].hash = u[j].hash
  <2>1. CASE j \in DOMAIN t
    <3>1. u[j] = t[j] /\ j + t[j].of <= Len(t) + 1
      BY <1>4, <2>1, <1>5 DEF Whole
    <3>2. k \in DOMAIN t
      BY <1>3, <1>5, <3>1, <2>1
    <3> QED BY <1>4, <1>5, <2>1, <3>1, <3>2 DEF WellFormed
  <2>2. CASE j \notin DOMAIN t
    <3>1. j = Len(t) + 1 /\ Len(s) # 1
      BY <1>4, <1>5, <2>2
    <3>2. k \notin DOMAIN t /\ k # Len(t) + 1
      BY <1>3, <1>5, <3>1
    <3> QED BY <1>4, <2>2, <3>1, <3>2
  <2> QED BY <2>1, <2>2
<1>6. ASSUME NEW k \in DOMAIN u, u[k].type = "SegmentChunk"
      PROVE  \E j \in DOMAIN u : u[j].type = "SegmentStart" /\ j < k /\ k < j + u[j].of
  <2>1. CASE k \in DOMAIN t
    <3>1. PICK j \in DOMAIN t : t[j].type = "SegmentStart" /\ j < k /\ k < j + t[j].of
      BY <1>4, <1>6, <2>1 DEF WellFormed
    <3>2. j \in DOMAIN u /\ u[j] = t[j]
      BY <1>2, <1>3, <1>1
    <3> QED BY <3>1, <3>2
  <2>2. CASE k \notin DOMAIN t
    <3>1. Len(s) # 1 /\ k # Len(t) + 1 /\ k > Len(t)
      BY <1>3, <1>4, <1>6, <2>2
    <3>2. Len(t) + 1 \in DOMAIN u /\ Len(t) + 1 \notin DOMAIN t
      BY <1>1, <1>2, <1>3
    <3>3. u[Len(t) + 1].type = "SegmentStart" /\ u[Len(t) + 1].of = Len(s)
      BY <1>4, <3>1, <3>2
    <3>4. k < Len(t) + 1 + Len(s)
      BY <1>1, <1>2, <1>3
    <3> QED BY <1>3, <3>1, <3>2, <3>3, <3>4, SMTT(30)
  <2> QED BY <2>1, <2>2
<1>7. ASSUME NEW j \in DOMAIN u, u[j].type = "SegmentStart"
      PROVE  j + u[j].of <= Len(u) + 1
  <2>1. CASE j \in DOMAIN t
    <3>1. u[j] = t[j] /\ j + t[j].of <= Len(t) + 1
      BY <1>4, <1>7, <2>1 DEF Whole
    <3>2. t[j].of \in Nat /\ j \in Nat /\ Len(t) \in Nat /\ Len(s) \in Nat /\ Len(u) = Len(t) + Len(s)
      BY <1>1, <1>2, <1>3, <2>1
    <3> QED BY <3>1, <3>2
  <2>2. CASE j \notin DOMAIN t
    <3>1. u[j].of = Len(s) /\ j = Len(t) + 1
      BY <1>4, <1>7, <2>2
    <3>2. Len(t) \in Nat /\ Len(s) \in Nat /\ Len(u) = Len(t) + Len(s)
      BY <1>1, <1>2, <1>3
    <3> QED BY <3>1, <3>2
  <2> QED BY <2>1, <2>2
<1>8. WellFormed(u) /\ Whole(u)
  BY <1>5, <1>6, <1>7 DEF WellFormed, Whole
<1> QED BY <1>8 DEF u, s

-----------------------------------------------------------------------------
(* Reading a segment *)

LEMMA HeadTail ==
    ASSUME NEW S, NEW s \in Seq(S), s # <<>>
    PROVE  /\ Len(s) >= 1 /\ Head(s) = s[1] /\ Head(s) \in S /\ Tail(s) \in Seq(S)
           /\ Len(Tail(s)) = Len(s) - 1
           /\ \A i \in 1 .. Len(Tail(s)) : Tail(s)[i] = s[i + 1]
OBVIOUS

\* What is left when d segments of a stream were read, of which only the first is a
\* start and whose message ends with them.
LEMMA SuffixOK ==
    ASSUME NEW t \in Seq(WireMessage), NEW u \in Seq(WireMessage), NEW d \in Nat,
           Len(t) = Len(u) + d, \A i \in 1 .. Len(u) : u[i] = t[i + d],
           WellFormed(t),
           \A j \in 1 .. d : t[j].type = "SegmentStart" => j + t[j].of <= d + 1
    PROVE  WellFormed(u) /\ (Whole(t) => Whole(u))
<1>1. Len(u) \in Nat /\ DOMAIN u = 1 .. Len(u) /\ DOMAIN t = 1 .. Len(t)
  BY ElementOf
<1>2. \A i \in DOMAIN t : t[i].of \in Nat
  <2>1. \A i \in DOMAIN t : t[i] \in WireMessage
    BY ElementOf
  <2>2. \A w \in WireMessage : w.of \in Nat
    BY DEF WireMessage
  <2> QED BY <2>1, <2>2
<1>3. \A i \in DOMAIN u : i + d \in DOMAIN t /\ u[i] = t[i + d]
  BY <1>1
<1>4. ASSUME NEW j \in DOMAIN u, NEW k \in DOMAIN u,
             u[j].type = "SegmentStart", j < k, k < j + u[j].of
      PROVE  u[k].type = "SegmentChunk" /\ u[k].hash = u[j].hash
  <2>1. j + d < k + d /\ k + d < j + d + t[j + d].of /\ t[j + d].type = "SegmentStart"
    BY <1>1, <1>2, <1>3, <1>4
  <2> QED BY <1>3, <2>1 DEF WellFormed
<1>5. ASSUME NEW k \in DOMAIN u, u[k].type = "SegmentChunk"
      PROVE  \E j \in DOMAIN u : u[j].type = "SegmentStart" /\ j < k /\ k < j + u[j].of
  <2>1. PICK j \in DOMAIN t : t[j].type = "SegmentStart" /\ j < k + d /\ k + d < j + t[j].of
    BY <1>3, <1>5 DEF WellFormed
  <2>2. j > d
    BY <1>1, <1>2, <2>1
  <2>3. j - d \in DOMAIN u /\ u[j - d] = t[j]
    <3>1. j \in 1 .. Len(u) + d /\ Len(u) \in Nat
      BY <1>1
    <3>2. j - d \in 1 .. Len(u) /\ (j - d) + d = j
      BY <2>2, <3>1
    <3> QED BY <1>1, <3>2
  <2>4. j - d < k /\ k < (j - d) + u[j - d].of
    BY <1>1, <1>2, <2>1, <2>2, <2>3
  <2> QED BY <2>1, <2>3, <2>4
<1>6. ASSUME Whole(t), NEW j \in DOMAIN u, u[j].type = "SegmentStart"
      PROVE  j + u[j].of <= Len(u) + 1
  <2>1. (j + d) + t[j + d].of <= Len(t) + 1
    BY <1>3, <1>6 DEF Whole
  <2>2. u[j].of = t[j + d].of /\ t[j + d].of \in Nat /\ Len(u) \in Nat /\ j \in Nat
    BY <1>1, <1>2, <1>3
  <2>3. (j + d) + t[j + d].of <= Len(u) + d + 1
    BY <2>1
  <2> QED BY <2>2, <2>3, SMTT(30)
<1>7. WellFormed(u)
  BY <1>4, <1>5 DEF WellFormed
<1>8. Whole(t) => Whole(u)
  BY <1>6 DEF Whole
<1> QED BY <1>7, <1>8

\* A stream that continues what the reader holds.
LEMMA ReadNext ==
    ASSUME NEW r \in Seq(WireMessage), NEW s \in Seq(WireMessage), Partial(r), r # <<>>, s # <<>>,
           WellFormed(r \o s)
    PROVE  LET w == Head(s) result == handle_custom_message(r, w)
           IN  /\ w.type = "SegmentChunk" /\ result.ok
               /\ result.reader \in {Append(r, w), <<>>} /\ Partial(result.reader)
               /\ result.messages \in {<<>>, <<Decoded(r[1])>>}
               /\ WellFormed(result.reader \o Tail(s))
               /\ Whole(r \o s) => Whole(result.reader \o Tail(s))
<1> DEFINE w == Head(s)
           t == r \o s
           a == Append(r, w)
           result == handle_custom_message(r, w)
<1>1. /\ Len(r) \in Nat /\ Len(r) >= 1 /\ Len(s) \in Nat /\ Len(s) >= 1
      /\ w = s[1] /\ w \in WireMessage /\ Tail(s) \in Seq(WireMessage) /\ Len(Tail(s)) = Len(s) - 1
      /\ \A i \in 1 .. Len(Tail(s)) : Tail(s)[i] = s[i + 1]
  BY HeadTail
<1>2. /\ t \in Seq(WireMessage) /\ Len(t) = Len(r) + Len(s) /\ DOMAIN t = 1 .. Len(t)
      /\ \A i \in 1 .. Len(r) : t[i] = r[i]
      /\ \A i \in 1 .. Len(s) : t[i + Len(r)] = s[i]
  OBVIOUS
<1>3. /\ a \in Seq(WireMessage) /\ Len(a) = Len(r) + 1 /\ DOMAIN a = 1 .. Len(a)
      /\ a[Len(a)] = w /\ \A i \in 1 .. Len(r) : a[i] = r[i]
  BY <1>1
<1>4. r[1].type = "SegmentStart" /\ Len(r) < r[1].of /\ r[1].of \in Nat
  <2>1. r[1] \in WireMessage
    BY <1>1, ElementOf
  <2> QED BY <2>1 DEF Partial, WireMessage
<1>5. \A i \in 1 .. Len(a) : a[i] = t[i] /\ i \in DOMAIN t
  BY <1>1, <1>2, <1>3
<1>6. \A i \in 1 .. Len(a) : i # 1 => a[i].type = "SegmentChunk" /\ a[i].hash = a[1].hash
  <2>1. 1 \in DOMAIN t /\ t[1].type = "SegmentStart" /\ t[1].of > Len(r) /\ t[1].of \in Nat /\ a[1] = t[1]
    BY <1>1, <1>2, <1>4, <1>5, <1>3
  <2>2. \A i \in 1 .. Len(a) : i # 1 => 1 < i /\ i < 1 + t[1].of
    BY <1>1, <1>3, <2>1
  <2>3. \A i \in DOMAIN t : 1 < i /\ i < 1 + t[1].of => t[i].type = "SegmentChunk" /\ t[i].hash = t[1].hash
    BY <2>1 DEF WellFormed
  <2> HIDE DEF a, t
  <2> QED BY <1>5, <2>1, <2>2, <2>3
<1>7. w.type = "SegmentChunk" /\ a[1] = r[1] /\ \A i \in DOMAIN a : a[i].hash = a[1].hash
  BY <1>1, <1>3, <1>6
<1>8. result = process_segment_chunk(r, w)
  BY <1>7 DEF handle_custom_message
<1>9. CASE Len(a) < a[1].of
  <2>1. result = [reader |-> a, messages |-> <<>>, ok |-> TRUE]
    BY <1>8, <1>9 DEF process_segment_chunk
  <2>2. a \o Tail(s) = t
    <3>1. a \o Tail(s) \in Seq(WireMessage) /\ Len(a \o Tail(s)) = Len(t)
      BY <1>1, <1>2, <1>3
    <3>2. \A i \in 1 .. Len(t) : (a \o Tail(s))[i] = t[i]
      <4> SUFFICES ASSUME NEW i \in 1 .. Len(t) PROVE (a \o Tail(s))[i] = t[i]
        OBVIOUS
      <4>1. CASE i <= Len(a)
        BY <1>1, <1>3, <1>5, <4>1
      <4>2. CASE i > Len(a)
        <5>1. i - Len(a) \in 1 .. Len(Tail(s)) /\ i - Len(r) \in 1 .. Len(s) /\ (i - Len(a)) + 1 = i - Len(r)
          BY <1>1, <1>2, <1>3, <4>2
        <5>2. (a \o Tail(s))[i] = Tail(s)[i - Len(a)]
          BY <1>1, <1>3, <4>2, <5>1
        <5>3. t[i] = s[i - Len(r)]
          BY <1>1, <1>2, <5>1
        <5> QED BY <1>1, <5>1, <5>2, <5>3
      <4> QED BY <4>1, <4>2, <1>2, <1>3
    <3> QED BY <1>2, <3>1, <3>2, SeqEqual
  <2>3. Partial(a)
    BY <1>4, <1>7, <1>9 DEF Partial
  <2>4. result.ok /\ result.reader = a /\ result.messages = <<>>
    BY <2>1
  <2>5. WellFormed(result.reader \o Tail(s)) /\ (Whole(t) => Whole(result.reader \o Tail(s)))
    BY <2>2, <2>4
  <2> HIDE DEF result
  <2> QED BY <1>7, <2>3, <2>4, <2>5 DEF result
<1>10. CASE Len(a) >= a[1].of
  <2>1. result = [reader |-> <<>>, messages |-> <<Decoded(r[1])>>, ok |-> TRUE]
    BY <1>3, <1>4, <1>7, <1>8, <1>10 DEF process_segment_chunk
  <2>2. Len(a) = t[1].of
    BY <1>1, <1>2, <1>3, <1>4, <1>7, <1>10
  <2>3. \A j \in 1 .. Len(a) : t[j].type = "SegmentStart" => j + t[j].of <= Len(a) + 1
    BY <1>5, <1>6, <2>2
  <2>4. Len(t) = Len(Tail(s)) + Len(a) /\ Len(a) \in Nat
    BY <1>1, <1>2, <1>3
  <2>5. \A i \in 1 .. Len(Tail(s)) : Tail(s)[i] = t[i + Len(a)]
    <3> SUFFICES ASSUME NEW i \in 1 .. Len(Tail(s)) PROVE Tail(s)[i] = t[i + Len(a)]
      OBVIOUS
    <3>1. i + 1 \in 1 .. Len(s) /\ (i + 1) + Len(r) = i + Len(a)
      BY <1>1, <1>3
    <3>2. t[(i + 1) + Len(r)] = s[i + 1]
      BY <1>2, <3>1
    <3> QED BY <1>1, <3>1, <3>2
  <2> HIDE DEF a, t
  <2>6. WellFormed(Tail(s)) /\ (Whole(t) => Whole(Tail(s)))
    <3>1. WellFormed(t)
      BY DEF t
    <3> QED BY <1>1, <1>2, <2>3, <2>4, <2>5, <3>1, SuffixOK
  <2>7. <<>> \o Tail(s) = Tail(s)
    BY <1>1
  <2>8. result.ok /\ result.reader = <<>> /\ result.messages = <<Decoded(r[1])>>
    BY <2>1
  <2>9. WellFormed(result.reader \o Tail(s)) /\ (Whole(t) => Whole(result.reader \o Tail(s)))
    BY <2>6, <2>7, <2>8
  <2>10. Partial(<<>>)
    BY DEF Partial
  <2> HIDE DEF result
  <2> QED BY <1>7, <2>8, <2>9, <2>10 DEF t, result
<1> QED BY <1>3, <1>4, <1>7, <1>9, <1>10

\* A stream that starts afresh.
LEMMA ReadFirst ==
    ASSUME NEW r \in Seq(WireMessage), NEW s \in Seq(WireMessage), s # <<>>, WellFormed(s),
           Head(s).type = "SegmentStart" => Head(s).of > 1
    PROVE  LET w == Head(s) result == handle_custom_message(r, w)
           IN  /\ w.type # "SegmentChunk"
               /\ w.type = "Init" => WellFormed(Tail(s)) /\ (Whole(s) => Whole(Tail(s)))
               /\ w.type # "Init" =>
                    /\ result.ok /\ result.reader \in {<<w>>, <<>>} /\ Partial(result.reader)
                    /\ result.messages \in {<<>>, <<Decoded(w)>>}
                    /\ WellFormed(result.reader \o Tail(s))
                    /\ Whole(s) => Whole(result.reader \o Tail(s))
<1> DEFINE w == Head(s)
           result == handle_custom_message(r, w)
<1>1. /\ Len(s) \in Nat /\ Len(s) >= 1 /\ DOMAIN s = 1 .. Len(s)
      /\ w = s[1] /\ w \in WireMessage /\ Tail(s) \in Seq(WireMessage) /\ Len(s) = Len(Tail(s)) + 1
      /\ \A i \in 1 .. Len(Tail(s)) : Tail(s)[i] = s[i + 1]
  BY HeadTail
<1>2. w.type # "SegmentChunk"
  BY <1>1 DEF WellFormed
<1>3. w.type # "SegmentStart" => WellFormed(Tail(s)) /\ (Whole(s) => Whole(Tail(s)))
  <2> SUFFICES ASSUME w.type # "SegmentStart" PROVE WellFormed(Tail(s)) /\ (Whole(s) => Whole(Tail(s)))
    OBVIOUS
  <2>1. \A j \in 1 .. 1 : s[j].type = "SegmentStart" => j + s[j].of <= 1 + 1
    BY <1>1
  <2> HIDE DEF w
  <2> QED BY <1>1, <2>1, SuffixOK
<1>4. <<>> \o Tail(s) = Tail(s) /\ <<w>> \o Tail(s) = s
  BY <1>1
<1>5. w.type \in {"Init", "Message", "SegmentStart", "SegmentChunk"}
  BY <1>1 DEF WireMessage
<1>6. CASE w.type = "Message"
  <2>1. result = [reader |-> <<>>, messages |-> <<Decoded(w)>>, ok |-> TRUE]
    BY <1>6 DEF handle_custom_message, reset
  <2>2. result.ok /\ result.reader = <<>> /\ result.messages = <<Decoded(w)>>
    BY <2>1
  <2>3. WellFormed(result.reader \o Tail(s)) /\ (Whole(s) => Whole(result.reader \o Tail(s)))
    BY <1>3, <1>4, <1>6, <2>2
  <2>4. Partial(<<>>)
    BY DEF Partial
  <2> HIDE DEF result
  <2> QED BY <1>6, <2>2, <2>3, <2>4 DEF result
<1>7. CASE w.type = "SegmentStart"
  <2>1. result = [reader |-> <<w>>, messages |-> <<>>, ok |-> TRUE]
    BY <1>7 DEF handle_custom_message, reset
  <2>2. Partial(<<w>>)
    BY <1>7 DEF Partial
  <2>3. result.ok /\ result.reader = <<w>> /\ result.messages = <<>>
    BY <2>1
  <2>4. WellFormed(result.reader \o Tail(s)) /\ (Whole(s) => Whole(result.reader \o Tail(s)))
    BY <1>4, <2>3
  <2> HIDE DEF result
  <2> QED BY <1>7, <2>2, <2>3, <2>4 DEF result
<1>8. CASE w.type = "Init"
  BY <1>2, <1>3, <1>8
<1> QED BY <1>2, <1>5, <1>6, <1>7, <1>8

LEMMA Joined ==
    ASSUME NEW s \in Seq(WireMessage), NEW t \in Seq(WireMessage)
    PROVE  /\ s \o t \in Seq(WireMessage) /\ Len(s \o t) = Len(s) + Len(t)
           /\ \A i \in 1 .. Len(s) : (s \o t)[i] = s[i]
           /\ \A i \in 1 .. Len(s) + Len(t) : i > Len(s) => (s \o t)[i] = t[i - Len(s)]
OBVIOUS

LEMMA Regroup ==
    ASSUME NEW s \in Seq(WireMessage), NEW t \in Seq(WireMessage), NEW u \in Seq(WireMessage)
    PROVE  (s \o t) \o u = s \o (t \o u)
BY ConcatAssociative

\* A sequence is what comes up to a place and what comes after.
LEMMA SplitAt ==
    ASSUME NEW b \in Seq(WireMessage), NEW k \in 0 .. Len(b)
    PROVE  /\ SubSeq(b, k + 1, Len(b)) \in Seq(WireMessage) /\ SubSeq(b, 1, k) \in Seq(WireMessage)
           /\ Len(SubSeq(b, 1, k)) = k /\ SubSeq(b, 1, k) \o SubSeq(b, k + 1, Len(b)) = b
<1>1. Len(b) \in Nat /\ k \in Nat /\ \A i \in 1 .. Len(b) : b[i] \in WireMessage
  BY ElementOf
<1>2. /\ SubSeq(b, k + 1, Len(b)) \in Seq(WireMessage)
      /\ Len(SubSeq(b, k + 1, Len(b))) = Len(b) - k
      /\ \A i \in 1 .. Len(b) - k : SubSeq(b, k + 1, Len(b))[i] = b[k + i]
  <2>1. \A i \in k + 1 .. Len(b) : b[i] \in WireMessage
    BY <1>1
  <2>2. /\ SubSeq(b, k + 1, Len(b)) \in Seq(WireMessage)
        /\ Len(SubSeq(b, k + 1, Len(b))) = IF k + 1 <= Len(b) THEN Len(b) - (k + 1) + 1 ELSE 0
        /\ \A i \in 1 .. Len(b) - (k + 1) + 1 : SubSeq(b, k + 1, Len(b))[i] = b[(k + 1) + i - 1]
    BY <1>1, <2>1, SubSeqProperties
  <2>3. k <= Len(b)
    BY <1>1
  <2> QED BY <1>1, <2>2, <2>3
<1>3. /\ SubSeq(b, 1, k) \in Seq(WireMessage) /\ Len(SubSeq(b, 1, k)) = k
      /\ \A i \in 1 .. k : SubSeq(b, 1, k)[i] = b[i]
  <2>1. \A i \in 1 .. k : b[i] \in WireMessage
    BY <1>1
  <2>2. /\ SubSeq(b, 1, k) \in Seq(WireMessage)
        /\ Len(SubSeq(b, 1, k)) = IF 1 <= k THEN k - 1 + 1 ELSE 0
        /\ \A i \in 1 .. k - 1 + 1 : SubSeq(b, 1, k)[i] = b[1 + i - 1]
    BY <1>1, <2>1, SubSeqProperties
  <2> QED BY <1>1, <2>2
<1> DEFINE x == SubSeq(b, 1, k)
           y == SubSeq(b, k + 1, Len(b))
<1>4. /\ x \o y \in Seq(WireMessage) /\ Len(x \o y) = Len(b)
      /\ \A i \in 1 .. Len(b) : (x \o y)[i] = IF i <= k THEN x[i] ELSE y[i - k]
  <2> HIDE DEF x, y
  <2>1. Len(x) = k /\ Len(y) = Len(b) - k /\ x \in Seq(WireMessage) /\ y \in Seq(WireMessage)
    BY <1>2, <1>3 DEF x, y
  <2>2. Len(x) + Len(y) = Len(b)
    BY <1>1, <2>1
  <2>3. x \o y \in Seq(WireMessage) /\ Len(x \o y) = Len(b)
    BY <2>1, <2>2, Joined
  <2>4. \A i \in 1 .. Len(b) : i <= k => (x \o y)[i] = x[i]
    BY <1>1, <2>1, <2>2, Joined
  <2>5. \A i \in 1 .. Len(b) : i > k => (x \o y)[i] = y[i - k]
    BY <1>1, <2>1, <2>2, Joined
  <2> QED BY <1>1, <2>3, <2>4, <2>5
<1>5. \A i \in 1 .. Len(b) : (x \o y)[i] = b[i]
  <2>0. /\ \A i \in 1 .. k : x[i] = b[i]
        /\ \A i \in 1 .. Len(b) - k : y[i] = b[k + i]
    BY <1>2, <1>3
  <2> HIDE DEF x, y
  <2> SUFFICES ASSUME NEW i \in 1 .. Len(b) PROVE (x \o y)[i] = b[i]
    OBVIOUS
  <2>1. CASE i <= k
    BY <1>1, <1>4, <2>0, <2>1
  <2>2. CASE i > k
    <3>1. i - k \in 1 .. Len(b) - k /\ k + (i - k) = i
      BY <1>1, <2>2
    <3> QED BY <1>1, <1>4, <2>0, <2>2, <3>1
  <2>3. i <= k \/ i > k
    BY <1>1
  <2> QED BY <2>1, <2>2, <2>3
<1>6. x \o y = b
  BY <1>1, <1>4, <1>5, SeqEqual
<1> QED BY <1>2, <1>3, <1>6

LEMMA EmptyBefore ==
    ASSUME NEW s \in Seq(WireMessage)
    PROVE  <<>> \o s = s
OBVIOUS

\* The reader takes the next segment of a stream that it can parse.
LEMMA ReadSegment ==
    ASSUME NEW r \in Seq(WireMessage), NEW s \in Seq(WireMessage), Partial(r), s # <<>>, Parses(r, s),
           Head(s).type = "SegmentStart" => Head(s).of > 1, Head(s).type # "Init"
    PROVE  LET w == Head(s) result == handle_custom_message(r, w)
           IN  /\ result.ok /\ result.reader \in {Append(r, w), <<w>>, <<>>} /\ Partial(result.reader)
               /\ \/ result.messages \in {<<>>, <<Decoded(w)>>}
                  \/ r # <<>> /\ result.messages = <<Decoded(r[1])>>
               /\ Parses(result.reader, Tail(s))
               /\ ParsesWhole(r, s) => ParsesWhole(result.reader, Tail(s))
<1> DEFINE w == Head(s)
           result == handle_custom_message(r, w)
<1>1. ASSUME r # <<>>, WellFormed(r \o s)
      PROVE  /\ result.ok /\ result.reader \in {Append(r, w), <<>>} /\ Partial(result.reader)
             /\ result.messages \in {<<>>, <<Decoded(r[1])>>}
             /\ WellFormed(result.reader \o Tail(s))
             /\ Whole(r \o s) => Whole(result.reader \o Tail(s))
  BY <1>1, ReadNext
<1>2. ASSUME WellFormed(s)
      PROVE  /\ result.ok /\ result.reader \in {<<w>>, <<>>} /\ Partial(result.reader)
             /\ result.messages \in {<<>>, <<Decoded(w)>>}
             /\ WellFormed(result.reader \o Tail(s))
             /\ Whole(s) => Whole(result.reader \o Tail(s))
  BY <1>2, ReadFirst
<1>3. (r # <<>> /\ WellFormed(r \o s)) \/ WellFormed(s)
  BY EmptyBefore DEF Parses
<1>4. ParsesWhole(r, s) => \/ r # <<>> /\ WellFormed(r \o s) /\ Whole(r \o s)
                           \/ WellFormed(s) /\ Whole(s)
  BY EmptyBefore DEF ParsesWhole
<1> HIDE DEF result, w
<1>5. Parses(result.reader, Tail(s)) /\ (ParsesWhole(r, s) => ParsesWhole(result.reader, Tail(s)))
  BY <1>1, <1>2, <1>3, <1>4 DEF Parses, ParsesWhole
<1> QED BY <1>1, <1>2, <1>3, <1>5 DEF result, w

\* The end of the handshake is no part of a message.
LEMMA ReadInit ==
    ASSUME NEW r \in Seq(WireMessage), NEW s \in Seq(WireMessage), Partial(r), s # <<>>,
           Head(s).type = "Init"
    PROVE  /\ Parses(r, s) => Parses(r, Tail(s))
           /\ ParsesWhole(r, s) => ParsesWhole(r, Tail(s))
<1>1. ~ (r # <<>> /\ WellFormed(r \o s))
  BY ReadNext
<1>2. ASSUME WellFormed(s)
      PROVE  WellFormed(Tail(s)) /\ (Whole(s) => Whole(Tail(s)))
  BY <1>2, ReadFirst
<1>3. Tail(s) \in Seq(WireMessage)
  BY HeadTail
<1>4. <<>> \o s = s /\ <<>> \o Tail(s) = Tail(s)
  BY <1>3, EmptyBefore
<1> QED BY <1>1, <1>2, <1>4 DEF Parses, ParsesWhole

\* A stream of which the end is lost.
LEMMA ParsesPrefix ==
    ASSUME NEW r \in Seq(WireMessage), NEW s \in Seq(WireMessage), NEW t \in Seq(WireMessage),
           Parses(r, s \o t)
    PROVE  Parses(r, s)
<1>1. PICK q \in {r, <<>>} : WellFormed(q \o (s \o t))
  BY DEF Parses
<1>2. q \in Seq(WireMessage)
  BY EmptySeq
<1>4. q \o (s \o t) = (q \o s) \o t /\ q \o s \in Seq(WireMessage)
  BY <1>2, Regroup, Joined
<1>3. WellFormed(q \o s)
  BY <1>1, <1>4, PrefixOK
<1> QED BY <1>3 DEF Parses

LEMMA WholeParses ==
    ASSUME NEW r, NEW s, ParsesWhole(r, s)
    PROVE  Parses(r, s)
BY DEF Parses, ParsesWhole

LEMMA ParsesNothing ==
    ASSUME NEW r
    PROVE  ParsesWhole(r, <<>>) /\ ParsesWhole(r, <<InitMessage>>)
<1>1. <<>> \o <<>> = <<>> /\ <<>> \o <<InitMessage>> = <<InitMessage>>
  OBVIOUS
<1>2. WellFormed(<<>>) /\ Whole(<<>>)
  BY DEF WellFormed, Whole
<1>3. WellFormed(<<InitMessage>>) /\ Whole(<<InitMessage>>)
  <2>1. \A i \in DOMAIN <<InitMessage>> : <<InitMessage>>[i].type = "Init"
    BY DEF InitMessage
  <2> QED BY <2>1 DEF WellFormed, Whole
<1> QED BY <1>1, <1>2, <1>3 DEF ParsesWhole

LEMMA ParsesMore ==
    ASSUME NEW r \in Seq(WireMessage), NEW s \in Seq(WireMessage), ParsesWhole(r, s),
           NEW n \in Nodes, NEW m, m.hash \in 1 .. Len(Script[n]), m.kind = Script[n][m.hash].kind
    PROVE  ParsesWhole(r, s \o send_message(n, m))
<1>1. PICK q \in {r, <<>>} : WellFormed(q \o s) /\ Whole(q \o s)
  BY DEF ParsesWhole
<1>2. q \in Seq(WireMessage) /\ q \o s \in Seq(WireMessage)
  <2>1. q \in Seq(WireMessage)
    BY EmptySeq
  <2> QED BY <2>1, Joined
<1>3. send_message(n, m) \in Seq(WireMessage)
  BY Segments
<1>4. WellFormed((q \o s) \o send_message(n, m)) /\ Whole((q \o s) \o send_message(n, m))
  <2> DEFINE u == q \o s
  <2>1. u \in Seq(WireMessage) /\ WellFormed(u) /\ Whole(u)
    BY <1>1, <1>2
  <2> HIDE DEF u
  <2>2. WellFormed(u \o send_message(n, m)) /\ Whole(u \o send_message(n, m))
    BY <2>1, MessageFollows
  <2> QED BY <2>2 DEF u
<1>5. q \o (s \o send_message(n, m)) = (q \o s) \o send_message(n, m)
  <2> DEFINE v == send_message(n, m)
  <2>1. q \in Seq(WireMessage) /\ v \in Seq(WireMessage)
    BY <1>2, <1>3
  <2> HIDE DEF v
  <2>2. (q \o s) \o v = q \o (s \o v)
    BY <2>1, Regroup
  <2> QED BY <2>2 DEF v
<1> QED BY <1>4, <1>5 DEF ParsesWhole

-----------------------------------------------------------------------------
(* One end of a connection *)

LEMMA WokenOK ==
    ASSUME NEW c \in Connection
    PROVE  /\ Woken(c) \in Connection /\ Woken(c).state = c.state /\ Woken(c).buffer = c.buffer
           /\ Woken(c).ws = c.ws /\ Woken(c).sending = c.sending
BY DEF Woken, Connection

LEMMA WrittenOK ==
    ASSUME TypeOK, NEW n \in Nodes, Len(wire[n]) <= KernelBuffer, NEW c \in Connection
    PROVE  LET w == Written(n, c)
           IN  /\ w.conn \in Connection /\ w.conn.state = c.state /\ w.conn.ws = c.ws
               /\ w.conn.sending = c.sending /\ (c.ws => w.conn.buffer = c.buffer)
               /\ w.wire \in Seq(WireMessage) /\ Len(w.wire) <= KernelBuffer
               /\ w.wire \o w.conn.buffer = wire[n] \o c.buffer
               /\ broken[n] => w.wire = wire[n]
<1> DEFINE b == c.buffer
           k == IF broken[n] THEN 0 ELSE Min2(Len(b), Room(n))
           d == send_data(c, k, broken[n])
<1>1. b \in Seq(WireMessage) /\ wire[n] \in Seq(WireMessage) /\ broken[n] \in BOOLEAN
  BY DEF TypeOK, Connection
<1>2. k \in 0 .. Len(b) /\ Len(wire[n]) + k <= KernelBuffer /\ KernelBuffer \in Nat
  <2>1. Len(b) \in Nat /\ Len(wire[n]) \in Nat /\ KernelBuffer \in Nat
    BY <1>1, BuffersAssumption
  <2> HIDE DEF b
  <2>2. Room(n) \in Nat /\ Len(wire[n]) + Room(n) = KernelBuffer
    BY <2>1 DEF Room
  <2>3. Min2(Len(b), Room(n)) \in 0 .. Len(b) /\ Min2(Len(b), Room(n)) <= Room(n)
    BY <2>1, <2>2 DEF Min2
  <2> QED BY <2>1, <2>2, <2>3
<1>3. CASE c.ws \/ c.awaiting
  BY <1>1, <1>3 DEF Written
<1>4. CASE ~ (c.ws \/ c.awaiting)
  <2>1. Written(n, c).conn = d /\ Written(n, c).wire = wire[n] \o SubSeq(b, 1, k)
    BY <1>4 DEF Written
  <2> HIDE DEF k
  <2>2. /\ SubSeq(b, k + 1, Len(b)) \in Seq(WireMessage) /\ SubSeq(b, 1, k) \in Seq(WireMessage)
        /\ Len(SubSeq(b, 1, k)) = k /\ SubSeq(b, 1, k) \o SubSeq(b, k + 1, Len(b)) = b
    BY <1>1, <1>2, SplitAt
  <2>3. /\ d \in Connection /\ d.state = c.state /\ d.ws = c.ws /\ d.sending = c.sending
        /\ d.buffer = IF broken[n] THEN b ELSE SubSeq(b, k + 1, Len(b))
    <3>1. CASE broken[n]
      BY <3>1 DEF send_data, Connection, should_read
    <3>2. CASE ~ broken[n]
      <4> DEFINE y == SubSeq(b, k + 1, Len(b))
                 full == k < Len(b)
      <4>1. y \in Seq(WireMessage) /\ full \in BOOLEAN
        BY <2>2
      <4>2. d = [c EXCEPT !.buffer = y, !.awaiting = full, !.waker = full, !.paused = full]
        BY <3>2 DEF send_data
      <4> HIDE DEF d, y, full
      <4> QED BY <3>2, <4>1, <4>2 DEF Connection, y
    <3> QED BY <3>1, <3>2
  <2>4. broken[n] => k = 0
    BY DEF k
  <2>5. k = 0 => SubSeq(b, 1, k) = <<>> /\ wire[n] \o SubSeq(b, 1, k) = wire[n]
    BY <1>1, <2>2
  <2> HIDE DEF d
  <2>6. (wire[n] \o SubSeq(b, 1, k)) \o d.buffer = wire[n] \o b
    <3>1. CASE broken[n]
      BY <2>3, <2>4, <2>5, <3>1
    <3>2. CASE ~ broken[n]
      <4>1. (wire[n] \o SubSeq(b, 1, k)) \o SubSeq(b, k + 1, Len(b))
              = wire[n] \o (SubSeq(b, 1, k) \o SubSeq(b, k + 1, Len(b)))
        BY <1>1, <2>2, Regroup
      <4> QED BY <2>2, <2>3, <3>2, <4>1
    <3> QED BY <3>1, <3>2
  <2>7. wire[n] \o SubSeq(b, 1, k) \in Seq(WireMessage) /\ Len(wire[n] \o SubSeq(b, 1, k)) <= KernelBuffer
    <3>1. Len(wire[n] \o SubSeq(b, 1, k)) = Len(wire[n]) + k /\ wire[n] \o SubSeq(b, 1, k) \in Seq(WireMessage)
      BY <1>1, <2>2, ConcatProperties
    <3> QED BY <1>2, <3>1
  <2> QED BY <1>4, <2>1, <2>3, <2>4, <2>5, <2>6, <2>7 DEF b
<1> QED BY <1>3, <1>4

-----------------------------------------------------------------------------
(* What a step leaves alone *)

LEMMA Facts ==
    ASSUME IInv, NEW n \in Nodes
    PROVE  /\ published[n] \in Nat /\ conn[n] \in Connection /\ conn[n].buffer \in Seq(WireMessage)
           /\ wire[n] \in Seq(WireMessage) /\ reader[n] \in Seq(WireMessage)
           /\ received[n] \in Seq(ReceivedMessage) /\ events[n] \in Seq(NodeEvent)
           /\ table[n] \in SUBSET MessageRow /\ lastOut[n] \in LastOutboundDlcMessage
           /\ broken[n] \in BOOLEAN /\ TypeOK
           /\ EventsOK(n) /\ SentOK(n) /\ ReadOK(n) /\ TableOK(n) /\ EndOK(n) /\ StreamOK(n)
BY DEF IInv, TypeOK, ContentsOK, StreamsOK, Connection

\* The messages of a stream are those of its two parts.
All(s, G) == \A i \in DOMAIN s : s[i] \in G
LEMMA AllJoined ==
    ASSUME NEW G, NEW s \in Seq(WireMessage), NEW t \in Seq(WireMessage)
    PROVE  All(s \o t, G) <=> All(s, G) /\ All(t, G)
<1> DEFINE z == s \o t
<1>1. /\ Len(s) \in Nat /\ Len(t) \in Nat /\ DOMAIN s = 1 .. Len(s) /\ DOMAIN t = 1 .. Len(t)
  BY ElementOf
<1>2. /\ Len(z) = Len(s) + Len(t) /\ DOMAIN z = 1 .. Len(z) /\ \A i \in 1 .. Len(s) : z[i] = s[i]
      /\ \A i \in 1 .. Len(s) + Len(t) : i > Len(s) => z[i] = t[i - Len(s)]
  BY Joined, ElementOf
<1> HIDE DEF z
<1>3. ASSUME All(s, G), All(t, G), NEW i \in DOMAIN z PROVE z[i] \in G
  <2>1. CASE i <= Len(s)
    BY <1>1, <1>2, <1>3, <2>1 DEF All
  <2>2. CASE i > Len(s)
    <3>1. i - Len(s) \in 1 .. Len(t)
      BY <1>1, <1>2, <2>2
    <3> QED BY <1>1, <1>2, <1>3, <2>2, <3>1 DEF All
  <2> QED BY <1>1, <1>2, <2>1, <2>2
<1>4. ASSUME All(z, G) PROVE All(s, G)
  BY <1>1, <1>2, <1>4 DEF All
<1>5. ASSUME All(z, G), NEW i \in DOMAIN t PROVE t[i] \in G
  <2>1. i + Len(s) \in 1 .. Len(z) /\ i + Len(s) > Len(s) /\ (i + Len(s)) - Len(s) = i
    BY <1>1, <1>2
  <2>2. z[i + Len(s)] = t[i]
    BY <1>2, <2>1
  <2> QED BY <1>2, <1>5, <2>1, <2>2 DEF All
<1> QED BY <1>3, <1>4, <1>5 DEF All, z

Genuines(n) == {w \in WireMessage : Genuine(n, w)}
LEMMA SentAll ==
    ASSUME NEW n \in Nodes, wire[n] \in Seq(WireMessage), conn[n].buffer \in Seq(WireMessage)
    PROVE  SentOK(n) <=> All(wire[n], Genuines(n)) /\ All(conn[n].buffer, Genuines(n))
BY ElementOf DEF SentOK, All, Genuines

LEMMA SentAllNext ==
    ASSUME NEW n \in Nodes, wire'[n] \in Seq(WireMessage), conn'[n].buffer \in Seq(WireMessage),
           published' = published
    PROVE  SentOK(n)' <=> All(wire'[n], Genuines(n)) /\ All(conn'[n].buffer, Genuines(n))
BY ElementOf DEF SentOK, All, Genuines, Genuine

\* A stream that is passed on, cut off or given up.
LEMMA StreamKept ==
    ASSUME IInv, NEW p \in Nodes, reader'[Peer(p)] = reader[Peer(p)],
           wire'[p] \in Seq(WireMessage),
           conn'[Peer(p)].state # "closed" => conn[Peer(p)].state # "closed",
           \/ wire'[p] = wire[p] \/ wire'[p] = <<>>
           \/ \E t \in Seq(WireMessage) : wire[p] = wire'[p] \o t
           \/ Writing(p) /\ \E t \in Seq(WireMessage) : wire[p] \o conn[p].buffer = wire'[p] \o t,
           Writing(p)' => /\ Writing(p)
                          /\ wire'[p] \o conn'[p].buffer = wire[p] \o conn[p].buffer
    PROVE  StreamOK(p)'
<1>1. /\ Peer(p) \in Nodes /\ reader[Peer(p)] \in Seq(WireMessage)
      /\ wire[p] \in Seq(WireMessage) /\ conn[p].buffer \in Seq(WireMessage) /\ StreamOK(p)
  BY PeerFacts, Facts
<1> SUFFICES ASSUME conn'[Peer(p)].state # "closed"
             PROVE  /\ Parses(reader[Peer(p)], wire'[p])
                    /\ Writing(p)' => ParsesWhole(reader[Peer(p)], wire'[p] \o conn'[p].buffer)
  BY DEF StreamOK
<1>2. /\ Parses(reader[Peer(p)], wire[p])
      /\ Writing(p) => ParsesWhole(reader[Peer(p)], wire[p] \o conn[p].buffer)
  BY <1>1 DEF StreamOK
<1>3. Parses(reader[Peer(p)], <<>>)
  BY ParsesNothing, WholeParses
<1>4. ASSUME NEW t \in Seq(WireMessage), wire[p] = wire'[p] \o t
      PROVE  Parses(reader[Peer(p)], wire'[p])
  BY <1>1, <1>2, <1>4, ParsesPrefix
<1>5. ASSUME NEW t \in Seq(WireMessage), Writing(p), wire[p] \o conn[p].buffer = wire'[p] \o t
      PROVE  Parses(reader[Peer(p)], wire'[p])
  BY <1>1, <1>2, <1>5, ParsesPrefix, WholeParses
<1> QED BY <1>2, <1>3, <1>4, <1>5

\* Parts of the contents that depend on nothing a step has changed
LEMMA ContentsKept ==
    ASSUME NEW n \in Nodes, published' = published
    PROVE  /\ \A w : Genuine(n, w)' <=> Genuine(n, w)
           /\ \A h, k : Recorded(n, h, k)' <=> Recorded(n, h, k)
           /\ events'[n] = events[n] /\ EventsOK(n) => EventsOK(n)'
           /\ reader'[n] = reader[n] /\ received'[n] = received[n] /\ ReadOK(n) => ReadOK(n)'
           /\ table'[n] = table[n] /\ lastOut'[n] = lastOut[n] /\ TableOK(n) => TableOK(n)'
BY DEF Genuine, Recorded, EventsOK, ReadOK, TableOK

LEMMA SentKept ==
    ASSUME NEW n \in Nodes, published' = published, conn'[n] = conn[n], wire'[n] = wire[n], SentOK(n)
    PROVE  SentOK(n)'
BY DEF SentOK, Genuine

-----------------------------------------------------------------------------
(* Connections *)

LEMMA ClosedOK == Closed \in Connection /\ Closed.state = "closed" /\ Closed.buffer = <<>> /\ ~ Closed.sending
<1>1. <<>> \in Seq(WireMessage)
  BY EmptySeq
<1> QED BY <1>1 DEF Closed, Connection

\* One end of the connection goes.
LEMMA Disconnects ==
    ASSUME IInv, NEW n \in Nodes, Disconnected(n), published' = published,
           reader'[Peer(n)] = reader[Peer(n)], reader'[n] \in {reader[n], <<>>}
    PROVE  /\ conn' \in [Nodes -> Connection] /\ wire' \in [Nodes -> Seq(WireMessage)]
           /\ broken' \in [Nodes -> BOOLEAN] /\ silent' \in BOOLEAN
           /\ \A m \in Nodes : SentOK(m)'
           /\ StreamsOK'
<1> DEFINE p == Peer(n)
<1>0. p \in Nodes /\ p # n /\ Peer(p) = n /\ Nodes = {n, p}
  BY PeerFacts
<1>1. /\ conn \in [Nodes -> Connection] /\ wire \in [Nodes -> Seq(WireMessage)]
      /\ broken \in [Nodes -> BOOLEAN] /\ silent \in BOOLEAN /\ <<>> \in Seq(WireMessage)
  BY EmptySeq DEF IInv, TypeOK
<1>2. conn' = [conn EXCEPT ![n] = Closed, ![p] = IF silent THEN @ ELSE Woken(@)]
  BY DEF Disconnected
<1>3. conn'[n] = Closed /\ conn'[p] \in {conn[p], Woken(conn[p])}
  BY <1>0, <1>1, <1>2
<1>4. \A m \in Nodes : wire'[m] \in {wire[m], <<>>}
  BY <1>0, <1>1 DEF Disconnected
<1>5. /\ wire' \in [Nodes -> Seq(WireMessage)] /\ broken' \in [Nodes -> BOOLEAN] /\ silent' \in BOOLEAN
  BY <1>0, <1>1 DEF Disconnected
<1>6. /\ conn'[p] \in Connection /\ conn'[p].state = conn[p].state /\ conn'[p].buffer = conn[p].buffer
      /\ conn'[p].ws = conn[p].ws /\ conn'[p].sending = conn[p].sending
  BY <1>0, <1>1, <1>3, WokenOK
<1>7. conn' \in [Nodes -> Connection]
  BY <1>0, <1>1, <1>2, <1>3, <1>6, ClosedOK
<1> HIDE DEF p
<1>8. ASSUME NEW m \in Nodes PROVE SentOK(m)'
  <2>1. SentOK(m) /\ conn'[m].buffer \in {conn[m].buffer, <<>>} /\ wire'[m] \in {wire[m], <<>>}
    BY <1>0, <1>3, <1>4, <1>6, Facts, ClosedOK
  <2>2. \A w : Genuine(m, w)' <=> Genuine(m, w)
    BY ContentsKept
  <2> QED BY <2>1, <2>2 DEF SentOK
<1>9. ASSUME NEW m \in Nodes PROVE EndOK(m)'
  <2>1. EndOK(m) /\ KernelBuffer \in Nat /\ Len(<<>>) = 0
    BY Facts, BuffersAssumption
  <2>2. /\ Len(wire'[m]) <= KernelBuffer /\ reader'[m] \in {reader[m], <<>>}
    BY <1>0, <1>4, <2>1 DEF EndOK, p
  <2>3. /\ conn'[m].state # "forgotten"
        /\ conn'[m].state = "closed" => conn'[m].buffer = <<>>
        /\ conn'[m].sending => conn'[m].ws /\ conn'[m].buffer # <<>>
    BY <1>0, <1>3, <1>6, <2>1, ClosedOK DEF EndOK
  <2> QED BY <2>1, <2>2, <2>3 DEF EndOK, Partial
<1>10. StreamOK(p)'
  BY <1>0, <1>3, ClosedOK DEF StreamOK
<1>11. StreamOK(n)'
  <2>1. ~ Writing(n)'
    BY <1>3, ClosedOK DEF Writing
  <2>2. conn'[p].state = conn[p].state /\ wire'[n] \in Seq(WireMessage)
    BY <1>5, <1>6
  <2> QED BY <1>4, <2>1, <2>2, StreamKept DEF p
<1> QED BY <1>0, <1>5, <1>7, <1>8, <1>9, <1>10, <1>11 DEF StreamsOK

\* Steps that leave both ends in their states and add nothing to the streams.
LEMMA LinksKept ==
    ASSUME IInv, published' = published, reader' = reader,
           conn' \in [Nodes -> Connection], wire' \in [Nodes -> Seq(WireMessage)],
           \A m \in Nodes :
              /\ conn'[m].state = conn[m].state
              /\ conn'[m].state = "closed" => conn'[m].buffer = <<>>
              /\ conn'[m].sending => conn'[m].ws /\ conn'[m].buffer # <<>>
              /\ Len(wire'[m]) <= KernelBuffer
              /\ broken[m] => broken'[m]
              /\ \/ conn'[m].buffer = conn[m].buffer /\ wire'[m] = wire[m]
                 \/ /\ conn'[m].buffer = conn[m].buffer /\ broken'[m]
                    /\ \E t \in Seq(WireMessage) : wire[m] = wire'[m] \o t
                 \/ /\ wire'[m] \o conn'[m].buffer = wire[m] \o conn[m].buffer
                    /\ ~ Writing(m) => wire'[m] = wire[m]
    PROVE  (\A m \in Nodes : SentOK(m)') /\ StreamsOK'
<1>0. ASSUME NEW m \in Nodes
      PROVE  SentOK(m)' /\ EndOK(m)' /\ StreamOK(m)'
  <2>0. /\ wire[m] \in Seq(WireMessage) /\ conn[m].buffer \in Seq(WireMessage) /\ EndOK(m) /\ SentOK(m)
        /\ Peer(m) \in Nodes /\ StreamOK(m)
    BY Facts, PeerFacts
  <2>1. wire'[m] \in Seq(WireMessage) /\ conn'[m].buffer \in Seq(WireMessage)
    BY DEF Connection
  <2>2. EndOK(m)'
    <3>1. /\ conn'[m].state = conn[m].state /\ Len(wire'[m]) <= KernelBuffer
          /\ conn'[m].state = "closed" => conn'[m].buffer = <<>>
          /\ conn'[m].sending => conn'[m].ws /\ conn'[m].buffer # <<>>
      OBVIOUS
    <3> QED BY <2>0, <3>1 DEF EndOK
  <2>3. \A w : Genuine(m, w)' <=> Genuine(m, w)
    BY ContentsKept
  <2>4. SentOK(m)'
    <3>0. All(wire[m], Genuines(m)) /\ All(conn[m].buffer, Genuines(m))
      BY <2>0, SentAll
    <3>1. CASE conn'[m].buffer = conn[m].buffer /\ wire'[m] = wire[m]
      BY <2>1, <3>0, <3>1, SentAllNext
    <3>2. CASE wire'[m] \o conn'[m].buffer = wire[m] \o conn[m].buffer
      <4>1. All(wire'[m] \o conn'[m].buffer, Genuines(m))
        BY <2>0, <3>0, <3>2, AllJoined
      <4> QED BY <2>1, <4>1, AllJoined, SentAllNext
    <3>3. CASE /\ conn'[m].buffer = conn[m].buffer
               /\ \E t \in Seq(WireMessage) : wire[m] = wire'[m] \o t
      <4>1. PICK t \in Seq(WireMessage) : wire[m] = wire'[m] \o t
        BY <3>3
      <4>2. All(wire'[m], Genuines(m))
        BY <2>1, <3>0, <4>1, AllJoined
      <4> QED BY <2>1, <3>0, <3>3, <4>2, SentAllNext
    <3> QED BY <3>1, <3>2, <3>3
  <2>5. StreamOK(m)'
    <3>1. conn'[Peer(m)].state = conn[Peer(m)].state /\ reader'[Peer(m)] = reader[Peer(m)]
      BY <2>0
    <3>2. Writing(m)' => Writing(m) /\ wire'[m] \o conn'[m].buffer = wire[m] \o conn[m].buffer
      <4>1. /\ conn'[m].state = conn[m].state /\ (broken[m] => broken'[m])
            /\ broken'[m] \/ wire'[m] \o conn'[m].buffer = wire[m] \o conn[m].buffer
        OBVIOUS
      <4> QED BY <4>1 DEF Writing
    <3>3. \/ wire'[m] = wire[m]
          \/ \E t \in Seq(WireMessage) : wire[m] = wire'[m] \o t
          \/ Writing(m) /\ wire[m] \o conn[m].buffer = wire'[m] \o conn'[m].buffer
      OBVIOUS
    <3> QED BY <2>1, <3>1, <3>2, <3>3, StreamKept
  <2> QED BY <2>2, <2>4, <2>5
<1> QED BY <1>0 DEF StreamsOK

-----------------------------------------------------------------------------
(* One lemma per action *)

\* The contents of tables and readers when only the streams change
LEMMA ContentsOfLinks ==
    ASSUME IInv, UNCHANGED <<published, events, table, lastOut, reader, received>>,
           \A m \in Nodes : SentOK(m)'
    PROVE  ContentsOK'
<1>1. ASSUME NEW m \in Nodes PROVE EventsOK(m)' /\ ReadOK(m)' /\ TableOK(m)'
  BY Facts, ContentsKept
<1> QED BY <1>1 DEF ContentsOK

LEMMA DialStep ==
    ASSUME IInv, NEW ws \in BOOLEAN, Dial(ws)
    PROVE  IInv'
<1>1. /\ \A n \in Nodes : conn[n].state = "closed"
      /\ connections < MaxConnections /\ connections' = connections + 1
      /\ conn' = connect_outbound(ws) /\ wire' = [n \in Nodes |-> <<InitMessage>>]
      /\ UNCHANGED <<published, events, table, lastOut, broken, silent, reader, received, faults>>
  BY DEF Dial
<1>2. /\ conn' \in [Nodes -> Connection]
      /\ \A n \in Nodes : conn'[n].state = "handshake" /\ conn'[n].buffer = <<>> /\ ~ conn'[n].sending
  <2>1. \A c \in {OutboundWs, OutboundTcp, InboundWs, InboundTcp} :
            c \in Connection /\ c.state = "handshake" /\ c.buffer = <<>> /\ ~ c.sending
    BY ClosedOK DEF OutboundWs, OutboundTcp, InboundWs, InboundTcp, Connection
  <2>2. \A n \in Nodes : conn'[n] \in {OutboundWs, OutboundTcp, InboundWs, InboundTcp}
    BY <1>1 DEF connect_outbound, Nodes
  <2>3. conn' = [n \in Nodes |-> conn'[n]]
    BY <1>1 DEF connect_outbound, Nodes
  <2> QED BY <2>1, <2>2, <2>3
<1>3. InitMessage \in WireMessage /\ InitMessage.type = "Init"
  BY DEF InitMessage, WireMessage
<1>4. /\ wire' \in [Nodes -> Seq(WireMessage)]
      /\ \A n \in Nodes : wire'[n] = <<InitMessage>> /\ Len(wire'[n]) = 1
  BY <1>1, <1>3
<1>5. TypeOK'
  BY <1>1, <1>2, <1>4, FaultsAssumption DEF IInv, TypeOK
<1>6. \A m \in Nodes : SentOK(m)'
  BY <1>2, <1>3, <1>4 DEF SentOK, Genuine
<1>7. ContentsOK'
  BY <1>1, <1>6, ContentsOfLinks
<1>8. ASSUME NEW m \in Nodes PROVE EndOK(m)' /\ StreamOK(m)'
  <2>1. EndOK(m) /\ KernelBuffer \in Nat \ {0}
    BY Facts, BuffersAssumption
  <2>2. EndOK(m)'
    BY <1>1, <1>2, <1>4, <2>1 DEF EndOK
  <2>3. wire'[m] \o conn'[m].buffer = <<InitMessage>>
    <3>1. <<InitMessage>> \in Seq(WireMessage)
      BY <1>3
    <3> QED BY <1>2, <1>4, <3>1, ConcatEmptySeq
  <2>4. StreamOK(m)'
    BY <1>4, <2>3, ParsesNothing, WholeParses DEF StreamOK
  <2> QED BY <2>2, <2>4
<1> QED BY <1>5, <1>7, <1>8 DEF IInv, StreamsOK

\* A cut leaves each stream with its beginning.
LEMMA CutStep ==
    ASSUME IInv, Cut
    PROVE  IInv'
<1>1. /\ faults < MaxFaults /\ faults' = faults + 1
      /\ conn' = [n \in Nodes |-> Woken(conn[n])] /\ broken' = [n \in Nodes |-> TRUE]
      /\ UNCHANGED <<published, events, table, lastOut, silent, reader, received, connections>>
  BY DEF Cut
<1>2. PICK a \in Prefixes(wire["coordinator"]), b \in Prefixes(wire["app"]) :
          wire' = [coordinator |-> a, app |-> b]
  BY DEF Cut
<1>3. ASSUME NEW n \in Nodes, NEW x \in Prefixes(wire[n])
      PROVE  /\ x \in Seq(WireMessage) /\ Len(x) <= Len(wire[n])
             /\ \E t \in Seq(WireMessage) : wire[n] = x \o t
  <2>1. wire[n] \in Seq(WireMessage) /\ Len(wire[n]) \in Nat
    BY Facts, ElementOf
  <2>2. PICK k \in 0 .. Len(wire[n]) : x = SubSeq(wire[n], 1, k)
    BY DEF Prefixes
  <2>3. /\ x \in Seq(WireMessage) /\ Len(x) = k /\ SubSeq(wire[n], k + 1, Len(wire[n])) \in Seq(WireMessage)
        /\ wire[n] = x \o SubSeq(wire[n], k + 1, Len(wire[n]))
    BY <2>1, <2>2, SplitAt
  <2>4. \E t \in Seq(WireMessage) : wire[n] = x \o t
    BY <2>3
  <2>5. Len(x) <= Len(wire[n])
    BY <2>1, <2>3
  <2> QED BY <2>3, <2>4, <2>5
<1>4. ASSUME NEW n \in Nodes
      PROVE  /\ wire'[n] \in Seq(WireMessage) /\ Len(wire'[n]) <= KernelBuffer
             /\ \E t \in Seq(WireMessage) : wire[n] = wire'[n] \o t
  <2>1. wire'[n] \in Prefixes(wire[n])
    BY <1>2 DEF Nodes
  <2>2. Len(wire[n]) \in Nat /\ Len(wire[n]) <= KernelBuffer /\ KernelBuffer \in Nat
    BY Facts, ElementOf, BuffersAssumption DEF EndOK
  <2>3. /\ wire'[n] \in Seq(WireMessage) /\ Len(wire'[n]) <= Len(wire[n])
        /\ \E t \in Seq(WireMessage) : wire[n] = wire'[n] \o t
    BY <1>3, <2>1
  <2>4. Len(wire'[n]) \in Nat
    BY <2>3, ElementOf
  <2>5. Len(wire'[n]) <= KernelBuffer
    BY <2>2, <2>3, <2>4
  <2> QED BY <2>3, <2>5
<1>5. wire' \in [Nodes -> Seq(WireMessage)]
  <2>1. wire' = [n \in Nodes |-> wire'[n]]
    BY <1>2 DEF Nodes
  <2> QED BY <1>4, <2>1
<1>6. ASSUME NEW n \in Nodes
      PROVE  /\ conn'[n] \in Connection /\ conn'[n].state = conn[n].state /\ conn'[n].buffer = conn[n].buffer
             /\ conn'[n].sending => conn'[n].ws /\ conn'[n].buffer # <<>>
             /\ conn'[n].state = "closed" => conn'[n].buffer = <<>>
  <2>1. conn[n] \in Connection /\ EndOK(n)
    BY Facts
  <2> QED BY <1>1, <2>1, WokenOK DEF EndOK
<1>7. conn' \in [Nodes -> Connection]
  BY <1>1, <1>6
<1>8. (\A m \in Nodes : SentOK(m)') /\ StreamsOK'
  BY <1>1, <1>4, <1>5, <1>6, <1>7, LinksKept
<1>9. TypeOK'
  BY <1>1, <1>5, <1>7, FaultsAssumption DEF IInv, TypeOK
<1>10. ContentsOK'
  BY <1>1, <1>8, ContentsOfLinks
<1> QED BY <1>8, <1>9, <1>10 DEF IInv

LEMMA SilentStep ==
    ASSUME IInv, GoSilent \/ \E n \in Nodes : KernelGivesUp(n)
    PROVE  IInv'
<1>1. /\ UNCHANGED <<published, events, table, lastOut, wire, reader, received, connections>>
      /\ faults' = faults \/ (faults < MaxFaults /\ faults' = faults + 1)
      /\ silent' \in BOOLEAN
  BY DEF IInv, TypeOK, GoSilent, KernelGivesUp
<1>2. broken' \in [Nodes -> BOOLEAN] /\ \A m \in Nodes : broken[m] => broken'[m]
  BY DEF IInv, TypeOK, GoSilent, KernelGivesUp
<1>3. conn \in [Nodes -> Connection] /\ \A m \in Nodes : conn'[m] \in {conn[m], Woken(conn[m])}
  BY DEF IInv, TypeOK, GoSilent, KernelGivesUp
<1>4. ASSUME NEW n \in Nodes
      PROVE  /\ conn'[n] \in Connection /\ conn'[n].state = conn[n].state /\ conn'[n].buffer = conn[n].buffer
             /\ conn'[n].sending => conn'[n].ws /\ conn'[n].buffer # <<>>
             /\ conn'[n].state = "closed" => conn'[n].buffer = <<>>
             /\ wire'[n] = wire[n] /\ Len(wire'[n]) <= KernelBuffer
  <2>1. conn[n] \in Connection /\ EndOK(n)
    BY Facts
  <2> QED BY <1>1, <1>3, <2>1, WokenOK DEF EndOK
<1>5. conn' \in [Nodes -> Connection]
  <2>1. conn' = [m \in Nodes |-> conn'[m]]
    BY <1>3 DEF GoSilent, KernelGivesUp
  <2> QED BY <1>4, <2>1
<1>6. wire' \in [Nodes -> Seq(WireMessage)]
  BY <1>1 DEF IInv, TypeOK
<1>7. (\A m \in Nodes : SentOK(m)') /\ StreamsOK'
  BY <1>1, <1>2, <1>4, <1>5, <1>6, LinksKept
<1>8. TypeOK'
  BY <1>1, <1>2, <1>5, <1>6, FaultsAssumption DEF IInv, TypeOK
<1>9. ContentsOK'
  BY <1>1, <1>7, ContentsOfLinks
<1> QED BY <1>7, <1>8, <1>9 DEF IInv

\* A process that starts again has forgotten what it had half received.
LEMMA RestartStep ==
    ASSUME IInv, NEW n \in Nodes, Restart(n)
    PROVE  IInv'
<1>1. /\ faults < MaxFaults /\ faults' = faults + 1
      /\ events' = [events EXCEPT ![n] = <<>>] /\ reader' = [reader EXCEPT ![n] = <<>>]
      /\ received' = [received EXCEPT ![n] = <<>>]
      /\ UNCHANGED <<published, table, lastOut, connections>>
  BY DEF Restart
<1>2. /\ events' \in [Nodes -> Seq(NodeEvent)] /\ reader' \in [Nodes -> Seq(WireMessage)]
      /\ received' \in [Nodes -> Seq(ReceivedMessage)]
  BY <1>1, EmptySeq DEF IInv, TypeOK
<1>3. \A m \in Nodes : /\ events'[m] \in {events[m], <<>>} /\ reader'[m] \in {reader[m], <<>>}
                       /\ received'[m] \in {received[m], <<>>} /\ (m # n => reader'[m] = reader[m])
  BY <1>1 DEF IInv, TypeOK
<1>4. /\ conn' \in [Nodes -> Connection] /\ wire' \in [Nodes -> Seq(WireMessage)]
      /\ broken' \in [Nodes -> BOOLEAN] /\ silent' \in BOOLEAN
      /\ \A m \in Nodes : SentOK(m)'
      /\ StreamsOK'
  <2>1. CASE conn[n].state = "closed"
    <3>1. UNCHANGED <<conn, wire, broken, silent>>
      BY <2>1 DEF Restart
    <3>2. ASSUME NEW m \in Nodes PROVE SentOK(m)' /\ EndOK(m)'
      <4>1. SentOK(m) /\ EndOK(m)
        BY Facts
      <4>2. \A w : Genuine(m, w)' <=> Genuine(m, w)
        BY <1>1, ContentsKept
      <4>3. SentOK(m)'
        BY <3>1, <4>1, <4>2 DEF SentOK
      <4>4. EndOK(m)'
        BY <1>3, <3>1, <4>1 DEF EndOK, Partial
      <4> QED BY <4>3, <4>4
    <3>3. StreamOK(Peer(n))'
      BY <2>1, <3>1, PeerFacts DEF StreamOK
    <3>4. StreamOK(n)'
      <4>1. Peer(n) \in Nodes /\ Peer(n) # n /\ StreamOK(n) /\ reader'[Peer(n)] = reader[Peer(n)]
        BY <1>3, Facts, PeerFacts
      <4> QED BY <3>1, <4>1 DEF StreamOK, Writing
    <3>5. Nodes = {n, Peer(n)}
      BY PeerFacts
    <3> QED BY <3>1, <3>2, <3>3, <3>4, <3>5 DEF StreamsOK, IInv, TypeOK
  <2>2. CASE conn[n].state # "closed"
    <3>1. Disconnected(n)
      BY <2>2 DEF Restart
    <3>2. reader'[Peer(n)] = reader[Peer(n)] /\ reader'[n] \in {reader[n], <<>>}
      BY <1>3, PeerFacts
    <3> QED BY <1>1, <3>1, <3>2, Disconnects
  <2> QED BY <2>1, <2>2
<1>5. TypeOK'
  BY <1>1, <1>2, <1>4, FaultsAssumption DEF IInv, TypeOK
<1>6. ASSUME NEW m \in Nodes PROVE EventsOK(m)' /\ ReadOK(m)' /\ TableOK(m)'
  <2>1. EventsOK(m) /\ ReadOK(m) /\ TableOK(m) /\ Peer(m) \in Nodes
    BY Facts, PeerFacts
  <2>2. EventsOK(m)'
    BY <1>1, <1>3, <2>1 DEF EventsOK
  <2>3. ReadOK(m)'
    <3>1. /\ \A w : Genuine(Peer(m), w)' <=> Genuine(Peer(m), w)
          /\ \A h, k : Recorded(Peer(m), h, k)' <=> Recorded(Peer(m), h, k)
      BY <1>1, <2>1, ContentsKept
    <3> QED BY <1>3, <2>1, <3>1 DEF ReadOK
  <2>4. TableOK(m)'
    BY <1>1, <2>1, ContentsKept
  <2> QED BY <2>2, <2>3, <2>4
<1> QED BY <1>4, <1>5, <1>6 DEF IInv, ContentsOK

\* The end of the stream, or a web socket that cannot be written to.
LEMMA GoneStep ==
    ASSUME IInv, NEW n \in Nodes, Disconnected(n),
           UNCHANGED <<published, events, table, lastOut, reader, received, connections, faults>>
    PROVE  IInv'
<1>1. /\ conn' \in [Nodes -> Connection] /\ wire' \in [Nodes -> Seq(WireMessage)]
      /\ broken' \in [Nodes -> BOOLEAN] /\ silent' \in BOOLEAN
      /\ \A m \in Nodes : SentOK(m)'
      /\ StreamsOK'
  BY Disconnects
<1>2. TypeOK'
  BY <1>1 DEF IInv, TypeOK
<1>3. ContentsOK'
  BY <1>1, ContentsOfLinks
<1> QED BY <1>1, <1>2, <1>3 DEF IInv

\* What is queued goes to the kernel.
LEMMA WriteStep ==
    ASSUME IInv, NEW n \in Nodes, WriteAvail(n) \/ WsTake(n) \/ (WsSend(n) /\ ~ broken[n])
    PROVE  IInv'
<1>0. /\ conn[n] \in Connection /\ conn[n].buffer \in Seq(WireMessage) /\ wire[n] \in Seq(WireMessage)
      /\ conn \in [Nodes -> Connection] /\ wire \in [Nodes -> Seq(WireMessage)]
      /\ EndOK(n) /\ TypeOK /\ conn[n].sending \in BOOLEAN /\ conn[n].ws \in BOOLEAN
  BY Facts DEF IInv, TypeOK, Connection
<1>1. UNCHANGED <<published, events, table, lastOut, broken, silent, reader, received, connections, faults>>
  BY DEF WriteAvail, WsTake, WsSend
<1>2. PICK c \in Connection, s \in Seq(WireMessage) :
          /\ conn' = [conn EXCEPT ![n] = c] /\ wire' = [wire EXCEPT ![n] = s]
          /\ c.state = conn[n].state /\ c.state # "closed" /\ Len(s) <= KernelBuffer
          /\ c.sending => c.ws /\ c.buffer # <<>>
          /\ s \o c.buffer = wire[n] \o conn[n].buffer
          /\ ~ Writing(n) => s = wire[n]
  <2>1. CASE WriteAvail(n)
    <3> DEFINE c == [conn[n] EXCEPT !.avail = FALSE, !.awaiting = FALSE]
               d == Written(n, c).conn
               s == Written(n, c).wire
    <3>1. c \in Connection /\ c.state = conn[n].state /\ c.buffer = conn[n].buffer
          /\ c.ws = conn[n].ws /\ c.sending = conn[n].sending
      BY <1>0 DEF Connection
    <3>2. /\ conn[n].state # "closed"
          /\ conn' = [conn EXCEPT ![n] = d] /\ wire' = [wire EXCEPT ![n] = s]
      BY <2>1 DEF WriteAvail
    <3> HIDE DEF c
    <3>3. /\ d \in Connection /\ d.state = c.state /\ d.ws = c.ws
          /\ d.sending = c.sending /\ (c.ws => d.buffer = c.buffer)
          /\ s \in Seq(WireMessage) /\ Len(s) <= KernelBuffer
          /\ s \o d.buffer = wire[n] \o c.buffer
          /\ broken[n] => s = wire[n]
      BY <1>0, <3>1, WrittenOK DEF EndOK
    <3> HIDE DEF d, s
    <3>4. /\ d.state = conn[n].state /\ s \o d.buffer = wire[n] \o conn[n].buffer
          /\ d.sending => d.ws /\ d.buffer # <<>>
          /\ ~ Writing(n) => s = wire[n]
      BY <1>0, <3>1, <3>2, <3>3 DEF EndOK, Writing
    <3> QED BY <3>2, <3>3, <3>4
  <2>2. CASE WsTake(n)
    <3> DEFINE c == [conn[n] EXCEPT !.sending = TRUE]
    <3>1. /\ c \in Connection /\ c.state = conn[n].state /\ c.buffer = conn[n].buffer
          /\ c.ws = conn[n].ws
      BY <1>0 DEF Connection
    <3>2. conn' = [conn EXCEPT ![n] = c] /\ conn[n].ws /\ conn[n].buffer # <<>>
      BY <1>0, <2>2 DEF WsTake
    <3>3. wire' = [wire EXCEPT ![n] = wire[n]]
      BY <1>0, <2>2 DEF WsTake
    <3>4. Len(wire[n]) <= KernelBuffer /\ conn[n].state # "closed"
      BY <1>0, <3>2 DEF EndOK
    <3> HIDE DEF c
    <3> QED BY <1>0, <3>1, <3>2, <3>3, <3>4
  <2>3. CASE WsSend(n) /\ ~ broken[n]
    <3> DEFINE b == conn[n].buffer
               c == [conn[n] EXCEPT !.sending = FALSE, !.buffer = Tail(b)]
               s == Append(wire[n], Head(b))
    <3>1. /\ conn[n].ws /\ conn[n].sending /\ Room(n) > 0
          /\ wire' = [wire EXCEPT ![n] = Append(@, Head(b))]
          /\ conn' = [conn EXCEPT ![n].sending = FALSE, ![n].buffer = Tail(@)]
      BY <2>3 DEF WsSend
    <3>2. b # <<>> /\ b \in Seq(WireMessage)
      BY <1>0, <3>1 DEF EndOK
    <3>3. Tail(b) \in Seq(WireMessage) /\ Head(b) \in WireMessage
      BY <3>2, HeadTail
    <3>4. c \in Connection /\ c.state = conn[n].state /\ c.buffer = Tail(b) /\ ~ c.sending
      BY <1>0, <3>3 DEF Connection
    <3>5. conn' = [conn EXCEPT ![n] = c]
      BY <1>0, <3>1
    <3>6. s \in Seq(WireMessage) /\ Len(s) = Len(wire[n]) + 1 /\ wire' = [wire EXCEPT ![n] = s]
      BY <1>0, <3>1, <3>3
    <3>7. s \o Tail(b) = wire[n] \o b
      <4>1. s = wire[n] \o <<Head(b)>> /\ <<Head(b)>> \in Seq(WireMessage)
        BY <1>0, <3>3
      <4>2. <<Head(b)>> \o Tail(b) = b
        BY <3>2
      <4>3. (wire[n] \o <<Head(b)>>) \o Tail(b) = wire[n] \o (<<Head(b)>> \o Tail(b))
        BY <1>0, <3>3, <4>1, Regroup
      <4> HIDE DEF s, b
      <4> QED BY <4>1, <4>2, <4>3
    <3>8. Len(s) <= KernelBuffer
      <4>1. Len(wire[n]) \in Nat /\ KernelBuffer \in Nat
        BY <1>0, ElementOf, BuffersAssumption
      <4> QED BY <3>1, <3>6, <4>1 DEF Room
    <3>9. Writing(n) /\ conn[n].state # "closed"
      <4>1. conn[n].state # "closed"
        BY <1>0, <3>2 DEF EndOK
      <4> QED BY <2>3, <4>1 DEF Writing
    <3> HIDE DEF c, s
    <3> QED BY <3>4, <3>5, <3>6, <3>7, <3>8, <3>9
  <2> QED BY <2>1, <2>2, <2>3
<1>3. ASSUME NEW m \in Nodes
      PROVE  /\ conn'[m].state = conn[m].state
             /\ conn'[m].state = "closed" => conn'[m].buffer = <<>>
             /\ conn'[m].sending => conn'[m].ws /\ conn'[m].buffer # <<>>
             /\ Len(wire'[m]) <= KernelBuffer /\ broken'[m] = broken[m]
             /\ \/ conn'[m].buffer = conn[m].buffer /\ wire'[m] = wire[m]
                \/ /\ wire'[m] \o conn'[m].buffer = wire[m] \o conn[m].buffer
                   /\ ~ Writing(m) => wire'[m] = wire[m]
  <2>1. CASE m = n
    BY <1>0, <1>1, <1>2, <2>1
  <2>2. CASE m # n
    <3>1. conn'[m] = conn[m] /\ wire'[m] = wire[m] /\ EndOK(m)
      BY <1>0, <1>2, <2>2, Facts
    <3> QED BY <1>1, <3>1 DEF EndOK
  <2> QED BY <2>1, <2>2
<1>4. conn' \in [Nodes -> Connection] /\ wire' \in [Nodes -> Seq(WireMessage)]
  BY <1>0, <1>2
<1>5. (\A m \in Nodes : SentOK(m)') /\ StreamsOK'
  BY <1>1, <1>3, <1>4, LinksKept
<1>6. TypeOK'
  BY <1>1, <1>4 DEF IInv, TypeOK
<1>7. ContentsOK'
  BY <1>1, <1>5, ContentsOfLinks
<1> QED BY <1>5, <1>6, <1>7 DEF IInv

LEMMA HeadOfJoined ==
    ASSUME NEW s \in Seq(WireMessage), NEW t \in Seq(WireMessage), s # <<>>
    PROVE  /\ s \o t # <<>> /\ Head(s \o t) = Head(s) /\ Tail(s \o t) = Tail(s) \o t
           /\ s \o t \in Seq(WireMessage)
<1>1. Tail(s) \in Seq(WireMessage) /\ Head(s) \in WireMessage /\ <<Head(s)>> \in Seq(WireMessage)
  BY HeadTail
<1>2. s = <<Head(s)>> \o Tail(s)
  OBVIOUS
<1>3. s \o t = <<Head(s)>> \o (Tail(s) \o t) /\ Tail(s) \o t \in Seq(WireMessage)
  BY <1>1, <1>2, Regroup, Joined
<1>4. ASSUME NEW u \in Seq(WireMessage), NEW h \in WireMessage
      PROVE  <<h>> \o u # <<>> /\ Head(<<h>> \o u) = h /\ Tail(<<h>> \o u) = u /\ <<h>> \o u \in Seq(WireMessage)
  OBVIOUS
<1> QED BY <1>1, <1>3, <1>4

\* What the peer sent can be read, and is what it sent.
LEMMA ReadOne ==
    ASSUME IInv, NEW n \in Nodes, CanRead(n), Readable(n)
    PROVE  LET p == Peer(n)
               w == Head(wire[p])
               result == handle_custom_message(reader[n], w)
           IN  /\ wire[p] # <<>> /\ w \in WireMessage /\ Genuine(p, w)
               /\ Tail(wire[p]) \in Seq(WireMessage) /\ Len(Tail(wire[p])) <= KernelBuffer
               /\ w.type # "Init" =>
                    /\ result.ok /\ result.reader \in Seq(WireMessage) /\ Partial(result.reader)
                    /\ \A i \in DOMAIN result.reader :
                          Genuine(p, result.reader[i]) /\ result.reader[i].type # "Init"
                    /\ result.messages \in Seq(ReceivedMessage)
                    /\ \A i \in DOMAIN result.messages :
                          Recorded(p, result.messages[i].hash, result.messages[i].kind)
                    /\ Parses(result.reader, Tail(wire[p]))
                    /\ Writing(p) => ParsesWhole(result.reader, Tail(wire[p]) \o conn[p].buffer)
               /\ w.type = "Init" =>
                    /\ Parses(reader[n], Tail(wire[p]))
                    /\ Writing(p) => ParsesWhole(reader[n], Tail(wire[p]) \o conn[p].buffer)
<1> DEFINE p == Peer(n)
           w == Head(wire[p])
           r == reader[n]
           s == wire[p]
           b == conn[p].buffer
           result == handle_custom_message(r, w)
<1>0. p \in Nodes /\ p # n /\ Peer(p) = n
  BY PeerFacts
<1>1. /\ s \in Seq(WireMessage) /\ b \in Seq(WireMessage) /\ r \in Seq(WireMessage) /\ s # <<>>
      /\ EndOK(n) /\ EndOK(p) /\ SentOK(p) /\ ReadOK(n) /\ StreamOK(p) /\ EventsOK(p)
  BY <1>0, Facts DEF Readable
<1>2. /\ w \in WireMessage /\ Tail(s) \in Seq(WireMessage) /\ Len(Tail(s)) <= KernelBuffer /\ Genuine(p, w)
  <2>1. /\ Len(s) \in Nat /\ Len(s) >= 1 /\ Head(s) = s[1] /\ Head(s) \in WireMessage /\ Tail(s) \in Seq(WireMessage)
        /\ Len(Tail(s)) = Len(s) - 1 /\ DOMAIN s = 1 .. Len(s)
    BY <1>1, HeadTail, ElementOf
  <2>2. Len(s) <= KernelBuffer /\ KernelBuffer \in Nat
    BY <1>1, BuffersAssumption DEF EndOK
  <2>3. Genuine(p, s[1])
    BY <1>1, <2>1 DEF SentOK
  <2> HIDE DEF s
  <2> QED BY <2>1, <2>2, <2>3 DEF s
<1>3. /\ Partial(r) /\ Parses(r, s) /\ (Writing(p) => ParsesWhole(r, s \o b))
  BY <1>0, <1>1 DEF EndOK, StreamOK, CanRead
<1>4. s \o b # <<>> /\ Head(s \o b) = w /\ Tail(s \o b) = Tail(s) \o b /\ s \o b \in Seq(WireMessage)
  BY <1>1, HeadOfJoined
<1>5. CASE w.type = "Init"
  <2>1. Parses(r, Tail(s))
    BY <1>1, <1>3, <1>5, ReadInit
  <2>2. Writing(p) => ParsesWhole(r, Tail(s \o b))
    BY <1>1, <1>3, <1>4, <1>5, ReadInit
  <2> QED BY <1>1, <1>2, <1>4, <1>5, <2>1, <2>2
<1>6. CASE w.type # "Init"
  <2>1. w.type = "SegmentStart" => w.of > 1
    BY <1>2, <1>6 DEF Genuine
  <2>2. /\ result.ok /\ result.reader \in {Append(r, w), <<w>>, <<>>} /\ Partial(result.reader)
        /\ \/ result.messages \in {<<>>, <<Decoded(w)>>}
           \/ r # <<>> /\ result.messages = <<Decoded(r[1])>>
        /\ Parses(result.reader, Tail(s))
    BY <1>1, <1>3, <1>6, <2>1, ReadSegment
  <2>3. Writing(p) => ParsesWhole(result.reader, Tail(s) \o b)
    <3> SUFFICES ASSUME Writing(p) PROVE ParsesWhole(result.reader, Tail(s \o b))
      BY <1>4
    <3>1. ParsesWhole(r, s \o b) /\ Parses(r, s \o b)
      BY <1>3, WholeParses
    <3> QED BY <1>1, <1>3, <1>4, <1>6, <2>1, <3>1, ReadSegment
  <2>4. ASSUME NEW x \in WireMessage, Genuine(p, x), x.type # "Init"
        PROVE  /\ <<Decoded(x)>> \in Seq(ReceivedMessage)
               /\ \A i \in DOMAIN <<Decoded(x)>> : Recorded(p, <<Decoded(x)>>[i].hash, <<Decoded(x)>>[i].kind)
    <3>1. published[p] <= Len(Script[p]) /\ published[p] \in Nat /\ Len(Script[p]) \in Nat
      BY <1>0, <1>1, Facts, ScriptAssumption DEF EventsOK
    <3>2. x.hash \in 1 .. published[p] /\ x.id = TypeId[Script[p][x.hash].kind] /\ x.hash \in 1 .. Len(Script[p])
      BY <2>4, <3>1 DEF Genuine
    <3>3. Script[p][x.hash].kind \in Kinds
      BY <1>0, <3>2, ScriptOK
    <3>4. Decoded(x) = [hash |-> x.hash, kind |-> Script[p][x.hash].kind]
      BY <3>2, <3>3, DecodeOK DEF Decoded
    <3>5. Decoded(x) \in ReceivedMessage /\ Recorded(p, Decoded(x).hash, Decoded(x).kind)
      BY <3>1, <3>2, <3>3, <3>4 DEF ReceivedMessage, Recorded
    <3> HIDE DEF p
    <3> QED BY <3>5
  <2>5. \A i \in DOMAIN r : Genuine(p, r[i]) /\ r[i].type # "Init" /\ r[i] \in WireMessage
    BY <1>1, ElementOf DEF ReadOK
  <2>6. r # <<>> => 1 \in DOMAIN r
    BY <1>1
  <2>7. /\ result.messages \in Seq(ReceivedMessage)
        /\ \A i \in DOMAIN result.messages : Recorded(p, result.messages[i].hash, result.messages[i].kind)
    <3>1. CASE result.messages = <<>>
      <4>1. <<>> \in Seq(ReceivedMessage) /\ DOMAIN <<>> = {}
        BY EmptySeq
      <4> HIDE DEF result
      <4> QED BY <3>1, <4>1
    <3>2. CASE result.messages = <<Decoded(w)>>
      BY <1>2, <1>6, <2>4, <3>2
    <3>3. CASE r # <<>> /\ result.messages = <<Decoded(r[1])>>
      BY <2>4, <2>5, <2>6, <3>3
    <3> QED BY <2>2, <3>1, <3>2, <3>3
  <2>8. /\ result.reader \in Seq(WireMessage)
        /\ \A i \in DOMAIN result.reader : Genuine(p, result.reader[i]) /\ result.reader[i].type # "Init"
    <3>1. CASE result.reader = <<>>
      <4>1. <<>> \in Seq(WireMessage) /\ DOMAIN <<>> = {}
        BY EmptySeq
      <4> HIDE DEF result
      <4> QED BY <3>1, <4>1
    <3>2. CASE result.reader = <<w>>
      <4>1. <<w>> \in Seq(WireMessage) /\ DOMAIN <<w>> = {1} /\ <<w>>[1] = w
        BY <1>2
      <4> QED BY <1>2, <1>6, <3>2, <4>1
    <3>3. CASE result.reader = Append(r, w)
      <4>1. /\ Append(r, w) \in Seq(WireMessage) /\ DOMAIN Append(r, w) = 1 .. Len(r) + 1
            /\ Append(r, w)[Len(r) + 1] = w /\ DOMAIN r = 1 .. Len(r) /\ Len(r) \in Nat
            /\ \A i \in 1 .. Len(r) : Append(r, w)[i] = r[i]
        BY <1>1, <1>2
      <4>2. \A i \in 1 .. Len(r) + 1 : i \in 1 .. Len(r) \/ i = Len(r) + 1
        BY <4>1
      <4> HIDE DEF r, w, result
      <4> QED BY <1>2, <1>6, <2>5, <3>3, <4>1, <4>2
    <3> QED BY <2>2, <3>1, <3>2, <3>3
  <2> HIDE DEF result
  <2> QED BY <1>1, <1>2, <1>6, <2>2, <2>3, <2>7, <2>8 DEF result
<1> QED BY <1>5, <1>6

LEMMA ReadStep ==
    ASSUME IInv, NEW n \in Nodes, ReadEvent(n)
    PROVE  IInv'
<1> DEFINE p == Peer(n)
           w == Head(wire[p])
           c == [conn[n] EXCEPT !.paused = ~ conn[n].ws /\ ~ should_read(conn[n])]
           result == handle_custom_message(reader[n], w)
<1>0. p \in Nodes /\ p # n /\ Peer(p) = n /\ Nodes = {n, p}
  BY PeerFacts
<1>1. /\ CanRead(n) /\ Readable(n)
      /\ IF w.type = "Init" THEN peer_connected(n, c) ELSE Handled(n, c, result)
      /\ UNCHANGED <<published, table, lastOut, connections, faults>>
  BY DEF ReadEvent
<1>2. /\ conn \in [Nodes -> Connection] /\ wire \in [Nodes -> Seq(WireMessage)]
      /\ reader \in [Nodes -> Seq(WireMessage)] /\ received \in [Nodes -> Seq(ReceivedMessage)]
      /\ events \in [Nodes -> Seq(NodeEvent)] /\ conn[n] \in Connection /\ conn[p] \in Connection
  BY <1>0 DEF IInv, TypeOK
<1>3. /\ wire[p] # <<>> /\ w \in WireMessage /\ Genuine(p, w)
      /\ Tail(wire[p]) \in Seq(WireMessage) /\ Len(Tail(wire[p])) <= KernelBuffer
      /\ w.type # "Init" =>
            /\ result.ok /\ result.reader \in Seq(WireMessage) /\ Partial(result.reader)
            /\ \A i \in DOMAIN result.reader :
                  Genuine(p, result.reader[i]) /\ result.reader[i].type # "Init"
            /\ result.messages \in Seq(ReceivedMessage)
            /\ \A i \in DOMAIN result.messages :
                  Recorded(p, result.messages[i].hash, result.messages[i].kind)
            /\ Parses(result.reader, Tail(wire[p]))
            /\ Writing(p) => ParsesWhole(result.reader, Tail(wire[p]) \o conn[p].buffer)
      /\ w.type = "Init" =>
            /\ Parses(reader[n], Tail(wire[p]))
            /\ Writing(p) => ParsesWhole(reader[n], Tail(wire[p]) \o conn[p].buffer)
  BY <1>1, ReadOne
<1>4. /\ c \in Connection /\ c.buffer = conn[n].buffer /\ c.state = conn[n].state
      /\ c.ws = conn[n].ws /\ c.sending = conn[n].sending
  BY <1>2 DEF Connection
<1>5. c.state \in {"handshake", "ready"} /\ conn[n].state # "closed"
  BY <1>1, <1>4 DEF CanRead
<1> HIDE DEF c, w, result
<1>6. PICK d \in Connection :
          /\ conn' = [conn EXCEPT ![n] = d, ![p] = Woken(@)]
          /\ d.state \in {"handshake", "ready"} /\ d.buffer = conn[n].buffer /\ d.ws = conn[n].ws
          /\ d.sending = conn[n].sending
  <2>1. CASE w.type = "Init"
    <3>1. /\ [c EXCEPT !.state = "ready"] \in Connection /\ [c EXCEPT !.state = "ready"].state = "ready"
          /\ [c EXCEPT !.state = "ready"].buffer = c.buffer /\ [c EXCEPT !.state = "ready"].ws = c.ws
          /\ [c EXCEPT !.state = "ready"].sending = c.sending
      BY <1>4 DEF Connection
    <3>2. conn' = [conn EXCEPT ![n] = [c EXCEPT !.state = "ready"], ![p] = Woken(@)]
      BY <1>1, <2>1 DEF peer_connected
    <3> QED BY <1>4, <3>1, <3>2
  <2>2. CASE w.type # "Init"
    <3>1. conn' = [conn EXCEPT ![n] = c, ![p] = Woken(@)]
      BY <1>1, <1>3, <2>2 DEF Handled
    <3> QED BY <1>4, <1>5, <3>1
  <2> QED BY <2>1, <2>2
<1>7. wire' = [wire EXCEPT ![p] = Tail(@)] /\ UNCHANGED <<broken, silent>>
  BY <1>1, <1>3 DEF peer_connected, Handled
<1>8. /\ reader' = [reader EXCEPT ![n] = IF w.type = "Init" THEN @ ELSE result.reader]
      /\ received' = IF w.type = "Init" THEN received
                     ELSE [received EXCEPT ![n] = @ \o result.messages]
      /\ events' = IF w.type = "Init" THEN [events EXCEPT ![n] = Append(@, [type |-> "Connected", hash |-> 0])]
                   ELSE events
  <2>1. CASE w.type = "Init"
    BY <1>1, <1>2, <2>1 DEF peer_connected
  <2>2. CASE w.type # "Init"
    BY <1>1, <2>2 DEF Handled
  <2> QED BY <2>1, <2>2
<1> HIDE DEF p
<1>9. /\ conn'[n] = d /\ conn'[p] \in Connection /\ conn'[p].state = conn[p].state
      /\ conn'[p].buffer = conn[p].buffer /\ conn'[p].ws = conn[p].ws /\ conn'[p].sending = conn[p].sending
  <2>1. conn'[n] = d /\ conn'[p] = Woken(conn[p])
    BY <1>0, <1>2, <1>6
  <2> QED BY <1>2, <2>1, WokenOK
<1>10. wire'[n] = wire[n] /\ wire'[p] = Tail(wire[p])
  BY <1>0, <1>2, <1>7
<1>11. reader'[p] = reader[p] /\ received'[p] = received[p] /\ events'[p] = events[p]
  BY <1>0, <1>2, <1>8
<1>12. /\ w.type = "Init" => /\ reader'[n] = reader[n] /\ received'[n] = received[n]
                             /\ events'[n] = Append(events[n], [type |-> "Connected", hash |-> 0])
       /\ w.type # "Init" => /\ reader'[n] = result.reader /\ events'[n] = events[n]
                             /\ received'[n] = received[n] \o result.messages
  BY <1>2, <1>8
<1>13. TypeOK'
  <2>1. conn' \in [Nodes -> Connection]
    <3>1. conn' = [m \in Nodes |-> conn'[m]]
      BY <1>2, <1>6
    <3> QED BY <1>0, <1>9, <3>1
  <2>2. wire' \in [Nodes -> Seq(WireMessage)]
    BY <1>0, <1>2, <1>3, <1>7
  <2>3. reader' \in [Nodes -> Seq(WireMessage)]
    BY <1>2, <1>3, <1>8
  <2>4. received' \in [Nodes -> Seq(ReceivedMessage)]
    <3>1. w.type # "Init" => received[n] \o result.messages \in Seq(ReceivedMessage)
      BY <1>2, <1>3, ConcatProperties
    <3> QED BY <1>2, <1>8, <3>1
  <2>5. events' \in [Nodes -> Seq(NodeEvent)]
    <3>1. [type |-> "Connected", hash |-> 0] \in NodeEvent
      BY DEF NodeEvent
    <3>2. Append(events[n], [type |-> "Connected", hash |-> 0]) \in Seq(NodeEvent)
      BY <1>2, <3>1
    <3> QED BY <1>2, <1>8, <3>2
  <2> QED BY <1>1, <1>7, <2>1, <2>2, <2>3, <2>4, <2>5 DEF IInv, TypeOK
<1>14. SentOK(n)' /\ SentOK(p)'
  <2>1. /\ wire[p] \in Seq(WireMessage) /\ wire'[n] \in Seq(WireMessage) /\ wire'[p] \in Seq(WireMessage)
        /\ \A m \in Nodes : SentOK(m) /\ conn[m].buffer \in Seq(WireMessage) /\ conn'[m].buffer = conn[m].buffer
    BY <1>0, <1>2, <1>3, <1>6, <1>9, <1>10, Facts
  <2>2. All(wire[n], Genuines(n)) /\ All(conn[n].buffer, Genuines(n))
    BY <1>2, <2>1, SentAll
  <2>3. All(wire[p], Genuines(p)) /\ All(conn[p].buffer, Genuines(p))
    BY <1>0, <1>2, <2>1, SentAll
  <2>4. All(Tail(wire[p]), Genuines(p))
    <3>1. /\ DOMAIN Tail(wire[p]) = 1 .. Len(Tail(wire[p])) /\ Len(Tail(wire[p])) = Len(wire[p]) - 1
          /\ DOMAIN wire[p] = 1 .. Len(wire[p]) /\ Len(wire[p]) \in Nat
          /\ \A i \in 1 .. Len(Tail(wire[p])) : Tail(wire[p])[i] = wire[p][i + 1]
      BY <1>3, <2>1, HeadTail, ElementOf
    <3>2. \A i \in 1 .. Len(Tail(wire[p])) : i + 1 \in DOMAIN wire[p]
      BY <3>1
    <3> QED BY <2>3, <3>1, <3>2 DEF All
  <2> QED BY <1>0, <1>1, <1>10, <2>1, <2>2, <2>3, <2>4, SentAllNext
<1>15. EndOK(n)' /\ EndOK(p)'
  <2>1. EndOK(n) /\ EndOK(p)
    BY <1>0, Facts
  <2>2. Partial(reader'[n]) /\ Partial(reader'[p])
    BY <1>3, <1>11, <1>12, <2>1 DEF EndOK
  <2> QED BY <1>3, <1>6, <1>9, <1>10, <2>1, <2>2 DEF EndOK
<1>16. StreamOK(n)'
  <2>1. Writing(n)' => Writing(n) /\ wire'[n] \o conn'[n].buffer = wire[n] \o conn[n].buffer
    BY <1>5, <1>6, <1>7, <1>9, <1>10 DEF Writing
  <2>2. wire'[n] \in Seq(WireMessage)
    BY <1>2, <1>10
  <2> QED BY <1>9, <1>10, <1>11, <2>1, <2>2, StreamKept DEF p
<1>17. StreamOK(p)'
  <2>1. Writing(p)' => Writing(p)
    BY <1>7, <1>9 DEF Writing
  <2>2. CASE w.type = "Init"
    BY <1>0, <1>3, <1>9, <1>10, <1>12, <2>1, <2>2 DEF StreamOK
  <2>3. CASE w.type # "Init"
    BY <1>0, <1>3, <1>9, <1>10, <1>12, <2>1, <2>3 DEF StreamOK
  <2> QED BY <2>2, <2>3
<1>18. ReadOK(n)' /\ ReadOK(p)'
  <2>1. /\ \A m \in Nodes : \A x : Genuine(m, x)' <=> Genuine(m, x)
        /\ \A m \in Nodes : \A h, k : Recorded(m, h, k)' <=> Recorded(m, h, k)
        /\ ReadOK(n) /\ ReadOK(p)
    BY <1>0, <1>1, ContentsKept, Facts
  <2>2. ReadOK(p)'
    BY <1>0, <1>1, <1>11, <2>1, ContentsKept
  <2>3. CASE w.type = "Init"
    BY <1>1, <1>12, <2>1, <2>2, <2>3, ContentsKept
  <2>4. CASE w.type # "Init"
    <3>1. \A i \in DOMAIN reader'[n] : Genuine(p, reader'[n][i]) /\ reader'[n][i].type # "Init"
      BY <1>3, <1>12, <2>4
    <3>2. ASSUME NEW i \in DOMAIN received'[n]
          PROVE  Recorded(p, received'[n][i].hash, received'[n][i].kind)
      <4> DEFINE a == received[n]
                 b == result.messages
      <4>1. /\ a \in Seq(ReceivedMessage) /\ b \in Seq(ReceivedMessage) /\ received'[n] = a \o b
            /\ \A j \in DOMAIN a : Recorded(p, a[j].hash, a[j].kind)
            /\ \A j \in DOMAIN b : Recorded(p, b[j].hash, b[j].kind)
        BY <1>2, <1>3, <1>12, <2>1, <2>4 DEF ReadOK, p
      <4> HIDE DEF a, b
      <4>2. /\ Len(a) \in Nat /\ Len(b) \in Nat /\ DOMAIN a = 1 .. Len(a) /\ DOMAIN b = 1 .. Len(b)
            /\ i \in 1 .. Len(a) + Len(b)
            /\ (a \o b)[i] = IF i <= Len(a) THEN a[i] ELSE b[i - Len(a)]
        BY <4>1, ConcatProperties, ElementOf
      <4>3. \/ i \in DOMAIN a /\ (a \o b)[i] = a[i]
            \/ i - Len(a) \in DOMAIN b /\ (a \o b)[i] = b[i - Len(a)]
        BY <4>2
      <4>4. Recorded(p, (a \o b)[i].hash, (a \o b)[i].kind)
        BY <4>1, <4>3
      <4> QED BY <4>1, <4>4
    <3>3. published' = published
      BY <1>1
    <3>4. ReadOK(n)'
      BY <3>1, <3>2, <3>3 DEF ReadOK, Genuine, Recorded, p
    <3> QED BY <2>2, <3>4
  <2> QED BY <2>3, <2>4
<1>19. EventsOK(n)' /\ EventsOK(p)' /\ TableOK(n)' /\ TableOK(p)'
  <2>1. EventsOK(n) /\ EventsOK(p) /\ TableOK(n) /\ TableOK(p) /\ events[n] \in Seq(NodeEvent)
    BY <1>0, Facts
  <2>2. EventsOK(p)' /\ TableOK(n)' /\ TableOK(p)'
    BY <1>0, <1>1, <1>11, <2>1, ContentsKept
  <2>3. CASE w.type # "Init"
    BY <1>1, <1>12, <2>1, <2>2, <2>3, ContentsKept
  <2>4. CASE w.type = "Init"
    <3>1. \A i \in DOMAIN events'[n] : \/ i \in DOMAIN events[n] /\ events'[n][i] = events[n][i]
                                       \/ events'[n][i].type = "Connected"
      BY <1>12, <2>1, <2>4
    <3> QED BY <1>1, <2>1, <2>2, <3>1 DEF EventsOK
  <2> QED BY <2>3, <2>4
<1> QED BY <1>0, <1>13, <1>14, <1>15, <1>16, <1>17, <1>18, <1>19 DEF IInv, ContentsOK, StreamsOK
\* The segments of a message are queued, and what the kernel takes is written.
LEMMA Transmitted ==
    ASSUME IInv, NEW n \in Nodes, NEW m, m.hash \in 1 .. published[n],
           m.kind = Script[n][m.hash].kind, Transmit(n, m),
           UNCHANGED <<published, broken, reader>>
    PROVE  /\ conn' \in [Nodes -> Connection] /\ wire' \in [Nodes -> Seq(WireMessage)]
           /\ \A k \in Nodes : SentOK(k)'
           /\ StreamsOK'
<1> DEFINE p == Peer(n)
           seg == send_message(n, m)
           b == conn[n].buffer \o seg
           c == [conn[n] EXCEPT !.buffer = b]
           d == Written(n, c).conn
           s == Written(n, c).wire
<1>0. p \in Nodes /\ p # n /\ Peer(p) = n /\ Nodes = {n, p}
  BY PeerFacts
<1>1. /\ conn \in [Nodes -> Connection] /\ wire \in [Nodes -> Seq(WireMessage)]
      /\ conn[n] \in Connection /\ conn[n].buffer \in Seq(WireMessage) /\ wire[n] \in Seq(WireMessage)
      /\ reader[p] \in Seq(WireMessage) /\ broken[n] \in BOOLEAN /\ TypeOK
      /\ \A k \in Nodes : EndOK(k) /\ SentOK(k) /\ StreamOK(k) /\ EventsOK(k)
  BY <1>0, Facts DEF IInv, TypeOK
<1>2. m.hash \in 1 .. Len(Script[n])
  <2>1. published[n] <= Len(Script[n]) /\ published[n] \in Nat /\ Len(Script[n]) \in Nat
    BY <1>1, Facts, ScriptAssumption DEF EventsOK
  <2> QED BY <2>1
<1>3. CASE conn[n].state # "ready"
  <2>1. conn' = conn /\ wire' = wire
    BY <1>3 DEF Transmit
  <2>2. \A k \in Nodes : /\ conn[k].state = "closed" => conn[k].buffer = <<>>
                         /\ conn[k].sending => conn[k].ws /\ conn[k].buffer # <<>>
                         /\ Len(wire[k]) <= KernelBuffer
    BY <1>1 DEF EndOK
  <2> QED BY <1>1, <2>1, <2>2, LinksKept
<1>4. CASE conn[n].state = "ready"
  <2>1. conn' = [conn EXCEPT ![n] = d] /\ wire' = [wire EXCEPT ![n] = s]
    BY <1>4 DEF Transmit
  <2>2. /\ seg \in Seq(WireMessage) /\ Len(seg) = Script[n][m.hash].segments
        /\ \A i \in 1 .. Len(seg) :
              /\ seg[i].hash = m.hash /\ seg[i].id = TypeId[m.kind] /\ seg[i].of = Len(seg)
              /\ seg[i].type = IF Len(seg) = 1 THEN "Message"
                               ELSE IF i = 1 THEN "SegmentStart" ELSE "SegmentChunk"
    BY <1>2, Segments
  <2>3. Len(seg) \in Nat \ {0} /\ DOMAIN seg = 1 .. Len(seg)
    BY <1>2, <2>2, ScriptOK, ElementOf
  <2>4. All(seg, Genuines(n))
    <3> HIDE DEF seg
    <3>1. ASSUME NEW i \in DOMAIN seg PROVE seg[i] \in WireMessage /\ Genuine(n, seg[i])
      BY <2>2, <2>3, ElementOf DEF Genuine
    <3> QED BY <3>1 DEF All, Genuines
  <2>5. ParsesWhole(reader[p], wire[n] \o conn[n].buffer) =>
            ParsesWhole(reader[p], (wire[n] \o conn[n].buffer) \o seg)
    BY <1>1, <1>2, ParsesMore, Joined
  <2> HIDE DEF seg
  <2>6. b \in Seq(WireMessage) /\ b # <<>> /\ (wire[n] \o conn[n].buffer) \o seg = wire[n] \o b
    <3>1. b \in Seq(WireMessage) /\ Len(b) = Len(conn[n].buffer) + Len(seg)
      <4>1. conn[n].buffer \in Seq(WireMessage) /\ seg \in Seq(WireMessage)
        BY <1>1, <2>2
      <4> QED BY <4>1, Joined
    <3>2. b # <<>>
      BY <1>1, <2>3, <3>1, ElementOf
    <3>3. (wire[n] \o conn[n].buffer) \o seg = wire[n] \o b
      BY <1>1, <2>2, Regroup
    <3> QED BY <3>1, <3>2, <3>3
  <2>7. All(b, Genuines(n)) /\ All(wire[n], Genuines(n))
    BY <1>1, <2>2, <2>4, AllJoined, SentAll
  <2> HIDE DEF b
  <2>8. /\ c \in Connection /\ c.state = "ready" /\ c.buffer = b /\ c.ws = conn[n].ws
        /\ c.sending = conn[n].sending
    BY <1>1, <1>4, <2>6 DEF Connection
  <2> HIDE DEF c
  <2>9. /\ d \in Connection /\ d.state = "ready" /\ d.ws = conn[n].ws
        /\ d.sending = conn[n].sending /\ (d.ws => d.buffer = b)
        /\ s \in Seq(WireMessage) /\ Len(s) <= KernelBuffer
        /\ s \o d.buffer = wire[n] \o b
        /\ broken[n] => s = wire[n]
    BY <1>1, <2>8, WrittenOK DEF EndOK
  <2>10. d.buffer \in Seq(WireMessage)
    BY <2>9 DEF Connection
  <2> HIDE DEF d, s, p
  <2>11. /\ conn'[n] = d /\ conn'[p] = conn[p] /\ wire'[n] = s /\ wire'[p] = wire[p]
         /\ conn' \in [Nodes -> Connection] /\ wire' \in [Nodes -> Seq(WireMessage)]
    BY <1>0, <1>1, <2>1, <2>9
  <2>12. SentOK(n)'
    <3>0. wire[n] \in Seq(WireMessage) /\ b \in Seq(WireMessage) /\ s \in Seq(WireMessage)
      BY <1>1, <2>6, <2>9
    <3>1. All(wire[n] \o b, Genuines(n))
      BY <2>7, <3>0, AllJoined
    <3>2. All(s, Genuines(n)) /\ All(d.buffer, Genuines(n))
      BY <2>9, <2>10, <3>0, <3>1, AllJoined
    <3>3. /\ wire'[n] \in Seq(WireMessage) /\ conn'[n].buffer \in Seq(WireMessage) /\ published' = published
          /\ All(wire'[n], Genuines(n)) /\ All(conn'[n].buffer, Genuines(n))
      BY <2>10, <2>11, <3>0, <3>2
    <3> QED BY <3>3, SentAllNext, ZenonT(40)
  <2>13. SentOK(p)'
    <3>1. SentOK(p) /\ conn'[p] = conn[p] /\ wire'[p] = wire[p] /\ published' = published
      BY <1>0, <1>1, <2>11
    <3> QED BY <1>0, <3>1, SentKept
  <2>14. EndOK(n)' /\ EndOK(p)'
    BY <1>0, <1>1, <2>6, <2>9, <2>11 DEF EndOK
  <2>15. StreamOK(n)'
    <3> SUFFICES ASSUME conn'[p].state # "closed"
                 PROVE  /\ Parses(reader[p], s)
                        /\ Writing(n)' => ParsesWhole(reader[p], s \o d.buffer)
      BY <2>11 DEF StreamOK, p
    <3>1. /\ Parses(reader[p], wire[n])
          /\ Writing(n) => ParsesWhole(reader[p], wire[n] \o conn[n].buffer)
      BY <1>1, <2>11 DEF StreamOK, p
    <3>2. CASE broken[n]
      BY <2>9, <3>1, <3>2 DEF Writing
    <3>3. CASE ~ broken[n]
      <4>1. ParsesWhole(reader[p], s \o d.buffer)
        BY <1>4, <2>5, <2>6, <2>9, <3>1, <3>3 DEF Writing
      <4>2. Parses(reader[p], s)
        BY <1>1, <2>9, <2>10, <4>1, WholeParses, ParsesPrefix
      <4> QED BY <4>1, <4>2
    <3> QED BY <1>1, <3>2, <3>3
  <2>16. StreamOK(p)'
    <3>1. wire'[p] \in Seq(WireMessage)
      BY <1>0, <2>11
    <3>2. conn'[n].state # "closed" => conn[n].state # "closed"
      BY <1>4
    <3>3. Writing(p)' => Writing(p) /\ wire'[p] \o conn'[p].buffer = wire[p] \o conn[p].buffer
      BY <2>11 DEF Writing
    <3> QED BY <1>0, <2>11, <3>1, <3>2, <3>3, StreamKept
  <2> QED BY <1>0, <2>11, <2>12, <2>13, <2>14, <2>15, <2>16 DEF StreamsOK
<1> QED BY <1>3, <1>4

\* A message is published before it is stored, and stored before it is sent.
LEMMA PublishStep ==
    ASSUME IInv, NEW n \in Nodes, Publish(n)
    PROVE  IInv'
<1> DEFINE e == [type |-> "SendDlcMessage", hash |-> published[n] + 1]
<1>1. /\ published[n] < Len(Script[n])
      /\ published' = [published EXCEPT ![n] = @ + 1]
      /\ events' = [events EXCEPT ![n] = Append(@, e)]
      /\ UNCHANGED <<table, lastOut, conn, wire, broken, silent, reader, received, connections, faults>>
  BY DEF Publish
<1>2. /\ published \in [Nodes -> Nat] /\ events \in [Nodes -> Seq(NodeEvent)]
      /\ events[n] \in Seq(NodeEvent) /\ published[n] \in Nat /\ Len(Script[n]) \in Nat
      /\ \A m \in Nodes : /\ published[m] \in Nat
                          /\ EventsOK(m) /\ SentOK(m) /\ ReadOK(m) /\ TableOK(m) /\ Peer(m) \in Nodes
  BY Facts, PeerFacts, ScriptAssumption DEF IInv, TypeOK
<1>3. e \in NodeEvent /\ e.hash = published[n] + 1
  BY <1>2 DEF NodeEvent
<1> HIDE DEF e
<1>4. /\ published' \in [Nodes -> Nat] /\ published'[n] = published[n] + 1
      /\ \A m \in Nodes : m # n => published'[m] = published[m] /\ events'[m] = events[m]
      /\ events' \in [Nodes -> Seq(NodeEvent)] /\ events'[n] = Append(events[n], e)
  <2>1. Append(events[n], e) \in Seq(NodeEvent)
    BY <1>2, <1>3
  <2> QED BY <1>1, <1>2, <2>1
<1>5. ASSUME NEW m \in Nodes PROVE published[m] <= published'[m] /\ published'[m] \in Nat
  <2>1. published[m] \in Nat /\ (m = n => published'[m] = published[m] + 1)
        /\ (m # n => published'[m] = published[m])
    BY <1>2, <1>4
  <2> QED BY <2>1
<1>6. /\ \A m \in Nodes : \A h : h \in 1 .. published[m] => h \in 1 .. published'[m]
      /\ \A m \in Nodes : \A w : Genuine(m, w) => Genuine(m, w)'
      /\ \A m \in Nodes : \A h, k : Recorded(m, h, k) => Recorded(m, h, k)'
  <2>1. ASSUME NEW m \in Nodes, NEW h \in 1 .. published[m] PROVE h \in 1 .. published'[m]
    <3>1. published[m] \in Nat /\ published'[m] \in Nat /\ published[m] <= published'[m]
      BY <1>2, <1>5
    <3> QED BY <3>1
  <2> QED BY <2>1 DEF Genuine, Recorded
<1>7. TypeOK'
  BY <1>1, <1>4 DEF IInv, TypeOK
<1>8. ASSUME NEW m \in Nodes PROVE SentOK(m)'
  BY <1>1, <1>2, <1>6 DEF SentOK
<1>9. ASSUME NEW m \in Nodes PROVE ReadOK(m)'
  BY <1>1, <1>2, <1>6 DEF ReadOK
<1>10. ASSUME NEW m \in Nodes PROVE TableOK(m)'
  BY <1>1, <1>2, <1>6 DEF TableOK
<1>11. ASSUME NEW m \in Nodes PROVE EventsOK(m)'
  <2>1. CASE m = n
    <3>0. /\ published[n] \in Nat /\ Len(Script[n]) \in Nat /\ published[n] < Len(Script[n])
          /\ published'[n] = published[n] + 1
      BY <1>1, <1>2, <1>4
    <3>1. published'[n] <= Len(Script[n])
      BY <3>0
    <3>2. \A i \in DOMAIN events'[n] :
             (i \in DOMAIN events[n] /\ events'[n][i] = events[n][i]) \/ events'[n][i] = e
      <4>1. events[n] \in Seq(NodeEvent) /\ events'[n] = Append(events[n], e)
        BY <1>2, <1>4
      <4> QED BY <4>1
    <3>3. published[n] + 1 \in 1 .. published'[n]
      BY <3>0
    <3>4. \A i \in DOMAIN events[n] :
            events[n][i].type = "SendDlcMessage" => events[n][i].hash \in 1 .. published[n]
      BY <1>2 DEF EventsOK
    <3>5. \A i \in DOMAIN events'[n] :
            events'[n][i].type = "SendDlcMessage" => events'[n][i].hash \in 1 .. published'[n]
      BY <1>3, <1>6, <3>2, <3>3, <3>4
    <3> QED BY <2>1, <3>1, <3>5 DEF EventsOK
  <2>2. CASE m # n
    BY <1>2, <1>4, <2>2 DEF EventsOK
  <2> QED BY <2>1, <2>2
<1>12. StreamsOK'
  BY <1>1 DEF IInv, StreamsOK, EndOK, StreamOK, Writing
<1> QED BY <1>7, <1>8, <1>9, <1>10, <1>11, <1>12 DEF IInv, ContentsOK

\* The events behind the first one
LEMMA EventTaken ==
    ASSUME NEW n \in Nodes, EventsOK(n), events[n] \in Seq(NodeEvent), events[n] # <<>>,
           events'[n] = Tail(events[n]), published' = published
    PROVE  /\ EventsOK(n)' /\ Tail(events[n]) \in Seq(NodeEvent)
           /\ Head(events[n]).type = "SendDlcMessage" => Head(events[n]).hash \in 1 .. published[n]
<1>1. /\ Len(events[n]) \in Nat \ {0} /\ DOMAIN events[n] = 1 .. Len(events[n])
      /\ Head(events[n]) = events[n][1] /\ Tail(events[n]) \in Seq(NodeEvent)
      /\ DOMAIN Tail(events[n]) = 1 .. Len(events[n]) - 1
      /\ \A i \in 1 .. Len(events[n]) - 1 : Tail(events[n])[i] = events[n][i + 1]
  OBVIOUS
<1>2. \A i \in 1 .. Len(events[n]) - 1 : i + 1 \in DOMAIN events[n]
  BY <1>1
<1>3. 1 \in DOMAIN events[n]
  BY <1>1
<1> QED BY <1>1, <1>2, <1>3 DEF EventsOK

LEMMA SendStep ==
    ASSUME IInv, NEW n \in Nodes, SendDlcMessage(n)
    PROVE  IInv'
<1> DEFINE hash == Head(events[n]).hash
           m == [hash |-> hash, kind |-> Script[n][hash].kind]
           row == [message_hash |-> hash, message_type |-> Script[n][hash].kind, inbound |-> FALSE]
           out == [message_hash |-> hash, message |-> hash]
<1>1. /\ events[n] # <<>> /\ Head(events[n]).type = "SendDlcMessage"
      /\ events' = [events EXCEPT ![n] = Tail(@)]
      /\ table' = [table EXCEPT ![n] = @ \union {row}]
      /\ lastOut' = [lastOut EXCEPT ![n] = out]
      /\ Transmit(n, m)
      /\ UNCHANGED <<published, broken, silent, reader, received, connections, faults>>
  BY DEF SendDlcMessage, insert, DlcMessage, SerializedDlcMessage, generate_hash, upsert_last_outbound
<1>2. /\ events \in [Nodes -> Seq(NodeEvent)] /\ table \in [Nodes -> SUBSET MessageRow]
      /\ lastOut \in [Nodes -> LastOutboundDlcMessage] /\ events[n] \in Seq(NodeEvent)
      /\ \A k \in Nodes : EventsOK(k) /\ ReadOK(k) /\ TableOK(k)
  BY Facts DEF IInv, TypeOK
<1>3. /\ events'[n] = Tail(events[n]) /\ lastOut'[n] = out /\ table'[n] = table[n] \union {row}
      /\ \A k \in Nodes : k # n => events'[k] = events[k] /\ lastOut'[k] = lastOut[k] /\ table'[k] = table[k]
  BY <1>1, <1>2
<1>4. EventsOK(n)' /\ Tail(events[n]) \in Seq(NodeEvent) /\ hash \in 1 .. published[n]
  BY <1>1, <1>2, <1>3, EventTaken
<1>5. hash \in Nat /\ Script[n][hash].kind \in Kinds
  <2>1. published[n] <= Len(Script[n]) /\ published[n] \in Nat /\ Len(Script[n]) \in Nat
    BY Facts, ScriptAssumption DEF EventsOK
  <2>2. hash \in 1 .. Len(Script[n])
    BY <1>4, <2>1
  <2> QED BY <2>2, ScriptOK
<1> HIDE DEF hash
<1>6. /\ conn' \in [Nodes -> Connection] /\ wire' \in [Nodes -> Seq(WireMessage)]
      /\ \A k \in Nodes : SentOK(k)'
      /\ StreamsOK'
  <2>1. m.hash \in 1 .. published[n] /\ m.kind = Script[n][m.hash].kind
    BY <1>4
  <2> HIDE DEF m
  <2> QED BY <1>1, <2>1, Transmitted
<1>7. row \in MessageRow /\ out \in LastOutboundDlcMessage
  BY <1>5 DEF MessageRow, LastOutboundDlcMessage
<1>8. TypeOK'
  <2>1. events' \in [Nodes -> Seq(NodeEvent)]
    BY <1>1, <1>2, <1>4
  <2>2. table' \in [Nodes -> SUBSET MessageRow] /\ lastOut' \in [Nodes -> LastOutboundDlcMessage]
    BY <1>1, <1>2, <1>7
  <2> QED BY <1>1, <1>6, <2>1, <2>2 DEF IInv, TypeOK
<1>9. TableOK(n)'
  <2>1. \A r \in table[n] : Recorded(IF r.inbound THEN Peer(n) ELSE n, r.message_hash, r.message_type)
    BY <1>2 DEF TableOK
  <2>2. Recorded(n, row.message_hash, row.message_type) /\ ~ row.inbound /\ row.message_hash = hash
    BY <1>4 DEF Recorded
  <2>3. out.message = hash /\ out.message_hash = hash
    OBVIOUS
  <2> HIDE DEF row, out
  <2>4. \A r \in table'[n] : Recorded(IF r.inbound THEN Peer(n) ELSE n, r.message_hash, r.message_type)
    BY <1>3, <2>1, <2>2
  <2>5. published' = published
    BY <1>1
  <2> QED BY <1>3, <2>2, <2>3, <2>4, <2>5 DEF TableOK, Recorded
<1>10. ASSUME NEW k \in Nodes PROVE EventsOK(k)' /\ ReadOK(k)' /\ TableOK(k)'
  <2>1. ReadOK(k)'
    BY <1>1, <1>2, ContentsKept
  <2>2. CASE k # n
    BY <1>1, <1>2, <1>3, <2>1, <2>2, ContentsKept
  <2>3. CASE k = n
    BY <1>4, <1>9, <2>1, <2>3
  <2> QED BY <2>2, <2>3
<1> QED BY <1>6, <1>8, <1>10 DEF IInv, ContentsOK

\* The last message is sent again, with the type its row has.
LEMMA ConnectStep ==
    ASSUME IInv, NEW n \in Nodes, OnConnect(n)
    PROVE  IInv'
<1> DEFINE m == TenTenOneMessage(get_last_outbound(n))
<1>1. /\ events[n] # <<>> /\ events' = [events EXCEPT ![n] = Tail(@)]
      /\ IF lastOut[n] = NoMessage THEN UNCHANGED <<conn, wire>> ELSE Transmit(n, m)
      /\ UNCHANGED <<published, table, lastOut, broken, silent, reader, received, connections, faults>>
  BY DEF OnConnect
<1>2. /\ events \in [Nodes -> Seq(NodeEvent)] /\ events[n] \in Seq(NodeEvent)
      /\ \A k \in Nodes : EventsOK(k) /\ ReadOK(k) /\ TableOK(k) /\ EndOK(k)
      /\ conn \in [Nodes -> Connection] /\ wire \in [Nodes -> Seq(WireMessage)]
  BY Facts DEF IInv, TypeOK
<1>3. events'[n] = Tail(events[n]) /\ \A k \in Nodes : k # n => events'[k] = events[k]
  BY <1>1, <1>2
<1>4. EventsOK(n)' /\ Tail(events[n]) \in Seq(NodeEvent)
  BY <1>1, <1>2, <1>3, EventTaken
<1>5. /\ conn' \in [Nodes -> Connection] /\ wire' \in [Nodes -> Seq(WireMessage)]
      /\ \A k \in Nodes : SentOK(k)'
      /\ StreamsOK'
  <2>1. CASE lastOut[n] = NoMessage
    <3>1. conn' = conn /\ wire' = wire
      BY <1>1, <2>1
    <3>2. \A k \in Nodes : /\ conn[k].state = "closed" => conn[k].buffer = <<>>
                           /\ conn[k].sending => conn[k].ws /\ conn[k].buffer # <<>>
                           /\ Len(wire[k]) <= KernelBuffer
      BY <1>2 DEF EndOK
    <3> QED BY <1>1, <1>2, <3>1, <3>2, LinksKept
  <2>2. CASE lastOut[n] # NoMessage
    <3> DEFINE found == CHOOSE r \in table[n] : r.message_hash = lastOut[n].message_hash /\ ~ r.inbound
    <3>1. /\ lastOut[n].message = lastOut[n].message_hash
          /\ \E r \in table[n] : r.message_hash = lastOut[n].message_hash /\ ~ r.inbound
      BY <1>2, <2>2 DEF TableOK
    <3>2. found \in table[n] /\ found.message_hash = lastOut[n].message_hash /\ ~ found.inbound
      BY <3>1
    <3>3. m.hash = lastOut[n].message /\ m.kind = found.message_type
      BY DEF TenTenOneMessage, get_last_outbound
    <3> HIDE DEF m, found
    <3>4. Recorded(n, found.message_hash, found.message_type)
      BY <1>2, <3>2 DEF TableOK
    <3>5. m.hash \in 1 .. published[n] /\ m.kind = Script[n][m.hash].kind
      BY <3>1, <3>2, <3>3, <3>4 DEF Recorded
    <3> QED BY <1>1, <2>2, <3>5, Transmitted
  <2> QED BY <2>1, <2>2
<1>6. TypeOK'
  <2>1. events' \in [Nodes -> Seq(NodeEvent)]
    BY <1>1, <1>2, <1>4
  <2> QED BY <1>1, <1>5, <2>1 DEF IInv, TypeOK
<1>7. ASSUME NEW k \in Nodes PROVE EventsOK(k)' /\ ReadOK(k)' /\ TableOK(k)'
  <2>1. ReadOK(k)' /\ TableOK(k)'
    BY <1>1, <1>2, ContentsKept
  <2> QED BY <1>1, <1>2, <1>3, <1>4, <2>1, ContentsKept
<1> QED BY <1>5, <1>6, <1>7 DEF IInv, ContentsOK

LEMMA IncomingStep ==
    ASSUME IInv, NEW n \in Nodes, ProcessIncoming(n)
    PROVE  IInv'
<1> DEFINE rows == {DlcMessage(SerializedDlcMessage(received[n][i]), TRUE) : i \in DOMAIN received[n]}
<1>1. /\ received' = [received EXCEPT ![n] = <<>>]
      /\ table' = [table EXCEPT ![n] = @ \union rows]
      /\ UNCHANGED <<published, events, lastOut, conn, wire, broken, silent, reader, connections, faults>>
  BY DEF ProcessIncoming, get_and_clear_received_messages
<1>2. /\ table \in [Nodes -> SUBSET MessageRow] /\ received \in [Nodes -> Seq(ReceivedMessage)]
      /\ received[n] \in Seq(ReceivedMessage)
      /\ \A k \in Nodes : EventsOK(k) /\ ReadOK(k) /\ TableOK(k) /\ SentOK(k) /\ EndOK(k)
  BY Facts DEF IInv, TypeOK
<1>3. ASSUME NEW r \in rows
      PROVE  r \in MessageRow /\ r.inbound /\ Recorded(Peer(n), r.message_hash, r.message_type)
  <2>1. PICK i \in DOMAIN received[n] : r = DlcMessage(SerializedDlcMessage(received[n][i]), TRUE)
    OBVIOUS
  <2>2. received[n][i] \in ReceivedMessage /\ Recorded(Peer(n), received[n][i].hash, received[n][i].kind)
    BY <1>2, ElementOf DEF ReadOK
  <2>3. /\ r.inbound /\ r.message_hash = received[n][i].hash /\ r.message_type = received[n][i].kind
        /\ r = [message_hash |-> received[n][i].hash, message_type |-> received[n][i].kind, inbound |-> TRUE]
    BY <2>1 DEF DlcMessage, SerializedDlcMessage, generate_hash
  <2>4. r \in MessageRow
    BY <2>2, <2>3 DEF ReceivedMessage, MessageRow
  <2> QED BY <2>2, <2>3, <2>4
<1> HIDE DEF rows
<1>4. /\ table'[n] = table[n] \union rows /\ received'[n] = <<>>
      /\ \A k \in Nodes : k # n => table'[k] = table[k] /\ received'[k] = received[k]
  BY <1>1, <1>2
<1>5. TypeOK'
  <2>1. table' \in [Nodes -> SUBSET MessageRow]
    BY <1>1, <1>2, <1>3
  <2>2. received' \in [Nodes -> Seq(ReceivedMessage)]
    BY <1>1, <1>2, EmptySeq
  <2> QED BY <1>1, <2>1, <2>2 DEF IInv, TypeOK
<1>6. TableOK(n)'
  <2>1. /\ \A r \in table[n] : Recorded(IF r.inbound THEN Peer(n) ELSE n, r.message_hash, r.message_type)
        /\ lastOut[n] # NoMessage =>
              /\ lastOut[n].message = lastOut[n].message_hash
              /\ \E r \in table[n] : r.message_hash = lastOut[n].message_hash /\ ~ r.inbound
    BY <1>2 DEF TableOK
  <2>2. \A r \in table'[n] : Recorded(IF r.inbound THEN Peer(n) ELSE n, r.message_hash, r.message_type)
    BY <1>3, <1>4, <2>1
  <2>3. published' = published /\ lastOut' = lastOut
    BY <1>1
  <2> QED BY <1>4, <2>1, <2>2, <2>3 DEF TableOK, Recorded
<1>7. ReadOK(n)'
  <2>1. DOMAIN received'[n] = {}
    BY <1>4
  <2>2. published' = published /\ reader' = reader /\ ReadOK(n)
    BY <1>1, <1>2
  <2> QED BY <2>1, <2>2 DEF ReadOK, Genuine
<1>8. ASSUME NEW k \in Nodes PROVE EventsOK(k)' /\ ReadOK(k)' /\ TableOK(k)' /\ SentOK(k)'
  <2>1. EventsOK(k)'
    BY <1>1, <1>2, ContentsKept
  <2>2. SentOK(k)'
    <3>1. SentOK(k) /\ published' = published /\ conn' = conn /\ wire' = wire
      BY <1>1, <1>2
    <3> QED BY <3>1, SentKept
  <2>3. CASE k = n
    BY <1>6, <1>7, <2>1, <2>2, <2>3
  <2>4. CASE k # n
    BY <1>1, <1>2, <1>4, <2>1, <2>2, <2>4, ContentsKept
  <2> QED BY <2>3, <2>4
<1>9. StreamsOK'
  BY <1>1 DEF IInv, StreamsOK, EndOK, StreamOK, Writing
<1> QED BY <1>5, <1>8, <1>9 DEF IInv, ContentsOK

-----------------------------------------------------------------------------
(* The theorems *)

LEMMA InitInvariant == Init => IInv
<1> SUFFICES ASSUME Init PROVE IInv
  OBVIOUS
<1>1. /\ Closed \in Connection /\ Closed.state = "closed" /\ Closed.buffer = <<>> /\ ~ Closed.sending
      /\ <<>> \in Seq(WireMessage) /\ <<>> \in Seq(NodeEvent) /\ <<>> \in Seq(ReceivedMessage)
      /\ Len(<<>>) = 0 /\ DOMAIN <<>> = {} /\ NoMessage \in LastOutboundDlcMessage
  <2>1. NoMessage \in LastOutboundDlcMessage
    BY DEF NoMessage, LastOutboundDlcMessage
  <2>2. Len(<<>>) = 0 /\ DOMAIN <<>> = {}
    OBVIOUS
  <2> QED BY <2>1, <2>2, ClosedOK, EmptySeq
<1>2. MaxConnections \in Nat /\ MaxFaults \in Nat /\ KernelBuffer \in Nat
  BY FaultsAssumption, BuffersAssumption
<1>3. TypeOK
  <2>1. /\ published \in [Nodes -> Nat] /\ events \in [Nodes -> Seq(NodeEvent)]
        /\ table \in [Nodes -> SUBSET MessageRow] /\ lastOut \in [Nodes -> LastOutboundDlcMessage]
    BY <1>1 DEF Init
  <2>2. /\ conn \in [Nodes -> Connection] /\ wire \in [Nodes -> Seq(WireMessage)]
        /\ broken \in [Nodes -> BOOLEAN] /\ silent \in BOOLEAN
    BY <1>1 DEF Init
  <2>3. reader \in [Nodes -> Seq(WireMessage)] /\ received \in [Nodes -> Seq(ReceivedMessage)]
    BY <1>1 DEF Init
  <2>4. connections \in 0 .. MaxConnections /\ faults \in 0 .. MaxFaults
    BY <1>2 DEF Init
  <2> QED BY <2>1, <2>2, <2>3, <2>4 DEF TypeOK
<1>4. ASSUME NEW n \in Nodes
      PROVE  EventsOK(n) /\ SentOK(n) /\ ReadOK(n) /\ TableOK(n) /\ EndOK(n) /\ StreamOK(n)
  <2>1. /\ published[n] = 0 /\ events[n] = <<>> /\ table[n] = {} /\ lastOut[n] = NoMessage
        /\ conn[n] = Closed /\ wire[n] = <<>> /\ reader[n] = <<>> /\ received[n] = <<>>
    BY DEF Init
  <2>2. conn[Peer(n)] = Closed
    BY PeerFacts DEF Init
  <2>3. Len(Script[n]) \in Nat
    BY ScriptAssumption
  <2>4. EventsOK(n) /\ SentOK(n) /\ ReadOK(n) /\ TableOK(n)
    BY <1>1, <2>1, <2>3 DEF EventsOK, SentOK, ReadOK, TableOK
  <2>5. EndOK(n) /\ StreamOK(n)
    BY <1>1, <1>2, <2>1, <2>2 DEF EndOK, StreamOK, Partial
  <2> QED BY <2>4, <2>5
<1> QED BY <1>3, <1>4 DEF IInv, ContentsOK, StreamsOK

LEMMA NextInvariant == IInv /\ [Next]_vars => IInv'
<1> SUFFICES ASSUME IInv, [Next]_vars PROVE IInv'
  OBVIOUS
<1>1. CASE \E ws \in BOOLEAN : Dial(ws)
  BY <1>1, DialStep
<1>2. CASE Cut
  BY <1>2, CutStep
<1>3. CASE GoSilent \/ \E n \in Nodes : KernelGivesUp(n)
  BY <1>3, SilentStep
<1>4. CASE \E n \in Nodes : Restart(n)
  BY <1>4, RestartStep
<1>5. CASE \E n \in Nodes : ReadEvent(n)
  BY <1>5, ReadStep
<1>6. CASE \E n \in Nodes : ReadEnd(n)
  BY <1>6, GoneStep DEF ReadEnd
<1>7. CASE \E n \in Nodes : WriteAvail(n) \/ WsTake(n)
  BY <1>7, WriteStep
<1>8. ASSUME NEW n \in Nodes, WsSend(n) PROVE IInv'
  <2>1. CASE broken[n]
    <3>1. /\ Disconnected(n)
          /\ UNCHANGED <<published, events, table, lastOut, reader, received, connections, faults>>
      BY <1>8, <2>1 DEF WsSend
    <3> QED BY <3>1, GoneStep
  <2>2. CASE ~ broken[n]
    BY <1>8, <2>2, WriteStep
  <2> QED BY <2>1, <2>2
<1>9. CASE \E n \in Nodes : SendDlcMessage(n)
  BY <1>9, SendStep
<1>10. CASE \E n \in Nodes : OnConnect(n)
  BY <1>10, ConnectStep
<1>11. CASE \E n \in Nodes : ProcessIncoming(n)
  BY <1>11, IncomingStep
<1>12. CASE \E n \in Nodes : Publish(n)
  BY <1>12, PublishStep
<1>13. CASE UNCHANGED vars
  <2>1. TypeOK'
    BY <1>13 DEF vars, IInv, TypeOK
  <2>2. ASSUME NEW n \in Nodes PROVE SentOK(n)' /\ EventsOK(n)' /\ ReadOK(n)' /\ TableOK(n)'
    <3>1. /\ published' = published /\ events' = events /\ table' = table /\ lastOut' = lastOut
          /\ conn' = conn /\ wire' = wire /\ reader' = reader /\ received' = received
      BY <1>13 DEF vars
    <3>2. SentOK(n) /\ EventsOK(n) /\ ReadOK(n) /\ TableOK(n)
      BY Facts
    <3>3. SentOK(n)'
      BY <3>1, <3>2, SentKept
    <3> QED BY <3>1, <3>2, <3>3, ContentsKept
  <2>3. StreamsOK'
    BY <1>13 DEF vars, IInv, StreamsOK, EndOK, StreamOK, Writing
  <2> QED BY <2>1, <2>2, <2>3 DEF IInv, ContentsOK
<1> QED BY <1>1, <1>2, <1>3, <1>4, <1>5, <1>6, <1>7, <1>8, <1>9, <1>10, <1>11, <1>12, <1>13
        DEF Next, Background, SocketTask, HandlerTask

\* In every reachable state the streams are whole messages one after the other, and
\* what queues, readers and tables hold are messages of the scripts.
THEOREM Invariance == Spec => []IInv
BY InitInvariant, NextInvariant, PTL DEF Spec

\* The variables of the two nodes, the socket tasks and the kernels keep their types,
\* and connections and faults their bounds.
THEOREM TypeCorrect == Spec => []TypeOK
<1>1. IInv => TypeOK
  BY DEF IInv
<1> QED BY Invariance, <1>1, PTL

\* Every message a node has processed is one its peer published, and has the kind it
\* had there: for all scripts and sizes of messages, all buffers, and any number of lost
\* connections and restarts (handle_custom_message, last_outbound_dlc_message::get).
THEOREM IntactMessages == Spec => []MessagesAreIntact
<1>1. IInv => MessagesAreIntact
  <2> SUFFICES ASSUME IInv, NEW n \in Nodes, NEW r \in table[n], r.inbound
               PROVE  /\ r.message_hash \in 1 .. published[Peer(n)]
                      /\ r.message_type = Script[Peer(n)][r.message_hash].kind
    BY DEF MessagesAreIntact
  <2>1. TableOK(n)
    BY Facts
  <2> QED BY <2>1 DEF TableOK, Recorded
<1> QED BY Invariance, <1>1, PTL

\* The segment reader takes every segment that arrives: handle_custom_message never has
\* an honest peer disconnected, whatever was lost before.
THEOREM ExpectedSegments == Spec => []SegmentsAreExpected
<1>1. IInv => SegmentsAreExpected
  BY ReadOne DEF SegmentsAreExpected
<1> QED BY Invariance, <1>1, PTL
=============================================================================
