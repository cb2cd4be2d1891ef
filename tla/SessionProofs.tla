--------------------------- MODULE SessionProofs ---------------------------
(***************************************************************************)
(* What a session believes of the other node is never ahead of that node,   *)
(* for all bounds of Session.                                              *)
(***************************************************************************)
EXTENDS Session, TLAPS

\* The end e is well formed, its buffer not younger than the clock t.
GoodEnd(e, t) ==
    /\ e \in End
    /\ ChainsOwn(e)
    /\ e.buffer # None => e.buffer.seq <= t

\* What the end e believes is not ahead of a node with end p and clock t.
Behind(e, p, t) == e.session # None => Drawn(p, e.session.current) /\ e.session.seq <= t

\* No key drawn by the end e is unknown to the end f that it becomes.
Extends(e, f) == \A key \in Key : Drawn(e, key) => Drawn(f, key)

\* All that a handler promises: the node becomes r.end at clock t, having taken in
\* a message of the node with end p and clock u.
GoodResult(e, r, t, p, u) ==
    /\ GoodEnd(r.end, t)
    /\ Extends(e, r.end)
    /\ Behind(r.end, p, u)
    /\ \A i \in DOMAIN r.out : Sent(r.end, t, r.out[i])

\* Messages of the two kinds are told apart by their type.
LEMMA KindsDiffer ==
    /\ \A m \in HandshakeMessage : m.type \in {"Init", "Ack"} /\ m \notin TrafficMessage
    /\ \A m \in TrafficMessage : m.type = "Traffic" /\ m \notin HandshakeMessage
BY DEF HandshakeMessage, TrafficMessage

\* An Init or Ack for a session of the end is not ahead of it.
LEMMA HandshakeSent ==
    ASSUME NEW t \in Nat \ {0}, NEW e \in End, ChainsOwn(e), e.session # None
    PROVE  Sent(e, t, InitFor(e.session, t)) /\ Sent(e, t, AckFor(e.session, t))
BY DEF End, SessionInfo, ChainsOwn, Sent, Drawn, InitFor, AckFor, Handshake, HandshakeMessage

\* Nor is a packet sealed in the session.
LEMMA TrafficSent ==
    ASSUME NEW t \in Nat \ {0}, NEW e \in End, ChainsOwn(e), e.session # None,
           NEW p \in Payload
    PROVE  Sent(e, t, Traffic(e.session, p))
BY DEF End, SessionInfo, ChainsOwn, Sent, Drawn, Traffic, TrafficMessage, Key

\* A session whose keys only move forward, in the same chain, extends the end.
LEMMA SessionMoves ==
    ASSUME NEW t \in Nat \ {0}, NEW u \in Nat, NEW p \in End, NEW e \in End, GoodEnd(e, t),
           e.session # None, NEW s \in SessionInfo,
           s.chain = e.session.chain, s.local_key_seq >= e.session.local_key_seq,
           Drawn(p, s.current), s.seq <= u
    PROVE  LET f == [e EXCEPT !.session = s] IN
           GoodEnd(f, t) /\ Extends(e, f) /\ Behind(f, p, u) /\ f.session = s
<1> DEFINE f == [e EXCEPT !.session = s]
<1>1. /\ f \in End /\ f.session = s /\ f.buffer = e.buffer /\ f.chains = e.chains
      /\ e.session \in SessionInfo
  BY DEF End
<1>2. GoodEnd(f, t) BY <1>1 DEF GoodEnd, ChainsOwn
<1>3. Extends(e, f)
  BY <1>1 DEF Extends, Drawn, Key, SessionInfo
<1>4. Behind(f, p, u) BY <1>1 DEF Behind
<1> QED BY <1>1, <1>2, <1>3, <1>4

\* handle_update() in place.
LEMMA UpdateMoves ==
    ASSUME NEW s \in SessionInfo, NEW m \in HandshakeMessage
    PROVE  LET r == HandleUpdate(s, m) IN
           /\ r \in SessionInfo /\ r.chain = s.chain /\ r.local_key_seq = s.local_key_seq + 1
           /\ r.current = <<m.chain, m.key>> /\ r.seq = m.seq
<1> DEFINE r == HandleUpdate(s, m)
<1>1. m.chain \in Nat /\ m.key \in Nat /\ m.seq \in Nat BY DEF HandshakeMessage
<1>2. <<m.chain, m.key>> \in Key BY <1>1 DEF Key
<1>3. s.local_key_seq + 1 \in Nat BY DEF SessionInfo
<1>4. r \in SessionInfo BY <1>1, <1>2, <1>3 DEF HandleUpdate, SessionInfo
<1>5. r.chain = s.chain /\ r.local_key_seq = s.local_key_seq + 1 /\ r.seq = m.seq
  BY DEF HandleUpdate, SessionInfo
<1>6. r.current = <<m.chain, m.key>> BY DEF HandleUpdate, SessionInfo
<1> QED BY <1>4, <1>5, <1>6

\* create_session_from_init()
LEMMA CreateGood ==
    ASSUME NEW t \in Nat \ {0}, NEW u \in Nat, NEW p \in End, NEW e \in End, GoodEnd(e, t),
           e.session = None, NEW m \in HandshakeMessage, Sent(p, u, m)
    PROVE  LET f == CreateSessionFromInit(e, m) IN
           /\ GoodEnd(f, t) /\ Extends(e, f) /\ Behind(f, p, u)
           /\ f.session \in SessionInfo /\ f.session.seq < m.seq
<1> DEFINE f == CreateSessionFromInit(e, m)
<1>1. Drawn(p, <<m.chain, m.key>>) /\ m.seq <= u
  BY KindsDiffer DEF Sent
<1>2. ASSUME NEW c \in Nat
      PROVE  /\ NewSession(c, m) \in SessionInfo
             /\ NewSession(c, m).chain = c /\ NewSession(c, m).local_key_seq = 0
             /\ NewSession(c, m).current = <<m.chain, m.key>>
             /\ NewSession(c, m).seq = m.seq - 1
  BY DEF NewSession, SessionInfo, HandshakeMessage, Key
<1>3. CASE e.buffer = None
  <2>1. /\ f \in End /\ f.session = NewSession(e.chains + 1, m) /\ f.buffer = None
        /\ f.chains = e.chains + 1 /\ e.chains \in Nat
    <3>1. e.chains \in Nat /\ e.chains + 1 \in Nat BY DEF End
    <3>2. NewSession(e.chains + 1, m) \in SessionInfo BY <1>2, <3>1
    <3>3. f = [e EXCEPT !.session = NewSession(e.chains + 1, m), !.chains = e.chains + 1]
      BY <1>3 DEF CreateSessionFromInit
    <3> HIDE DEF f
    <3> QED BY <1>3, <3>1, <3>2, <3>3 DEF End
  <2>2. GoodEnd(f, t) BY <1>2, <2>1 DEF GoodEnd, ChainsOwn
  <2>3. Extends(e, f) BY <1>2, <1>3, <2>1 DEF Extends, Drawn, Key
  <2>4. Behind(f, p, u) BY <1>1, <1>2, <2>1 DEF Behind, HandshakeMessage
  <2> QED BY <1>2, <2>1, <2>2, <2>3, <2>4 DEF HandshakeMessage
<1>4. CASE e.buffer # None
  <2>1. e.buffer \in SessionBuffer /\ e.buffer.chain \in Nat /\ e.chains \in Nat
    BY <1>4 DEF End, SessionBuffer
  <2>2. /\ f \in End /\ f.session = NewSession(e.buffer.chain, m) /\ f.buffer = None
        /\ f.chains = e.chains
    BY <1>2, <1>4, <2>1 DEF End, CreateSessionFromInit
  <2>3. GoodEnd(f, t) BY <1>2, <1>4, <2>1, <2>2 DEF GoodEnd, ChainsOwn
  <2>4. Extends(e, f) BY <1>2, <1>4, <2>1, <2>2 DEF Extends, Drawn, Key
  <2>5. Behind(f, p, u) BY <1>1, <1>2, <2>1, <2>2 DEF Behind, HandshakeMessage
  <2> QED BY <1>2, <2>1, <2>2, <2>3, <2>4, <2>5 DEF HandshakeMessage
<1> QED BY <1>3, <1>4

\* A packet buffered in e, sent in a session of the end f.
LEMMA BufferedSent ==
    ASSUME NEW t \in Nat \ {0}, NEW e \in End, NEW f \in End, ChainsOwn(f), f.session # None
    PROVE  /\ Buffered(e, f.session) \in Seq(HandshakeMessage \cup TrafficMessage)
           /\ Len(Buffered(e, f.session)) \in {0, 1}
           /\ Len(Buffered(e, f.session)) = 1 => Sent(f, t, Buffered(e, f.session)[1])
<1>1. CASE e.buffer = None
  BY <1>1 DEF Buffered
<1>2. CASE e.buffer # None
  <2>1. e.buffer.payload \in Payload BY <1>2 DEF End, SessionBuffer
  <2>2. Sent(f, t, Traffic(f.session, e.buffer.payload)) BY <2>1, TrafficSent
  <2>3. Traffic(f.session, e.buffer.payload) \in HandshakeMessage \cup TrafficMessage
    BY <2>2 DEF Sent
  <2>4. Buffered(e, f.session) = <<Traffic(f.session, e.buffer.payload)>> BY <1>2 DEF Buffered
  <2> HIDE DEF Traffic
  <2> QED BY <2>2, <2>3, <2>4
<1> QED BY <1>1, <1>2

\* maybe_ratchet_on_recv(): the next key is the one the packet was sealed with.
LEMMA RatchetMoves ==
    ASSUME NEW s \in SessionInfo
    PROVE  LET r == MaybeRatchetOnRecv(s) IN
           /\ r \in SessionInfo /\ r.chain = s.chain /\ r.seq = s.seq
           /\ r.local_key_seq >= s.local_key_seq
           /\ r.current \in {s.current, Successor(s.current)}
<1> DEFINE r == MaybeRatchetOnRecv(s)
<1>1. CASE s.rotated
  <2>1. r = s BY <1>1 DEF MaybeRatchetOnRecv
  <2>2. s.local_key_seq \in Nat BY DEF SessionInfo
  <2> QED BY <2>1, <2>2
<1>2. CASE ~s.rotated
  <2>1. /\ s.local_key_seq \in Nat /\ s.remote_key_seq \in Nat /\ s.current \in Key
        /\ s.local_key_seq + 1 \in Nat /\ s.remote_key_seq + 1 \in Nat
    BY DEF SessionInfo
  <2>2. Successor(s.current) \in Key BY <2>1 DEF Successor, Key
  <2>3. r = [s EXCEPT !.current = Successor(s.current),
                      !.remote_key_seq = s.remote_key_seq + 1,
                      !.local_key_seq = s.local_key_seq + 1, !.rotated = TRUE]
    BY <1>2 DEF MaybeRatchetOnRecv
  <2> HIDE DEF r
  <2>4. r \in SessionInfo BY <2>1, <2>2, <2>3 DEF SessionInfo
  <2>5. r.chain = s.chain /\ r.seq = s.seq /\ r.local_key_seq = s.local_key_seq + 1
    BY <2>3 DEF SessionInfo
  <2>6. r.current = Successor(s.current) BY <2>3 DEF SessionInfo
  <2>7. r.local_key_seq >= s.local_key_seq BY <2>1, <2>5
  <2> QED BY <2>4, <2>5, <2>6, <2>7 DEF r
<1> QED BY <1>1, <1>2

\* Nothing changes.
LEMMA StaysGood ==
    ASSUME NEW t \in Nat \ {0}, NEW u \in Nat, NEW p \in End, NEW e \in End, GoodEnd(e, t),
           Behind(e, p, u), NEW out, \A i \in DOMAIN out : Sent(e, t, out[i])
    PROVE  GoodResult(e, Result(e, out, <<>>), t, p, u)
BY DEF GoodResult, Result, Extends

\* handle_traffic()
LEMMA HandleTrafficGood ==
    ASSUME NEW t \in Nat \ {0}, NEW u \in Nat, NEW p \in End, NEW e \in End, GoodEnd(e, t),
           Behind(e, p, u), NEW m \in TrafficMessage, Sent(p, u, m)
    PROVE  GoodResult(e, HandleTraffic(e, m, t), t, p, u)
<1> DEFINE s == e.session
           r == RecvFinalize(s, m)
<1>1. CASE s = None
  <2>1. Handshake("Init", 0, 0, t) \in HandshakeMessage /\ Sent(e, t, Handshake("Init", 0, 0, t))
    BY DEF Handshake, HandshakeMessage, Sent, Drawn
  <2>2. HandleTraffic(e, m, t) = Result(e, <<Handshake("Init", 0, 0, t)>>, <<>>)
    BY <1>1 DEF HandleTraffic
  <2> QED BY <2>1, <2>2, StaysGood
<1>2. CASE s # None /\ ~Opens(s, m)
  <2>1. HandleTraffic(e, m, t) = Result(e, <<InitFor(s, t)>>, <<>>)
    BY <1>2 DEF HandleTraffic
  <2>2. Sent(e, t, InitFor(s, t)) BY <1>2, HandshakeSent DEF GoodEnd
  <2> QED BY <2>1, <2>2, StaysGood
<1>3. CASE s # None /\ Opens(s, m)
  <2> DEFINE f == [e EXCEPT !.session = r]
             out == IF m.payload = "probe" THEN <<Traffic(r, "ack")>> ELSE <<>>
             del == IF m.payload = "data" THEN <<m.payload>> ELSE <<>>
  <2>1. HandleTraffic(e, m, t) = Result(f, out, del)
    BY <1>3 DEF HandleTraffic
  <2>2. s \in SessionInfo BY <1>3 DEF End
  <2>3. Drawn(p, s.current) /\ s.seq <= u BY <1>3 DEF Behind
  <2>4. FromNext(s, m) => Drawn(p, Successor(s.current))
    <3>1. FromNext(s, m) => ~FromCurrent(s, m)
      BY <2>2 DEF FromNext, FromCurrent, SessionInfo
    <3>2. Drawn(p, m.sealer) BY KindsDiffer DEF Sent
    <3> QED BY <1>3, <3>1, <3>2 DEF Opens
  <2>5. /\ r \in SessionInfo /\ r.chain = s.chain /\ r.seq = s.seq
        /\ r.local_key_seq >= s.local_key_seq /\ Drawn(p, r.current)
    <3>1. CASE FromNext(s, m)
      BY <2>2, <2>3, <2>4, <3>1, RatchetMoves DEF RecvFinalize
    <3>2. CASE ~FromNext(s, m)
      <4>1. r = s /\ s.local_key_seq \in Nat BY <2>2, <3>2 DEF RecvFinalize, SessionInfo
      <4> QED BY <2>2, <2>3, <4>1
    <3> QED BY <3>1, <3>2
  <2> HIDE DEF r
  <2>6. GoodEnd(f, t) /\ Extends(e, f) /\ Behind(f, p, u) /\ f.session = r
    BY <1>3, <2>3, <2>5, SessionMoves
  <2>7. Sent(f, t, Traffic(r, "ack"))
    BY <2>5, <2>6, TrafficSent, SessionAssumption DEF GoodEnd, Payload
  <2>8. \A i \in DOMAIN out : Sent(f, t, out[i])
    BY <2>7
  <2> QED BY <2>1, <2>6, <2>8 DEF GoodResult, Result
<1> QED BY <1>1, <1>2, <1>3

\* handle_update() of the session that there is.
LEMMA UpdateGood ==
    ASSUME NEW t \in Nat \ {0}, NEW u \in Nat, NEW p \in End, NEW e \in End, GoodEnd(e, t),
           e.session # None, NEW m \in HandshakeMessage, Sent(p, u, m)
    PROVE  LET f == [e EXCEPT !.session = HandleUpdate(e.session, m)] IN
           /\ GoodEnd(f, t) /\ Extends(e, f) /\ Behind(f, p, u)
           /\ f.session = HandleUpdate(e.session, m) /\ f.session # None
<1> DEFINE s == HandleUpdate(e.session, m)
<1>1. e.session \in SessionInfo BY DEF End
<1>2. Drawn(p, <<m.chain, m.key>>) /\ m.seq <= u BY KindsDiffer DEF Sent
<1>3. /\ s \in SessionInfo /\ s.chain = e.session.chain
      /\ s.local_key_seq >= e.session.local_key_seq /\ Drawn(p, s.current) /\ s.seq <= u
  BY <1>1, <1>2, UpdateMoves, SMTT(40) DEF SessionInfo
<1> HIDE DEF s
<1>4. LET f == [e EXCEPT !.session = s] IN
      /\ GoodEnd(f, t) /\ Extends(e, f) /\ Behind(f, p, u)
      /\ f.session = s /\ f.session # None
  BY <1>3, SessionMoves, SessionAssumption
<1> QED BY <1>4 DEF s

\* handle_init()
LEMMA HandleInitGood ==
    ASSUME NEW t \in Nat \ {0}, NEW u \in Nat, NEW p \in End, NEW e \in End, GoodEnd(e, t),
           Behind(e, p, u), NEW m \in HandshakeMessage, Sent(p, u, m)
    PROVE  GoodResult(e, HandleInit(e, m, t), t, p, u)
<1> DEFINE s == e.session
<1>1. CASE s # None /\ m.seq <= s.seq
  <2>1. ~(m.seq > s.seq) BY <1>1 DEF HandshakeMessage, SessionInfo, End
  <2>2. HandleInit(e, m, t) = Result(e, <<>>, <<>>) BY <1>1, <2>1 DEF HandleInit
  <2> QED BY <2>2, StaysGood
<1>2. CASE s # None /\ ~(m.seq <= s.seq)
  <2> DEFINE f == [e EXCEPT !.session = HandleUpdate(s, m)]
  <2>1. HandleInit(e, m, t) = Result(f, <<AckFor(f.session, t)>>, <<>>)
    <3>1. m.seq > s.seq
      BY <1>2 DEF HandshakeMessage, SessionInfo, End
    <3> QED BY <1>2, <3>1, UpdateGood DEF HandleInit
  <2>2. GoodEnd(f, t) /\ Extends(e, f) /\ Behind(f, p, u) /\ f.session # None
    BY <1>2, UpdateGood
  <2> HIDE DEF f
  <2>3. Sent(f, t, AckFor(f.session, t)) BY <2>2, HandshakeSent, SMTT(40) DEF GoodEnd
  <2> QED BY <2>1, <2>2, <2>3 DEF GoodResult, Result
<1>3. CASE s = None
  <2> DEFINE f == CreateSessionFromInit(e, m)
             ack == AckFor(f.session, t)
             waiting == Buffered(e, f.session)
  <2>1. HandleInit(e, m, t) = Result(f, waiting \o <<ack>>, <<>>) BY <1>3 DEF HandleInit
  <2>2. GoodEnd(f, t) /\ Extends(e, f) /\ Behind(f, p, u) /\ f.session # None
    BY <1>3, CreateGood, SessionAssumption, SMTT(40)
  <2> HIDE DEF f
  <2>3. Sent(f, t, ack) /\ ack \in HandshakeMessage \cup TrafficMessage
    BY <2>2, HandshakeSent DEF GoodEnd, Sent
  <2>4. /\ waiting \in Seq(HandshakeMessage \cup TrafficMessage) /\ Len(waiting) \in {0, 1}
        /\ Len(waiting) = 1 => Sent(f, t, waiting[1])
    BY <2>2, BufferedSent DEF GoodEnd
  <2> HIDE DEF ack, waiting
  <2>5. \A i \in DOMAIN (waiting \o <<ack>>) : Sent(f, t, (waiting \o <<ack>>)[i])
    BY <2>3, <2>4
  <2> QED BY <2>1, <2>2, <2>5, SMTT(40) DEF GoodResult, Result
<1> QED BY <1>1, <1>2, <1>3

\* handle_ack()
LEMMA HandleAckGood ==
    ASSUME NEW t \in Nat \ {0}, NEW u \in Nat, NEW p \in End, NEW e \in End, GoodEnd(e, t),
           Behind(e, p, u), NEW m \in HandshakeMessage, Sent(p, u, m)
    PROVE  GoodResult(e, HandleAck(e, m, t), t, p, u)
<1> DEFINE s == e.session
<1>1. CASE s # None /\ m.seq <= s.seq
  <2>1. ~(m.seq > s.seq) BY <1>1 DEF HandshakeMessage, SessionInfo, End
  <2>2. HandleAck(e, m, t) = Result(e, <<>>, <<>>) BY <1>1, <2>1 DEF HandleAck
  <2> QED BY <2>2, StaysGood
<1>2. CASE s # None /\ ~(m.seq <= s.seq)
  <2> DEFINE f == [e EXCEPT !.session = HandleUpdate(s, m)]
  <2>1. HandleAck(e, m, t) = Result(f, <<>>, <<>>)
    <3>1. m.seq > s.seq
      BY <1>2 DEF HandshakeMessage, SessionInfo, End
    <3> QED BY <1>2, <3>1 DEF HandleAck
  <2>2. GoodEnd(f, t) /\ Extends(e, f) /\ Behind(f, p, u)
    BY <1>2, UpdateGood
  <2> QED BY <2>1, <2>2 DEF GoodResult, Result
<1>3. CASE s = None
  <2> DEFINE c == CreateSessionFromInit(e, m)
             f == [c EXCEPT !.session = HandleUpdate(c.session, m)]
             ack == AckFor(f.session, t)
             waiting == Buffered(e, f.session)
  <2>1. GoodEnd(c, t) /\ Extends(e, c) /\ c.session # None
    BY <1>3, CreateGood, SessionAssumption
  <2>2. HandleAck(e, m, t)
          = LET updated == HandleUpdate(c.session, m) IN
            Result([c EXCEPT !.session = updated],
                   <<AckFor(updated, t)>> \o Buffered(e, updated), <<>>)
    BY <1>3 DEF HandleAck
  <2> HIDE DEF c
  <2>3. /\ GoodEnd(f, t) /\ Extends(c, f) /\ Behind(f, p, u)
        /\ f.session = HandleUpdate(c.session, m) /\ f.session # None
    BY <2>1, UpdateGood DEF GoodEnd
  <2>4. HandleAck(e, m, t) = Result(f, <<ack>> \o waiting, <<>>) BY <2>2, <2>3
  <2> HIDE DEF f
  <2>5. Sent(f, t, ack) /\ ack \in HandshakeMessage \cup TrafficMessage
    BY <2>3, HandshakeSent DEF GoodEnd, Sent
  <2>6. /\ waiting \in Seq(HandshakeMessage \cup TrafficMessage) /\ Len(waiting) \in {0, 1}
        /\ Len(waiting) = 1 => Sent(f, t, waiting[1])
    BY <2>3, BufferedSent DEF GoodEnd
  <2> HIDE DEF ack, waiting
  <2>7. \A i \in DOMAIN (<<ack>> \o waiting) : Sent(f, t, (<<ack>> \o waiting)[i])
    BY <2>5, <2>6
  <2>8. Extends(e, f) BY <2>1, <2>3 DEF Extends
  <2> QED BY <2>3, <2>4, <2>7, <2>8 DEF GoodResult, Result
<1> QED BY <1>1, <1>2, <1>3

\* handle_data()
LEMMA HandleDataGood ==
    ASSUME NEW t \in Nat \ {0}, NEW u \in Nat, NEW p \in End, NEW e \in End, GoodEnd(e, t),
           Behind(e, p, u), NEW m, Sent(p, u, m)
    PROVE  GoodResult(e, HandleData(e, m, t), t, p, u)
<1>1. CASE m \in HandshakeMessage /\ m.type = "Init"
  <2>1. HandleData(e, m, t) = HandleInit(e, m, t) BY <1>1 DEF HandleData
  <2> QED BY <1>1, <2>1, HandleInitGood
<1>2. CASE m \in HandshakeMessage /\ m.type = "Ack"
  <2>1. HandleData(e, m, t) = HandleAck(e, m, t) BY <1>2 DEF HandleData
  <2> QED BY <1>2, <2>1, HandleAckGood
<1>3. CASE m \in TrafficMessage
  <2>1. HandleData(e, m, t) = HandleTraffic(e, m, t) BY <1>3, KindsDiffer DEF HandleData
  <2> QED BY <1>3, <2>1, HandleTrafficGood
<1> QED BY <1>1, <1>2, <1>3, KindsDiffer DEF Sent

\* buffer_and_init()
LEMMA BufferAndInitGood ==
    ASSUME NEW t \in Nat \ {0}, NEW u \in Nat, NEW p \in End, NEW e \in End, GoodEnd(e, t),
           Behind(e, p, u), NEW x \in Payload
    PROVE  GoodResult(e, BufferAndInit(e, x, t), t, p, u)
<1>1. CASE e.buffer = None
  <2> DEFINE b == [chain |-> e.chains + 1, seq |-> t, payload |-> x]
             f == [e EXCEPT !.buffer = b, !.chains = e.chains + 1]
             m == Handshake("Init", e.chains + 1, 0, t)
  <2>1. BufferAndInit(e, x, t) = Result(f, <<m>>, <<>>)
    BY <1>1 DEF BufferAndInit
  <2>2. e.chains \in Nat /\ e.chains + 1 \in Nat BY DEF End
  <2>3. b \in SessionBuffer /\ b.chain = e.chains + 1 /\ b.seq = t BY <2>2 DEF SessionBuffer
  <2> HIDE DEF b
  <2>4. /\ f \in End /\ f.buffer = b /\ f.chains = e.chains + 1 /\ f.session = e.session
    BY <2>2, <2>3 DEF End
  <2> HIDE DEF f
  <2>5. GoodEnd(f, t)
    BY <2>2, <2>3, <2>4 DEF GoodEnd, ChainsOwn, End, SessionInfo
  <2>6. Extends(e, f) BY <2>2, <2>3, <2>4 DEF Extends, Drawn, Key
  <2>7. Behind(f, p, u) BY <2>4 DEF Behind
  <2>8. Sent(f, t, m)
    <3>1. m \in HandshakeMessage /\ m.chain = e.chains + 1 /\ m.key = 0 /\ m.seq = t
      BY <2>2 DEF Handshake, HandshakeMessage
    <3>2. f.session # None => f.session.chain # e.chains + 1
      BY <2>2, <2>4 DEF GoodEnd, ChainsOwn
    <3>3. Drawn(f, <<e.chains + 1, 0>>) BY <2>2, <2>3, <2>4, <3>2 DEF Drawn
    <3> QED BY <3>1, <3>3 DEF Sent
  <2> QED BY <2>1, <2>5, <2>6, <2>7, <2>8 DEF GoodResult, Result
<1>2. CASE e.buffer # None
  <2> DEFINE b == [e.buffer EXCEPT !.payload = x]
             f == [e EXCEPT !.buffer = b, !.chains = e.chains]
             m == Handshake("Init", b.chain, 0, b.seq)
  <2>1. BufferAndInit(e, x, t) = Result(f, <<m>>, <<>>)
    BY <1>2 DEF BufferAndInit
  <2>2. e.chains \in Nat /\ e.buffer \in SessionBuffer BY <1>2 DEF End
  <2>3. b \in SessionBuffer /\ b.chain = e.buffer.chain /\ b.seq = e.buffer.seq
    BY <2>2 DEF SessionBuffer
  <2> HIDE DEF b
  <2>4. /\ f \in End /\ f.buffer = b /\ f.chains = e.chains /\ f.session = e.session
    BY <2>2, <2>3 DEF End
  <2> HIDE DEF f
  <2>5. GoodEnd(f, t)
    BY <1>2, <2>2, <2>3, <2>4 DEF GoodEnd, ChainsOwn
  <2>6. Extends(e, f) BY <1>2, <2>2, <2>3, <2>4 DEF Extends, Drawn, Key
  <2>7. Behind(f, p, u) BY <2>4 DEF Behind
  <2>8. Sent(f, t, m)
    <3>1. m \in HandshakeMessage /\ m.chain = b.chain /\ m.key = 0 /\ m.seq = b.seq
      BY <2>3 DEF Handshake, HandshakeMessage, SessionBuffer
    <3>2. /\ b.chain \in 1..f.chains /\ b.seq <= t
          /\ f.session # None => f.session.chain # b.chain
      BY <1>2, <2>2, <2>3, <2>4 DEF GoodEnd, ChainsOwn
    <3>3. Drawn(f, <<b.chain, 0>>) BY <2>3, <2>4, <3>2, SMTT(40) DEF Drawn
    <3> QED BY <3>1, <3>2, <3>3 DEF Sent
  <2> QED BY <2>1, <2>5, <2>6, <2>7, <2>8 DEF GoodResult, Result
<1> QED BY <1>1, <1>2

\* The invariant, node by node.
LEMMA IInvByNode ==
    IInv <=>
        /\ TypeOK
        /\ \A n \in Node :
            /\ GoodEnd(end[n], now[n])
            /\ Behind(end[n], end[Peer(n)], now[Peer(n)])
            /\ \A m \in net[n] : Sent(end[Peer(n)], now[Peer(n)], m)
BY DEF IInv, TypeOK, NeverAhead, GoodEnd, Behind

\* Messages and beliefs that are not ahead of e are not ahead of what it becomes.
LEMMA StillBehind ==
    ASSUME NEW e \in End, NEW f \in End, Extends(e, f), NEW t \in Nat, NEW u \in Nat, t <= u
    PROVE  /\ \A m : Sent(e, t, m) => Sent(f, u, m)
           /\ \A g \in End : Behind(g, e, t) => Behind(g, f, u)
<1>1. ASSUME NEW m, Sent(e, t, m) PROVE Sent(f, u, m)
  <2>1. CASE m \in HandshakeMessage
    <3>1. <<m.chain, m.key>> \in Key /\ m.seq \in Nat BY <2>1 DEF HandshakeMessage, Key
    <3>2. Drawn(e, <<m.chain, m.key>>) /\ m.seq <= t BY <1>1, <2>1, KindsDiffer DEF Sent
    <3> QED BY <2>1, <3>1, <3>2 DEF Sent, Extends
  <2>2. CASE m \in TrafficMessage
    <3>1. m.sealer \in Key BY <2>2 DEF TrafficMessage
    <3>2. Drawn(e, m.sealer) BY <1>1, <2>2, KindsDiffer DEF Sent
    <3> QED BY <2>2, <3>1, <3>2 DEF Sent, Extends
  <2> QED BY <1>1, <2>1, <2>2 DEF Sent
<1>2. ASSUME NEW g \in End, Behind(g, e, t) PROVE Behind(g, f, u)
  <2>1. g.session # None => g.session.current \in Key /\ g.session.seq \in Nat
    BY DEF End, SessionInfo
  <2> QED BY <1>2, <2>1 DEF Behind, Extends
<1> QED BY <1>1, <1>2

\* Each node is the other's peer.
LEMMA PeerOf ==
    ASSUME NEW n \in Node
    PROVE  Peer(n) \in Node /\ Peer(n) # n /\ Peer(Peer(n)) = n /\ Node = {n, Peer(n)}
BY SessionAssumption, SMTT(40) DEF Node, Peer

\* A step of one node keeps the invariant if its end extends what it was and is
\* well formed, and what it sends is not ahead of it.
LEMMA EndMoves ==
    ASSUME IInv, NEW n \in Node, TypeOK', now' = now,
           end'[Peer(n)] = end[Peer(n)],
           GoodEnd(end'[n], now[n]), Extends(end[n], end'[n]),
           Behind(end'[n], end[Peer(n)], now[Peer(n)]),
           \A m \in net'[n] : m \in net[n],
           \A m \in net'[Peer(n)] : m \in net[Peer(n)] \/ Sent(end'[n], now[n], m)
    PROVE  IInv'
<1> DEFINE p == Peer(n)
<1>1. p \in Node /\ p # n /\ Peer(p) = n /\ Node = {n, p} BY PeerOf, SMTT(40)
<1> HIDE DEF p
<1>2. /\ GoodEnd(end[p], now[p]) /\ Behind(end[p], end[n], now[n])
      /\ \A m \in net[n] : Sent(end[p], now[p], m)
      /\ \A m \in net[p] : Sent(end[n], now[n], m)
  BY <1>1, IInvByNode, SMTT(40) DEF p
<1>3. /\ end[n] \in End /\ end'[n] \in End /\ now[n] \in Nat /\ end[p] \in End
  BY <1>1, SMTT(40) DEF IInv, TypeOK
<1>4. /\ \A m : Sent(end[n], now[n], m) => Sent(end'[n], now[n], m)
      /\ Behind(end[p], end'[n], now[n])
  BY <1>2, <1>3, StillBehind, SMTT(40)
<1>5. \A m \in net'[p] : Sent(end'[n], now[n], m) BY <1>2, <1>4, SMTT(40) DEF p
<1>6. \A m \in net'[n] : Sent(end'[p], now[p], m) BY <1>2, SMTT(40) DEF p
<1>7. \A x \in Node :
        /\ GoodEnd(end'[x], now'[x])
        /\ Behind(end'[x], end'[Peer(x)], now'[Peer(x)])
        /\ \A m \in net'[x] : Sent(end'[Peer(x)], now'[Peer(x)], m)
  BY <1>1, <1>2, <1>4, <1>5, <1>6 DEF p
<1> QED BY <1>7, SMTT(40) DEF IInv, NeverAhead, GoodEnd, Behind

\* Type correctness of the messages of a list.
LEMMA SentTyped ==
    ASSUME NEW e, NEW t, NEW m, Sent(e, t, m)
    PROVE  m \in HandshakeMessage \cup TrafficMessage
BY SMTT(40) DEF Sent

\* encrypted_reader_loop keeps the invariant, whatever the message.
LEMMA ReceiveKeeps ==
    ASSUME IInv, NEW n \in Node, NEW m \in net[n], Receive(n, m)
    PROVE  IInv'
<1> DEFINE p == Peer(n)
           r == HandleData(end[n], m, now[n])
           sent == {r.out[i] : i \in DOMAIN r.out}
<1>1. p \in Node /\ p # n BY PeerOf
<1>2. /\ end[n] \in End /\ end[p] \in End /\ now[n] \in Nat \ {0} /\ now[p] \in Nat
  BY <1>1 DEF IInv, TypeOK
<1>3. GoodResult(end[n], r, now[n], end[p], now[p])
  BY <1>2, IInvByNode, HandleDataGood
<1>4. /\ end' = [end EXCEPT ![n] = r.end] /\ now' = now /\ writer' = writer /\ events' = events
      /\ net' = [net EXCEPT ![n] = @ \ {m}, ![p] = @ \cup sent]
  BY DEF Receive
<1> HIDE DEF p, r
<1>5. /\ r.end \in End /\ \A x \in sent : Sent(r.end, now[n], x)
      /\ sent \subseteq HandshakeMessage \cup TrafficMessage
  BY <1>3, SentTyped, SMTT(40) DEF GoodResult, GoodEnd
<1> HIDE DEF sent
<1>6. /\ end'[n] = r.end /\ end'[p] = end[p] /\ net'[n] = net[n] \ {m}
      /\ net'[p] = net[p] \cup sent
  BY <1>1, <1>4, SMTT(40) DEF IInv, TypeOK
<1>7. TypeOK' BY <1>1, <1>4, <1>5, SMTT(40) DEF IInv, TypeOK
<1> QED BY <1>3, <1>4, <1>5, <1>6, <1>7, EndMoves DEF GoodResult, p

\* write_to() keeps it when it buffers a packet,
LEMMA WriteBufferKeeps ==
    ASSUME IInv, NEW n \in Node, WriteBuffer(n)
    PROVE  IInv'
<1> DEFINE p == Peer(n)
           r == BufferAndInit(end[n], writer[n].payload, now[n])
           sent == {r.out[i] : i \in DOMAIN r.out}
<1>1. p \in Node /\ p # n BY PeerOf, SMTT(40)
<1>2. /\ end[n] \in End /\ end[p] \in End /\ now[n] \in Nat \ {0} /\ now[p] \in Nat
      /\ writer[n].payload \in Payload
  BY <1>1, SMTT(40) DEF IInv, TypeOK
<1>3. GoodResult(end[n], r, now[n], end[p], now[p])
  BY <1>2, IInvByNode, BufferAndInitGood, SMTT(40)
<1>4. /\ end' = [end EXCEPT ![n] = r.end] /\ now' = now /\ events' = events
      /\ writer' = [writer EXCEPT ![n] = Idle]
      /\ net' = [net EXCEPT ![p] = @ \cup sent]
  BY SMTT(40) DEF WriteBuffer
<1> HIDE DEF p, r
<1>5. /\ r.end \in End /\ \A x \in sent : Sent(r.end, now[n], x)
      /\ sent \subseteq HandshakeMessage \cup TrafficMessage
  BY <1>3, SentTyped, SMTT(40) DEF GoodResult, GoodEnd
<1> HIDE DEF sent
<1>6. /\ end'[n] = r.end /\ end'[p] = end[p] /\ net'[n] = net[n]
      /\ net'[p] = net[p] \cup sent
  BY <1>1, <1>4, SMTT(40) DEF IInv, TypeOK
<1>7. TypeOK' BY <1>1, <1>4, <1>5 DEF IInv, TypeOK, Idle, Payload
<1> QED BY <1>3, <1>4, <1>5, <1>6, <1>7, EndMoves DEF GoodResult, p

\* and when it looks for the session and sends in it.
LEMMA WriteToKeeps ==
    ASSUME IInv, NEW n \in Node, WriteTo(n)
    PROVE  IInv'
<1> DEFINE p == Peer(n)
           m == Traffic(end[n].session, writer[n].payload)
<1>1. p \in Node /\ p # n BY PeerOf
<1>2. /\ end[n] \in End /\ now[n] \in Nat \ {0} /\ writer[n].payload \in Payload
      /\ GoodEnd(end[n], now[n]) /\ Behind(end[n], end[p], now[p])
  BY <1>1, IInvByNode, SMTT(40) DEF TypeOK
<1>3. end' = end /\ now' = now /\ events' \in Nat
  BY DEF WriteTo, IInv, TypeOK
<1>4. Extends(end[n], end'[n]) BY <1>3, SMTT(40) DEF Extends
<1>5. CASE end[n].session # None
  <2>1. Sent(end[n], now[n], m) BY <1>2, <1>5, TrafficSent DEF GoodEnd
  <2>2. net' = [net EXCEPT ![p] = @ \cup {m}] /\ writer' = [writer EXCEPT ![n] = Idle]
    BY <1>5, SMTT(40) DEF WriteTo
  <2> HIDE DEF p, m
  <2>3. TypeOK' BY <1>1, <1>3, <2>1, <2>2, SentTyped, SMTT(40) DEF IInv, TypeOK, Idle, Payload
  <2>4. net'[n] = net[n] /\ net'[p] = net[p] \cup {m} BY <1>1, <2>2, SMTT(40) DEF IInv, TypeOK
  <2> QED BY <1>2, <1>3, <1>4, <2>1, <2>3, <2>4, EndMoves, SMTT(40) DEF p
<1>6. CASE end[n].session = None
  <2>1. net' = net /\ writer' = [writer EXCEPT ![n] = [step |-> "buffer", payload |-> writer[n].payload]]
    BY <1>6, SMTT(40) DEF WriteTo
  <2>2. TypeOK' BY <1>2, <1>3, <2>1 DEF IInv, TypeOK
  <2> QED BY <1>2, <1>3, <1>4, <2>1, <2>2, EndMoves
<1> QED BY <1>5, <1>6

\* An end that forgets its session, its buffer or both is still good.
LEMMA ForgetGood ==
    ASSUME NEW t \in Nat \ {0}, NEW u \in Nat, NEW p \in End, NEW e \in End, GoodEnd(e, t),
           Behind(e, p, u), NEW f \in End, f.chains = e.chains,
           f.session \in {e.session, None}, f.buffer \in {e.buffer, None}
    PROVE  GoodEnd(f, t) /\ Extends(e, f) /\ Behind(f, p, u)
<1>1. GoodEnd(f, t) BY DEF GoodEnd, ChainsOwn
<1>2. Extends(e, f) BY DEF Extends, Drawn
<1>3. Behind(f, p, u) BY DEF Behind
<1> QED BY <1>1, <1>2, <1>3, SMTT(40)

\* cleanup_expired() and a restart keep the invariant.
LEMMA ForgetKeeps ==
    ASSUME IInv, NEW n \in Node,
           (\E session, buffer \in BOOLEAN : CleanupExpired(n, session, buffer)) \/ Restart(n)
    PROVE  IInv'
<1> DEFINE p == Peer(n)
           f == end'[n]
<1>1. p \in Node /\ p # n BY PeerOf
<1>2. /\ end[n] \in End /\ end[p] \in End /\ now[n] \in Nat \ {0} /\ now[p] \in Nat
      /\ GoodEnd(end[n], now[n]) /\ Behind(end[n], end[p], now[p])
  BY <1>1, IInvByNode DEF TypeOK
<1>3. /\ now' = now /\ net' = net /\ events' \in Nat
      /\ writer' = writer \/ writer' = [writer EXCEPT ![n] = Idle]
  <2>1. events \in Nat BY DEF IInv, TypeOK
  <2>2. CASE Restart(n) BY <2>1, <2>2 DEF Restart
  <2>3. CASE \E session, buffer \in BOOLEAN : CleanupExpired(n, session, buffer)
    BY <2>1, <2>3 DEF CleanupExpired
  <2> QED BY <2>2, <2>3, SMTT(40)
<1>4. PICK s \in {end[n].session, None}, b \in {end[n].buffer, None} :
        end' = [end EXCEPT ![n] = [end[n] EXCEPT !.session = s, !.buffer = b]]
  <2>1. CASE Restart(n)
    BY <2>1, <1>2 DEF Restart, IInv, TypeOK, End
  <2>2. CASE \E session, buffer \in BOOLEAN : CleanupExpired(n, session, buffer)
    <3>1. PICK session \in BOOLEAN, buffer \in BOOLEAN : CleanupExpired(n, session, buffer)
      BY <2>2
    <3> DEFINE s == IF session THEN None ELSE end[n].session
               b == IF buffer THEN None ELSE end[n].buffer
    <3>2. s \in {end[n].session, None} /\ b \in {end[n].buffer, None} BY SMTT(40)
    <3>3. end' = [end EXCEPT ![n] = [end[n] EXCEPT !.session = s, !.buffer = b]]
      BY <3>1, <1>2 DEF CleanupExpired, IInv, TypeOK, End
    <3> QED BY <3>2, <3>3
  <2> QED BY <2>1, <2>2
<1>5. /\ f = [end[n] EXCEPT !.session = s, !.buffer = b] /\ end'[p] = end[p]
  BY <1>1, <1>4 DEF IInv, TypeOK
<1>6. /\ f \in End /\ f.session = s /\ f.buffer = b /\ f.chains = end[n].chains
  BY <1>2, <1>5, ZenonT(60) DEF End
<1>7. TypeOK'
  <2>1. end' \in [Node -> End] BY <1>4, <1>5, <1>6, SMTT(40) DEF IInv, TypeOK
  <2>2. writer' \in [Node -> [step : {"idle", "look", "buffer"}, payload : Payload]]
    BY <1>3, SMTT(40) DEF IInv, TypeOK, Idle, Payload
  <2> QED BY <1>3, <2>1, <2>2 DEF IInv, TypeOK
<1>8. GoodEnd(f, now[n]) /\ Extends(end[n], f) /\ Behind(f, end[p], now[p])
  BY <1>2, <1>6, ForgetGood, SMTT(40)
<1> QED BY <1>3, <1>5, <1>7, <1>8, EndMoves

\* The minute between two rotations has no bearing on it.
LEMMA RotationDueKeeps ==
    ASSUME IInv, NEW n \in Node, RotationDue(n)
    PROVE  IInv'
<1> DEFINE p == Peer(n)
           s == [end[n].session EXCEPT !.rotated = FALSE]
           f == [end[n] EXCEPT !.session = s]
<1>1. p \in Node /\ p # n BY PeerOf
<1>2. /\ end[n] \in End /\ end[p] \in End /\ now[n] \in Nat \ {0} /\ now[p] \in Nat
      /\ GoodEnd(end[n], now[n]) /\ Behind(end[n], end[p], now[p])
  BY <1>1, IInvByNode DEF TypeOK
<1>3. /\ end[n].session # None /\ end[n].session \in SessionInfo
      /\ now' = now /\ net' = net /\ events' = events /\ writer' = writer
  BY <1>2 DEF RotationDue, End
<1>4. /\ s \in SessionInfo /\ s.chain = end[n].session.chain /\ s.seq = end[n].session.seq
      /\ s.local_key_seq >= end[n].session.local_key_seq
      /\ s.current = end[n].session.current
  <2>1. ASSUME NEW z \in SessionInfo
        PROVE  LET y == [z EXCEPT !.rotated = FALSE] IN
               /\ y \in SessionInfo /\ y.chain = z.chain /\ y.seq = z.seq
               /\ y.local_key_seq = z.local_key_seq /\ y.current = z.current
               /\ z.local_key_seq \in Nat
    BY ZenonT(60) DEF SessionInfo
  <2>2. \A i, j \in Nat : i = j => i >= j OBVIOUS
  <2> QED BY <1>3, <2>1, <2>2
<1>5. end' = [end EXCEPT ![n] = f] BY <1>2 DEF RotationDue, IInv, TypeOK, End
<1> HIDE DEF s
<1>6. f \in End BY <1>2, <1>4 DEF End
<1>7. end'[n] = f /\ end'[p] = end[p] BY <1>1, <1>5 DEF IInv, TypeOK
<1>8. GoodEnd(f, now[n]) /\ Extends(end[n], f) /\ Behind(f, end[p], now[p])
  BY <1>2, <1>3, <1>4, SessionMoves, SMTT(40) DEF Behind
<1> HIDE DEF f
<1>9. TypeOK' BY <1>3, <1>5, <1>6, SMTT(40) DEF IInv, TypeOK
<1> QED BY <1>3, <1>7, <1>8, <1>9, EndMoves, SMTT(40)

\* keepalive_send_if_session() has yet to send anything.
LEMMA KeepaliveKeeps ==
    ASSUME IInv, NEW n \in Node, Keepalive(n)
    PROVE  IInv'
BY SMTT(40) DEF IInv, TypeOK, NeverAhead, Keepalive, Payload

\* A clock only takes what is known of it further into its past.
LEMMA TickKeeps ==
    ASSUME IInv, NEW n \in Node, Tick(n)
    PROVE  IInv'
<1>1. /\ now' \in [Node -> Nat \ {0}] /\ \A x \in Node : now[x] <= now'[x]
      /\ end' = end /\ writer' = writer /\ net' = net /\ events' = events
  BY SMTT(40) DEF Tick, IInv, TypeOK
<1>2. TypeOK' BY <1>1, SMTT(40) DEF IInv, TypeOK
<1>3. ASSUME NEW x \in Node
      PROVE  /\ GoodEnd(end[x], now'[x])
             /\ Behind(end[x], end[Peer(x)], now'[Peer(x)])
             /\ \A m \in net[x] : Sent(end[Peer(x)], now'[Peer(x)], m)
  <2>1. Peer(x) \in Node BY PeerOf, SMTT(40)
  <2>2. /\ end[x] \in End /\ end[Peer(x)] \in End /\ now[x] \in Nat /\ now'[x] \in Nat
        /\ now[Peer(x)] \in Nat /\ now'[Peer(x)] \in Nat
        /\ now[x] <= now'[x] /\ now[Peer(x)] <= now'[Peer(x)]
    BY <1>1, <2>1 DEF IInv, TypeOK
  <2>3. Extends(end[Peer(x)], end[Peer(x)]) BY SMTT(40) DEF Extends
  <2>4. GoodEnd(end[x], now'[x])
    BY <2>2, IInvByNode, SMTT(40) DEF GoodEnd, End, SessionBuffer
  <2> QED BY <2>2, <2>3, <2>4, IInvByNode, StillBehind
<1> QED BY <1>1, <1>2, <1>3, SMTT(40) DEF IInv, NeverAhead, GoodEnd, Behind

\* Every step of the two nodes keeps the invariant.
THEOREM Invariance == Spec => []IInv
<1>1. Init => IInv
  BY DEF Init, IInv, TypeOK, NeverAhead, ChainsOwn, NoEnd, End, Idle, Payload
<1>2. IInv /\ [Next]_vars => IInv'
  <2> SUFFICES ASSUME IInv, [Next]_vars PROVE IInv' BY SMTT(40)
  <2>1. CASE UNCHANGED vars
    BY <2>1, SMTT(40) DEF vars, IInv, TypeOK, NeverAhead
  <2>2. CASE Next
    <3>1. PICK n \in Node :
            \/ \E m \in net[n] : Receive(n, m)
            \/ Keepalive(n) \/ WriteTo(n) \/ WriteBuffer(n)
            \/ \E session, buffer \in BOOLEAN : CleanupExpired(n, session, buffer)
            \/ Restart(n) \/ RotationDue(n) \/ Tick(n)
      BY <2>2 DEF Next
    <3> QED
      BY <3>1, ReceiveKeeps, KeepaliveKeeps, WriteToKeeps, WriteBufferKeeps, ForgetKeeps,
         RotationDueKeeps, TickKeeps, SMTT(40)
  <2> QED BY <2>1, <2>2
<1> QED BY <1>1, <1>2, PTL DEF Spec

\* Type correctness.
THEOREM TypeCorrect == Spec => []TypeOK
<1>1. IInv => TypeOK BY DEF IInv
<1> QED BY <1>1, Invariance, PTL

\* What a session believes of the other node's keys and clock is never ahead of
\* that node, however its Inits, Acks and packets are lost, delayed or reordered.
THEOREM BeliefsNeverAhead == Spec => []NeverAhead
<1>1. IInv => NeverAhead BY DEF IInv
<1> QED BY <1>1, Invariance, PTL
=============================================================================
