------------------------------ MODULE Session ------------------------------
(***************************************************************************)
(* The encrypted session of two nodes (ironwood, encrypted/session.rs and   *)
(* encrypted/mod.rs): the handshake of Init and Ack messages, the ratchet of *)
(* both sides' keys, the buffer of a node that writes without a session, and *)
(* the recovery from messages that are lost, late or out of order and from  *)
(* sessions that expire.  A ConcurrentSessionManager treats its peers        *)
(* independently, so a pair of nodes is the whole system.                   *)
(*                                                                         *)
(* A node draws its keys one after the other: <<c, k>> is key number k of its *)
(* chain c.  A session with local_key_seq k holds the private halves of      *)
(* <<c, k-1>> (recv), <<c, k>> (send) and <<c, k+1>> (next).  A message says  *)
(* <<c, k>> for both that key and, implicitly, the next.  Chain 0 stands for  *)
(* keys whose private halves are thrown away.                               *)
(*                                                                         *)
(* Nonces are left out: under one pair of keys they only grow, and all that  *)
(* the check on them does is to drop a packet overtaken by another of the    *)
(* same pair of keys.  Messages are received in any order; a lost message is *)
(* one that is never received.                                              *)
(***************************************************************************)
EXTENDS Integers, Sequences

CONSTANTS A, B,       \* the two nodes
          None,       \* no session or no buffer
          MaxTime,    \* bound on each node's clock, in seconds
          MaxKey,     \* bound on the keys of a chain after which none is rotated
          MaxEvents   \* bound on writes, cleanups and restarts

Node == {A, B}

Peer(n) == IF n = A THEN B ELSE A

Key == Nat \X Nat

Payload == {"data", "probe", "ack"}

SessionInfo ==
    [chain : Nat, local_key_seq : Nat, current : Key, remote_key_seq : Nat, seq : Nat,
     rotated : BOOLEAN]

SessionBuffer == [chain : Nat, seq : Nat \ {0}, payload : Payload]

ASSUME SessionAssumption ==
    /\ A # B
    /\ None \notin SessionInfo \cup SessionBuffer
    /\ {MaxTime, MaxKey, MaxEvents} \subseteq Nat

VARIABLES end,     \* a node's session and buffer for the other, and its chains so far
          writer,  \* the write_to under way at a node, between two locks
          now,     \* the clock of a node
          net,     \* messages sent and not received, by receiver
          events   \* writes, cleanups and restarts so far

vars == <<end, writer, now, net, events>>

(***************************************************************************)
(* Messages.                                                               *)
(***************************************************************************)
\* SessionInit::new() and encrypt(), for a session or buffer's keys.
Handshake(type, chain, key, seq) == [type |-> type, chain |-> chain, key |-> key, seq |-> seq]

InitFor(s, t) == Handshake("Init", s.chain, s.local_key_seq, t)

AckFor(s, t) == Handshake("Ack", s.chain, s.local_key_seq, t)

\* do_send(): sealed with send_priv for the other's current key.
Traffic(s, p) ==
    [type |-> "Traffic", sealer |-> <<s.chain, s.local_key_seq>>, opener |-> s.current,
     local_key_seq |-> s.local_key_seq, remote_key_seq |-> s.remote_key_seq, payload |-> p]

(***************************************************************************)
(* SessionInfo.                                                            *)
(***************************************************************************)
Successor(key) == <<key[1], key[2] + 1>>

\* new(), with the send and next keys of the given chain.
NewSession(chain, m) ==
    [chain |-> chain, local_key_seq |-> 0, current |-> <<m.chain, m.key>>,
     remote_key_seq |-> 0, seq |-> m.seq - 1, rotated |-> FALSE]

\* handle_update()
HandleUpdate(s, m) ==
    [s EXCEPT !.current = <<m.chain, m.key>>, !.remote_key_seq = m.key, !.seq = m.seq,
              !.local_key_seq = @ + 1]

\* maybe_ratchet_on_recv(), at most once a minute.
MaybeRatchetOnRecv(s) ==
    IF s.rotated THEN s
    ELSE [s EXCEPT !.current = Successor(@), !.remote_key_seq = @ + 1,
                   !.local_key_seq = @ + 1, !.rotated = TRUE]

FromCurrent(s, m) == m.local_key_seq = s.remote_key_seq
FromNext(s, m) == m.local_key_seq = s.remote_key_seq + 1
ToRecv(s, m) == m.remote_key_seq + 1 = s.local_key_seq
ToSend(s, m) == m.remote_key_seq = s.local_key_seq

\* recv_snapshot() picks a pair of keys by the numbers in the header, and
\* decrypt_outside_lock() opens the packet if it was sealed with that pair.
Opens(s, m) ==
    \/ /\ FromCurrent(s, m) /\ ToRecv(s, m)
       /\ m.sealer = s.current /\ m.opener = <<s.chain, s.local_key_seq - 1>>
    \/ /\ FromNext(s, m) /\ ToSend(s, m)
       /\ m.sealer = Successor(s.current) /\ m.opener = <<s.chain, s.local_key_seq>>
    \/ /\ FromNext(s, m) /\ ToRecv(s, m)
       /\ m.sealer = Successor(s.current) /\ m.opener = <<s.chain, s.local_key_seq - 1>>

\* Mutant: a packet under the current key rotates the keys, too.
RecvFinalizeAlways(s, m) == MaybeRatchetOnRecv(s)

\* recv_finalize()
RecvFinalize(s, m) == IF FromNext(s, m) THEN MaybeRatchetOnRecv(s) ELSE s

(***************************************************************************)
(* The handlers of ConcurrentSessionManager: what becomes of the node's end  *)
(* e at time t, the messages sent, in order, and the packets delivered.     *)
(***************************************************************************)
Result(e, out, delivered) == [end |-> e, out |-> out, delivered |-> delivered]

\* Mutant: a packet that does not open is dropped.
HandleTrafficDrop(e, m, t) ==
    LET s == e.session
        r == RecvFinalize(s, m)
    IN CASE s = None -> Result(e, <<Handshake("Init", 0, 0, t)>>, <<>>)
         [] s # None /\ ~Opens(s, m) -> Result(e, <<>>, <<>>)
         [] s # None /\ Opens(s, m) ->
              Result([e EXCEPT !.session = r],
                     IF m.payload = "probe" THEN <<Traffic(r, "ack")>> ELSE <<>>,
                     IF m.payload = "data" THEN <<m.payload>> ELSE <<>>)

\* handle_traffic().  Without a session, an Init whose keys nobody holds.
HandleTraffic(e, m, t) ==
    LET s == e.session
        r == RecvFinalize(s, m)
    IN CASE s = None -> Result(e, <<Handshake("Init", 0, 0, t)>>, <<>>)
         [] s # None /\ ~Opens(s, m) -> Result(e, <<InitFor(s, t)>>, <<>>)
         [] s # None /\ Opens(s, m) ->
              Result([e EXCEPT !.session = r],
                     IF m.payload = "probe" THEN <<Traffic(r, "ack")>> ELSE <<>>,
                     IF m.payload = "data" THEN <<m.payload>> ELSE <<>>)

\* create_session_from_init(): the buffer's keys are used if there is one.
CreateSessionFromInit(e, m) ==
    IF e.buffer = None
    THEN [e EXCEPT !.session = NewSession(e.chains + 1, m), !.chains = @ + 1]
    ELSE [e EXCEPT !.session = NewSession(e.buffer.chain, m), !.buffer = None]

\* The data waiting in the buffer, sent in the session s.
Buffered(e, s) == IF e.buffer = None THEN <<>> ELSE <<Traffic(s, e.buffer.payload)>>

\* handle_init().  A new session takes over the keys of the Init, but not its
\* key_seq and seq.
HandleInit(e, m, t) ==
    LET s == e.session
        updated == HandleUpdate(s, m)
        created == CreateSessionFromInit(e, m)
    IN CASE s # None /\ m.seq <= s.seq -> Result(e, <<>>, <<>>)
         [] s # None /\ m.seq > s.seq ->
              Result([e EXCEPT !.session = updated], <<AckFor(updated, t)>>, <<>>)
         [] s = None ->
              Result(created, Buffered(e, created.session) \o <<AckFor(created.session, t)>>, <<>>)

\* handle_ack().  A new session is updated at once.
HandleAck(e, m, t) ==
    LET s == e.session
        created == CreateSessionFromInit(e, m)
        updated == HandleUpdate(created.session, m)
    IN CASE s # None /\ m.seq <= s.seq -> Result(e, <<>>, <<>>)
         [] s # None /\ m.seq > s.seq ->
              Result([e EXCEPT !.session = HandleUpdate(s, m)], <<>>, <<>>)
         [] s = None ->
              Result([created EXCEPT !.session = updated],
                     <<AckFor(updated, t)>> \o Buffered(e, updated), <<>>)

\* handle_data()
HandleData(e, m, t) ==
    CASE m.type = "Init" -> HandleInit(e, m, t)
      [] m.type = "Ack" -> HandleAck(e, m, t)
      [] m.type = "Traffic" -> HandleTraffic(e, m, t)

\* buffer_and_init(): the Init of the buffer is sent again for every packet.
BufferAndInit(e, p, t) ==
    LET buffer == IF e.buffer = None
                  THEN [chain |-> e.chains + 1, seq |-> t, payload |-> p]
                  ELSE [e.buffer EXCEPT !.payload = p]
    IN Result([e EXCEPT !.buffer = buffer, !.chains = IF e.buffer = None THEN @ + 1 ELSE @],
              <<Handshake("Init", buffer.chain, 0, buffer.seq)>>, <<>>)

(***************************************************************************)
(* Actions.                                                                *)
(***************************************************************************)
\* No write under way; the next is one of the application's packets.
Idle == [step |-> "idle", payload |-> "data"]

NoEnd == [session |-> None, buffer |-> None, chains |-> 0]

Init ==
    /\ end = [n \in Node |-> NoEnd]
    /\ writer = [n \in Node |-> Idle]
    /\ now = [n \in Node |-> 1]
    /\ net = [n \in Node |-> {}]
    /\ events = 0

\* encrypted_reader_loop, the one task that handles what arrives.
Receive(n, m) ==
    LET r == HandleData(end[n], m, now[n]) IN
    /\ m \in net[n]
    /\ end' = [end EXCEPT ![n] = r.end]
    /\ net' = [net EXCEPT ![n] = @ \ {m}, ![Peer(n)] = @ \cup {r.out[i] : i \in DOMAIN r.out}]
    /\ UNCHANGED <<writer, now, events>>

\* keepalive_send_if_session(), up to its call of write_to.
Keepalive(n) ==
    /\ writer[n] = Idle
    /\ end[n].session # None
    /\ events < MaxEvents
    /\ events' = events + 1
    /\ writer' = [writer EXCEPT ![n] = [step |-> "look", payload |-> "probe"]]
    /\ UNCHANGED <<end, now, net>>

\* write_to(), of a packet or a keepalive probe: the look-up of the session.
WriteTo(n) ==
    LET p == writer[n].payload IN
    /\ \/ writer[n].step = "idle" /\ events < MaxEvents /\ events' = events + 1
       \/ writer[n].step = "look" /\ UNCHANGED events
    /\ IF end[n].session # None
       THEN /\ net' = [net EXCEPT ![Peer(n)] = @ \cup {Traffic(end[n].session, p)}]
            /\ writer' = [writer EXCEPT ![n] = Idle]
       ELSE /\ writer' = [writer EXCEPT ![n] = [step |-> "buffer", payload |-> p]]
            /\ UNCHANGED net
    /\ UNCHANGED <<end, now>>

\* write_to() that found no session, under the lock of the buffers.
WriteBuffer(n) ==
    LET r == BufferAndInit(end[n], writer[n].payload, now[n]) IN
    /\ writer[n].step = "buffer"
    /\ end' = [end EXCEPT ![n] = r.end]
    /\ net' = [net EXCEPT ![Peer(n)] = @ \cup {r.out[i] : i \in DOMAIN r.out}]
    /\ writer' = [writer EXCEPT ![n] = Idle]
    /\ UNCHANGED <<now, events>>

\* cleanup_expired(): the session, the buffer or both have timed out.
CleanupExpired(n, session, buffer) ==
    /\ events < MaxEvents
    /\ session \/ buffer
    /\ session => end[n].session # None
    /\ buffer => end[n].buffer # None
    /\ end' = [end EXCEPT ![n].session = IF session THEN None ELSE @,
                          ![n].buffer = IF buffer THEN None ELSE @]
    /\ events' = events + 1
    /\ UNCHANGED <<writer, now, net>>

\* close() and new(): nothing of the sessions outlives the process.
Restart(n) ==
    /\ events < MaxEvents
    /\ end[n].session # None \/ end[n].buffer # None
    /\ end' = [end EXCEPT ![n].session = None, ![n].buffer = None]
    /\ writer' = [writer EXCEPT ![n] = Idle]
    /\ events' = events + 1
    /\ UNCHANGED <<now, net>>

\* A minute has passed since the session's keys were rotated.
RotationDue(n) ==
    /\ end[n].session # None
    /\ end[n].session.rotated
    /\ end[n].session.local_key_seq < MaxKey
    /\ end' = [end EXCEPT ![n].session.rotated = FALSE]
    /\ UNCHANGED <<writer, now, net, events>>

\* The clock that SessionInit::new() takes its seq from.
Tick(n) ==
    /\ now[n] < MaxTime
    /\ now' = [now EXCEPT ![n] = @ + 1]
    /\ UNCHANGED <<end, writer, net, events>>

Next ==
    \E n \in Node :
        \/ \E m \in net[n] : Receive(n, m)
        \/ Keepalive(n) \/ WriteTo(n) \/ WriteBuffer(n)
        \/ \E session, buffer \in BOOLEAN : CleanupExpired(n, session, buffer)
        \/ Restart(n) \/ RotationDue(n) \/ Tick(n)

Spec == Init /\ [][Next]_vars

(***************************************************************************)
(* Properties.                                                             *)
(***************************************************************************)
HandshakeMessage == [type : {"Init", "Ack"}, chain : Nat, key : Nat, seq : Nat \ {0}]

TrafficMessage ==
    [type : {"Traffic"}, sealer : Key, opener : Key, local_key_seq : Nat,
     remote_key_seq : Nat, payload : Payload]

End ==
    [session : SessionInfo \cup {None}, buffer : SessionBuffer \cup {None}, chains : Nat]

\* Type correctness.
TypeOK ==
    /\ end \in [Node -> End]
    /\ writer \in [Node -> [step : {"idle", "look", "buffer"}, payload : Payload]]
    /\ now \in [Node -> Nat \ {0}]
    /\ net \in [Node -> SUBSET (HandshakeMessage \cup TrafficMessage)]
    /\ events \in Nat

\* The node with end e has sent with this key, or can now, if its chain is still
\* in use.
Drawn(e, key) ==
    \/ key[1] = 0
    \/ /\ key[1] \in 1..e.chains
       /\ e.session # None /\ e.session.chain = key[1] => key[2] <= e.session.local_key_seq
       /\ e.buffer # None /\ e.buffer.chain = key[1] => key[2] = 0

\* What a session believes of the other node is never ahead of that node: the key
\* it takes for the other's current one has been drawn, whatever updates and
\* ratchets led to it, and the seq it compares an Init with is not later than the
\* other's clock, so that an Init of the next second is never taken for stale.
NeverAhead ==
    \A n \in Node : LET s == end[n].session IN
        s # None => Drawn(end[Peer(n)], s.current) /\ s.seq <= now[Peer(n)]

\* The chains of a node's session and buffer are its own and differ.
ChainsOwn(e) ==
    /\ e.session # None => e.session.chain \in 1..e.chains
    /\ e.buffer # None => e.buffer.chain \in 1..e.chains
    /\ e.session # None /\ e.buffer # None => e.session.chain # e.buffer.chain

\* A message from a node with end e and clock t is not ahead of it either.
Sent(e, t, m) ==
    \/ m \in HandshakeMessage /\ Drawn(e, <<m.chain, m.key>>) /\ m.seq <= t
    \/ m \in TrafficMessage /\ Drawn(e, m.sealer)

\* The inductive invariant behind NeverAhead.
IInv ==
    /\ TypeOK
    /\ NeverAhead
    /\ \A n \in Node :
        /\ ChainsOwn(end[n])
        /\ end[n].buffer # None => end[n].buffer.seq <= now[n]
        /\ \A m \in net[n] : Sent(end[Peer(n)], now[Peer(n)], m)
=============================================================================
