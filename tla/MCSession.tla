----------------------------- MODULE MCSession -----------------------------
(***************************************************************************)
(* Session for TLC, and what it takes to get a packet through from any state *)
(* that it reaches.                                                        *)
(***************************************************************************)
EXTENDS Session, TLC

CONSTANTS Rounds,   \* packets a node writes, a second apart, until one arrives
          Messages  \* bound on the messages that one packet gives rise to

Symmetry == Permutations({A, B})

\* The two nodes with what is under way lost and their buffers timed out, from
\* now on joined by a network that loses nothing and keeps messages in order.
Quiet == [end |-> [n \in Node |-> [end[n] EXCEPT !.buffer = None]], now |-> now, queue |-> [n \in Node |-> <<>>], delivered |-> {}]

Applied(g, n, r) ==
    [g EXCEPT !.end[n] = r.end, !.queue[Peer(n)] = @ \o r.out,
              !.delivered = IF r.delivered = <<>> THEN @ ELSE @ \cup {n}]

\* The next message to either node is handled.
Handled(g) ==
    LET busy == {n \in Node : g.queue[n] # <<>>} IN
    IF busy = {} THEN {g}
    ELSE {Applied([g EXCEPT !.queue[n] = Tail(@)], n,
                  HandleData(g.end[n], Head(g.queue[n]), g.now[n])) : n \in busy}

\* Both clocks tick, then n writes a packet.
Written(g, n) ==
    LET h == [g EXCEPT !.now = [x \in Node |-> @[x] + 1], !.delivered = {}] IN
    IF h.end[n].session # None
    THEN [h EXCEPT !.queue[Peer(n)] = Append(@, Traffic(h.end[n].session, "data"))]
    ELSE Applied(h, n, BufferAndInit(h.end[n], "data", h.now[n]))

\* All that can come of writing a packet.
Outcomes(g, n) ==
    LET handled[i \in 0..Messages] ==
            IF i = 0 THEN {Written(g, n)} ELSE UNION {Handled(h) : h \in handled[i - 1]}
    IN handled[Messages]

\* All that can come of writing so many packets.
After(G, n, rounds) ==
    LET outcome[i \in 0..rounds] ==
            IF i = 0 THEN G ELSE UNION {Outcomes(h, n) : h \in outcome[i - 1]}
    IN outcome[rounds]

\* The last of the packets that n writes arrives, and so does the next.
GetsThrough(n) ==
    \A h \in After({Quiet}, n, Rounds) :
        /\ Peer(n) \in h.delivered
        /\ \A x \in Node : h.queue[x] = <<>>
        /\ \A k \in Outcomes(h, n) : Peer(n) \in k.delivered

\* Two nodes find back to a working session by themselves: whatever was lost,
\* reordered, expired or restarted before, once messages arrive and the buffers
\* have timed out, the Init sent for a packet that does not open and the Acks
\* that answer it bring the keys of both in step.  The third packet of a node
\* that writes one every second arrives, and no exchange goes on for ever.
Recovers == (\A n \in Node : writer[n] = Idle) => \A n \in Node : GetsThrough(n)
=============================================================================
