----------------------------- MODULE TreeProofs -----------------------------
(***************************************************************************)
(* Proofs about Tree, for every mesh: any nodes, connections and nonces,   *)
(* any number of disconnections, expiries, refreshes and restarts: the     *)
(* CRDT order, what each operation does, type correctness, and what a      *)
(* router may rely on about itself and, once it has marked an announcement *)
(* as sent, about its peers.                                               *)
(***************************************************************************)
EXTENDS Tree, TLAPS

(***************************************************************************)
(* The CRDT order of update() is a strict total order on infos, with the   *)
(* absent info at the bottom.                                              *)
(***************************************************************************)

\* An info that supersedes one that covers a third covers the third.
LEMMA CoversTransitive ==
    ASSUME NEW a \in Info, NEW b \in Info, NEW d \in Info, Covers(a, b), Covers(b, d)
    PROVE  Covers(a, d)
  BY DEF Covers, Newer, Info, Announced, NoInfo

\* update() refuses an announcement only for one it knows that covers it.
LEMMA CoversTotal ==
    ASSUME NEW a \in Info, NEW b \in Info, ~Newer(a, b)
    PROVE  Covers(b, a)
  BY DEF Covers, Newer, Info, Announced, NoInfo

\* Every info covers the absent one.
LEMMA CoversNothing ==
    ASSUME NEW a \in Info
    PROVE  Covers(a, NoInfo)
  BY DEF Covers, Newer, Info, Announced, NoInfo

(***************************************************************************)
(* Connections and frames.                                                 *)
(***************************************************************************)

\* A connection joins a node with exactly one other.
LEMMA OtherEnd ==
    ASSUME NEW c \in Conn, NEW n \in Node
    PROVE  /\ Other(c, n) \in Node
           /\ Other(c, n) # n
           /\ Other(c, n) \in Ends[c]
           /\ n \in Ends[c] => Ends[c] = {n, Other(c, n)} /\ Other(c, Other(c, n)) = n
  <1>1. PICK a \in Node, b \in Node : a # b /\ Ends[c] = {a, b}
    BY ConnAssumption
  <1>2. \E m \in Ends[c] : m # n
    BY <1>1
  <1>3. Other(c, n) \in Ends[c] /\ Other(c, n) # n
    BY <1>2 DEF Other
  <1>4. ASSUME n \in Ends[c] PROVE Ends[c] = {n, Other(c, n)} /\ Other(c, Other(c, n)) = n
    <2>1. Ends[c] = {n, Other(c, n)}
      BY <1>1, <1>3, <1>4
    <2>2. \A m \in Ends[c] : m # Other(c, n) => m = n
      BY <2>1
    <2>3. \E m \in Ends[c] : m # Other(c, n)
      BY <1>3, <1>4
    <2>4. Other(c, Other(c, n)) \in Ends[c] /\ Other(c, Other(c, n)) # Other(c, n)
      BY <2>3 DEF Other
    <2> QED
      BY <2>1, <2>2, <2>4
  <1> QED
    BY <1>1, <1>3, <1>4

\* A frame is what its constructor makes it.
LEMMA FrameTypes ==
    /\ \A r \in Asked : SigReq(r) \in Frame /\ SigRes(r) \in Frame
    /\ \A k \in Node, i \in Announced : Announce(k, i) \in Frame
    /\ \A f \in Frame : f.type # "Announce" => f.req \in Asked
    /\ \A f \in Frame : f.type = "Announce" => f.key \in Node /\ f.info \in Announced
  BY DEF SigReq, SigRes, Announce, Frame

\* Links lead from the node that has them to its peers, which are nodes.
LEMMA LinkEnds ==
    ASSUME NEW n \in Node
    PROVE  /\ \A c \in Links(n) : c \in Conn /\ n \in Ends[c] /\ side[c][n] = "up"
                                  /\ Other(c, n) \in PeerKeys(n)
           /\ PeerKeys(n) \subseteq Node \ {n}
           /\ \A p \in PeerKeys(n) : \E c \in Links(n) : Other(c, n) = p
  BY OtherEnd DEF Links, PeerKeys

(***************************************************************************)
(* What a maintenance pass does, whichever way fix() takes.                *)
(***************************************************************************)

\* A request always asks for a seq of at least 1.
LEMMA NewReqAsked ==
    ASSUME NEW n \in Node, NEW inf \in [Node -> Info]
    PROVE  NewReq(n, inf) \subseteq Asked /\ NewReq(n, inf) # {}
  <1>1. inf[n].seq \in Nat
    BY DEF Info, Announced, NoInfo
  <1>2. \A x \in Nonce : [seq |-> inf[n].seq + 1, nonce |-> x] \in Asked
    BY <1>1, NonceAssumption DEF Asked
  <1> QED
    BY <1>2, NonceAssumption, Zenon DEF NewReq

\* Whoever select_parent() returns is a node.
LEMMA SelectedNode ==
    ASSUME NEW n \in Node, NEW inf, NEW refreshing, NEW p \in SelectParent(n, inf, refreshing)
    PROVE  p \in Node
  <1>1. Retained(n, inf) => ParentIn(inf, n) \in Node
    BY LinkEnds DEF Retained
  <1>2. Candidates(n, inf) \subseteq Node
    BY DEF Candidates
  <1> QED
    BY <1>1, <1>2 DEF SelectParent

\* A pass keeps the view it starts from or advances the node's own info in it,
\* then announces; it keeps the open requests or replaces them all.
FixOutcome(n, inf, told, new, base) ==
    \/ new = inf /\ base = told
    \/ \E i \in Announced : /\ Newer(i, inf[n])
                            /\ new = Update(inf, n, i)
                            /\ base = Unsent(told, n)

PassOutcome(n, inf, told, new, base, ask) ==
    /\ SendAnnounces(n, new, base, ask)
    /\ FixOutcome(n, inf, told, new, base)
    /\ \/ UNCHANGED <<requests, responses>>
       \/ \E r \in [PeerKeys(n) -> Asked] : SendReqs(n, r)
    /\ refresh' \in [Node -> BOOLEAN]
    /\ doRoot1' \in [Node -> BOOLEAN]
    /\ doRoot2' \in [Node -> BOOLEAN]

Asks == {SigReq(r) : r \in Asked}

\* fix() with an own info that update() accepts.
LEMMA SettleOutcome ==
    ASSUME TypeOK, NEW n \in Node,
           NEW inf \in [Node -> Info], NEW told \in [Node -> SUBSET Node],
           NEW i \in Announced, Newer(i, inf[n]), Settle(n, i, inf, told)
    PROVE  \E new \in [Node -> Info], base \in [Node -> SUBSET Node],
              ask \in [PeerKeys(n) -> SUBSET Asks] : PassOutcome(n, inf, told, new, base, ask)
  <1> DEFINE new == Update(inf, n, i)
             base == Unsent(told, n)
  <1>1. new \in [Node -> Info] /\ base \in [Node -> SUBSET Node]
    BY DEF Update, Unsent, Info
  <1>2. PICK r \in [PeerKeys(n) -> NewReq(n, new)] :
           /\ SendReqs(n, r)
           /\ SendAnnounces(n, new, base, [p \in PeerKeys(n) |-> {SigReq(r[p])}])
           /\ refresh' = [refresh EXCEPT ![n] = FALSE]
           /\ doRoot1' = [doRoot1 EXCEPT ![n] = FALSE]
           /\ doRoot2' = [doRoot2 EXCEPT ![n] = FALSE]
    BY Zenon DEF Settle
  <1> DEFINE ask == [p \in PeerKeys(n) |-> {SigReq(r[p])}]
  <1>3. r \in [PeerKeys(n) -> Asked]
    BY <1>1, <1>2, NewReqAsked
  <1>4. ask \in [PeerKeys(n) -> SUBSET Asks]
    BY <1>3 DEF Asks
  <1>5. /\ refresh' \in [Node -> BOOLEAN]
        /\ doRoot1' \in [Node -> BOOLEAN]
        /\ doRoot2' \in [Node -> BOOLEAN]
    BY <1>2 DEF TypeOK
  <1>6. FixOutcome(n, inf, told, new, base)
    BY DEF FixOutcome
  <1>7. PassOutcome(n, inf, told, new, base, ask)
    BY <1>2, <1>3, <1>5, <1>6 DEF PassOutcome
  <1> QED
    BY <1>1, <1>4, <1>7

\* Whatever select_parent() returns, a maintenance pass ends in one of the
\* outcomes that PassOutcome describes: the tree as it was, or fixed.
LEMMA PassEffect ==
    ASSUME TypeOK, NEW n \in Node, NEW timer \in Timers,
           NEW inf \in [Node -> Info], NEW told \in [Node -> SUBSET Node],
           Pass(n, timer, inf, told)
    PROVE  \E new \in [Node -> Info], base \in [Node -> SUBSET Node],
              ask \in [PeerKeys(n) -> SUBSET Asks] : PassOutcome(n, inf, told, new, base, ask)
  <1> DEFINE none == [p \in PeerKeys(n) |-> {}]
  <1>0. none \in [PeerKeys(n) -> SUBSET Asks]
    OBVIOUS
  <1>1. PICK best \in SelectParent(n, inf, Refreshing(n, timer)) :
          \/ /\ SendAnnounces(n, inf, told, none)
             /\ UNCHANGED <<requests, responses, refresh, doRoot1, doRoot2>>
          \/ /\ CanAdopt(n, best, inf)
             /\ Settle(n, UseResponse(n, best), inf, told)
          \/ \E x \in Nonce :
               Settle(n, [seq |-> inf[n].seq + 1, parent |-> n, nonce |-> x], inf, told)
          \/ /\ SendAnnounces(n, inf, told, none)
             /\ refresh' = [refresh EXCEPT ![n] = Refreshing(n, timer)]
             /\ doRoot1' = [doRoot1 EXCEPT ![n] = TRUE]
             /\ UNCHANGED <<requests, responses, doRoot2>>
    BY Zenon DEF Pass
  <1>2. CASE /\ SendAnnounces(n, inf, told, none)
             /\ UNCHANGED <<requests, responses, refresh, doRoot1, doRoot2>>
    <2>1. PassOutcome(n, inf, told, inf, told, none)
      BY <1>2 DEF PassOutcome, FixOutcome, TypeOK
    <2> QED
      BY <1>0, <2>1
  <1>3. CASE CanAdopt(n, best, inf) /\ Settle(n, UseResponse(n, best), inf, told)
    <2>1. best \in Node
      BY SelectedNode
    <2>2. responses[n][best] \in Asked
      BY <1>3, <2>1 DEF CanAdopt, TypeOK, Req
    <2>3. UseResponse(n, best) \in Announced
      BY <2>1, <2>2, NodeAssumption DEF UseResponse, Announced, Asked
    <2>4. Newer(UseResponse(n, best), inf[n])
      BY <1>3 DEF CanAdopt
    <2> QED
      BY <1>3, <2>3, <2>4, SettleOutcome
  <1>4. CASE \E x \in Nonce :
               Settle(n, [seq |-> inf[n].seq + 1, parent |-> n, nonce |-> x], inf, told)
    <2>1. PICK x \in Nonce :
            Settle(n, [seq |-> inf[n].seq + 1, parent |-> n, nonce |-> x], inf, told)
      BY <1>4
    <2> DEFINE i == [seq |-> inf[n].seq + 1, parent |-> n, nonce |-> x]
    <2>2. inf[n].seq \in Nat
      BY DEF Info, Announced, NoInfo
    <2>3. i \in Announced /\ Newer(i, inf[n])
      BY <2>2, NodeAssumption, NonceAssumption DEF Announced, Newer
    <2> QED
      BY <2>1, <2>3, SettleOutcome, Zenon
  <1>5. CASE /\ SendAnnounces(n, inf, told, none)
             /\ refresh' = [refresh EXCEPT ![n] = Refreshing(n, timer)]
             /\ doRoot1' = [doRoot1 EXCEPT ![n] = TRUE]
             /\ UNCHANGED <<requests, responses, doRoot2>>
    <2>1. Refreshing(n, timer) \in BOOLEAN
      BY DEF Refreshing, TypeOK
    <2>2. PassOutcome(n, inf, told, inf, told, none)
      BY <1>5, <2>1 DEF PassOutcome, FixOutcome, TypeOK
    <2> QED
      BY <1>0, <2>2
  <1> QED
    BY <1>1, <1>2, <1>3, <1>4, <1>5, Zenon

\* send_announces() only announces infos that the node holds.
LEMMA ToSendHeld ==
    ASSUME NEW n, NEW p, NEW inf, NEW told
    PROVE  ToSend(n, p, inf, told) \subseteq {k \in Node : inf[k] # NoInfo}
  BY DEF ToSend, Ancestry

\* The frames that send_announces() adds to a link towards x.
Outgoing(n, x, new, base, ask) ==
    ask[x] \cup {Announce(k, new[k]) : k \in ToSend(n, x, new, base)}

\* What a pass puts on the wire is well formed, and what it announces is what
\* the node then knows.
LEMMA OutgoingFrames ==
    ASSUME NEW n \in Node, NEW new \in [Node -> Info], NEW base,
           NEW ask \in [PeerKeys(n) -> SUBSET Asks], NEW x \in PeerKeys(n)
    PROVE  /\ Outgoing(n, x, new, base, ask) \subseteq Frame
           /\ \A f \in Outgoing(n, x, new, base, ask) :
                 f.type = "Announce" => f.info = new[f.key]
  <1>1. \A k \in ToSend(n, x, new, base) : k \in Node /\ new[k] \in Announced
    BY ToSendHeld DEF Info
  <1>2. \A k \in ToSend(n, x, new, base) :
           Announce(k, new[k]) \in Frame /\ Announce(k, new[k]).info = new[Announce(k, new[k]).key]
    BY <1>1 DEF Announce, Frame
  <1>3. \A f \in Asks : f \in Frame /\ f.type # "Announce"
    BY SMTT(40) DEF Asks, SigReq, Frame
  <1> QED
    BY <1>2, <1>3 DEF Outgoing

\* send_announces() puts the outgoing frames on every link whose far end is
\* open, and touches no other wire.
SendEffects(n, new, base, ask) ==
    /\ infos' = [infos EXCEPT ![n] = new]
    /\ sent' = [sent EXCEPT ![n] = [p \in Node |->
                   IF p \in PeerKeys(n) THEN base[p] \cup ToSend(n, p, new, base) ELSE base[p]]]
    /\ \A c \in Links(n) : side[c][Other(c, n)] # "down" =>
         net'[c][Other(c, n)] =
             net[c][Other(c, n)] \cup Outgoing(n, Other(c, n), new, base, ask)
    /\ \A c \in Conn, x \in Node :
         \/ net'[c][x] = net[c][x]
         \/ /\ c \in Links(n) /\ x = Other(c, n)
            /\ net'[c][x] = net[c][x] \cup Outgoing(n, x, new, base, ask)
    /\ net' \in [Conn -> [Node -> SUBSET Frame]]

\* send_announces() has these effects.
LEMMA SendEffect ==
    ASSUME TypeOK, NEW n \in Node,
           NEW new \in [Node -> Info], NEW base \in [Node -> SUBSET Node],
           NEW ask \in [PeerKeys(n) -> SUBSET Asks],
           SendAnnounces(n, new, base, ask)
    PROVE  SendEffects(n, new, base, ask)
  <1> DEFINE out == [c \in Links(n) |-> LET p == Other(c, n) IN
                        ask[p] \cup {Announce(k, new[k]) : k \in ToSend(n, p, new, base)}]
  <1>1. net' = [c \in Conn |-> [x \in Node |->
                  IF c \in Links(n) /\ x = Other(c, n) /\ side[c][x] # "down"
                  THEN net[c][x] \cup out[c] ELSE net[c][x]]]
    BY DEF SendAnnounces, After
  <1>2. \A c \in Links(n) : out[c] = Outgoing(n, Other(c, n), new, base, ask)
    BY DEF Outgoing
  <1>3. \A c \in Links(n) : Outgoing(n, Other(c, n), new, base, ask) \subseteq Frame
    BY LinkEnds, OutgoingFrames
  <1> HIDE DEF out
  <1>4. \A c \in Conn, x \in Node :
            /\ net'[c][x] = IF c \in Links(n) /\ x = Other(c, n) /\ side[c][x] # "down"
                            THEN net[c][x] \cup Outgoing(n, x, new, base, ask) ELSE net[c][x]
            /\ net'[c][x] \subseteq Frame
    <2> SUFFICES ASSUME NEW c \in Conn, NEW x \in Node
                 PROVE  /\ net'[c][x] = IF c \in Links(n) /\ x = Other(c, n) /\ side[c][x] # "down"
                                        THEN net[c][x] \cup Outgoing(n, x, new, base, ask) ELSE net[c][x]
                        /\ net'[c][x] \subseteq Frame
      OBVIOUS
    <2>1. net[c][x] \subseteq Frame
      BY DEF TypeOK
    <2>2. net'[c][x] = IF c \in Links(n) /\ x = Other(c, n) /\ side[c][x] # "down"
                       THEN net[c][x] \cup out[c] ELSE net[c][x]
      BY <1>1
    <2>3. CASE c \in Links(n) /\ x = Other(c, n) /\ side[c][x] # "down"
      <3>1. net'[c][x] = net[c][x] \cup Outgoing(n, x, new, base, ask)
        BY <1>2, <2>2, <2>3, Zenon
      <3>2. Outgoing(n, x, new, base, ask) \subseteq Frame
        BY <1>3, <2>3, Zenon
      <3>3. net'[c][x] \subseteq Frame
        BY <2>1, <3>1, <3>2, Zenon
      <3> QED
        BY <2>3, <3>1, <3>3, Zenon
    <2>4. CASE ~(c \in Links(n) /\ x = Other(c, n) /\ side[c][x] # "down")
      BY <2>1, <2>2, <2>4, Zenon
    <2> QED
      BY <2>3, <2>4, Zenon
  <1>5. net' \in [Conn -> [Node -> SUBSET Frame]]
    BY <1>1, <1>4, Zenon
  <1>6. \A c \in Links(n) : side[c][Other(c, n)] # "down" =>
           net'[c][Other(c, n)] = net[c][Other(c, n)] \cup Outgoing(n, Other(c, n), new, base, ask)
    BY <1>4, LinkEnds, Zenon
  <1>7. \A c \in Conn, x \in Node :
           \/ net'[c][x] = net[c][x]
           \/ /\ c \in Links(n) /\ x = Other(c, n)
              /\ net'[c][x] = net[c][x] \cup Outgoing(n, x, new, base, ask)
    BY <1>4, Zenon
  <1> QED
    BY <1>5, <1>6, <1>7, Zenon DEF SendAnnounces, SendEffects

\* Every kind of maintenance pass: expire, fix, announce.
Unexpired(n, expired) == [k \in Node |-> IF k \in expired THEN NoInfo ELSE infos[n][k]]
StillSent(n, expired) == [p \in Node |-> sent[n][p] \ expired]

Maintenance(n, expired, new, base, ask) ==
    /\ PassOutcome(n, Unexpired(n, expired), StillSent(n, expired), new, base, ask)
    /\ lost' = [lost EXCEPT ![n] = @ \cup expired]
    /\ events' \in Nat
    /\ UNCHANGED <<side, intact, reborn>>

\* Both forms of the maintenance pass are a pass over the infos that have not
\* expired; the own info never does.
LEMMA MaintainEffect ==
    ASSUME TypeOK, NEW n \in Node, Maintain(n) \/ MaintainTimed(n)
    PROVE  \E expired \in SUBSET (Node \ {n}), new \in [Node -> Info], base \in [Node -> SUBSET Node],
              ask \in [PeerKeys(n) -> SUBSET Asks] : Maintenance(n, expired, new, base, ask)
  <1>0. \A e \in SUBSET (Node \ {n}) :
           Unexpired(n, e) \in [Node -> Info] /\ StillSent(n, e) \in [Node -> SUBSET Node]
    BY DEF TypeOK, Unexpired, StillSent, Info
  <1>1. CASE Maintain(n)
    <2>1. Unexpired(n, {}) = infos[n] /\ StillSent(n, {}) = sent[n]
      BY DEF TypeOK, Unexpired, StillSent
    <2>2. Pass(n, "none", Unexpired(n, {}), StillSent(n, {})) /\ UNCHANGED <<side, events, historyVars>>
      BY <1>1, <2>1 DEF Maintain
    <2>3. PICK new \in [Node -> Info], base \in [Node -> SUBSET Node],
               ask \in [PeerKeys(n) -> SUBSET Asks] :
                  PassOutcome(n, Unexpired(n, {}), StillSent(n, {}), new, base, ask)
      BY <1>0, <2>2, PassEffect, Zenon DEF Timers
    <2>4. lost' = [lost EXCEPT ![n] = @ \cup {}]
      BY <2>2 DEF TypeOK, historyVars
    <2>5. Maintenance(n, {}, new, base, ask)
      BY <2>2, <2>3, <2>4, Zenon DEF Maintenance, TypeOK, historyVars
    <2> QED
      BY <2>5
  <1>2. CASE MaintainTimed(n)
    <2>1. PICK timer \in Timers, expired \in SUBSET {k \in Node \ {n} : infos[n][k] # NoInfo} :
             /\ Pass(n, timer, Unexpired(n, expired), StillSent(n, expired))
             /\ lost' = [lost EXCEPT ![n] = @ \cup expired]
      BY <1>2, Zenon DEF MaintainTimed, Unexpired, StillSent
    <2>2. expired \in SUBSET (Node \ {n})
      BY Zenon
    <2>3. PICK new \in [Node -> Info], base \in [Node -> SUBSET Node],
               ask \in [PeerKeys(n) -> SUBSET Asks] :
                  PassOutcome(n, Unexpired(n, expired), StillSent(n, expired), new, base, ask)
      BY <1>0, <2>1, <2>2, PassEffect, Zenon
    <2>4. events' \in Nat /\ UNCHANGED <<side, intact, reborn>>
      BY <1>2, SMTT(40) DEF MaintainTimed, TypeOK
    <2>5. Maintenance(n, expired, new, base, ask)
      BY <2>1, <2>3, <2>4 DEF Maintenance
    <2> QED
      BY <2>2, <2>5
  <1> QED
    BY <1>1, <1>2

(***************************************************************************)
(* Type correctness.                                                       *)
(***************************************************************************)

\* The far end of the connection a frame arrives on.
LEMMA SentTyped ==
    ASSUME TypeOK, NEW n \in Node, NEW p \in Node, NEW k \in Node, NEW told \in [Node -> SUBSET Node]
    PROVE  Told(n, p, k, told) \in [Node -> SUBSET Node] /\ Unsent(told, k) \in [Node -> SUBSET Node]
  BY DEF Told, Unsent

\* Replacing what one wire carries keeps the wires well formed.
LEMMA WireTyped ==
    ASSUME NEW wire \in [Conn -> [Node -> SUBSET Frame]],
           NEW c \in Conn, NEW x \in Node, NEW s \in SUBSET Frame
    PROVE  [wire EXCEPT ![c][x] = s] \in [Conn -> [Node -> SUBSET Frame]]
  BY Zenon

\* So do the tables by node and peer, when an entry or a row is replaced.
LEMMA EntryCleared ==
    ASSUME NEW table \in [Node -> [Node -> SUBSET Node]], NEW n \in Node, NEW m \in Node
    PROVE  [table EXCEPT ![n][m] = {}] \in [Node -> [Node -> SUBSET Node]]
  BY Zenon

\* A row of the table of keys that were sent.
LEMMA SentRowTyped ==
    ASSUME NEW table \in [Node -> [Node -> SUBSET Node]], NEW n \in Node, NEW row \in [Node -> SUBSET Node]
    PROVE  [table EXCEPT ![n] = row] \in [Node -> [Node -> SUBSET Node]]
  BY Zenon

\* A request that is put into the table of requests.
LEMMA ReqTyped ==
    ASSUME NEW table \in [Node -> [Node -> Req]], NEW n \in Node, NEW m \in Node, NEW r \in Req
    PROVE  [table EXCEPT ![n][m] = r] \in [Node -> [Node -> Req]]
  BY Zenon

\* The types of the tables, without the rest of the type invariant.
LEMMA TableTypes ==
    ASSUME TypeOK
    PROVE  /\ infos \in [Node -> [Node -> Info]]
           /\ sent \in [Node -> [Node -> SUBSET Node]]
           /\ intact \in [Node -> [Node -> BOOLEAN]]
  BY Zenon DEF TypeOK

\* What a node finds on a wire is a frame.
LEMMA ArrivedFrame ==
    ASSUME TypeOK, NEW n \in Node, NEW c \in Conn, NEW f \in net[c][n]
    PROVE  f \in Frame
  <1>1. net \in [Conn -> [Node -> SUBSET Frame]]
    BY Zenon DEF TypeOK
  <1> QED
    BY <1>1

\* Taking a frame off the wire and answering it keep the wires well formed.
LEMMA ReplyTyped ==
    ASSUME TypeOK, NEW n \in Node, NEW c \in Conn, NEW f, NEW out \in SUBSET Frame
    PROVE  /\ Take(n, c, f) \in [Conn -> [Node -> SUBSET Frame]]
           /\ Reply(n, c, f, out) \in [Conn -> [Node -> SUBSET Frame]]
  <1>1. Take(n, c, f) \in [Conn -> [Node -> SUBSET Frame]]
    BY DEF Take, TypeOK
  <1>2. Other(c, n) \in Node
    BY OtherEnd
  <1> QED
    BY <1>1, <1>2 DEF Reply

\* The routers start out type-correct.
LEMMA TypeInit == Init => TypeOK
  BY SMTT(40) DEF Init, TypeOK, Info, Req

\* Every step of a router keeps the types.
LEMMA TypeStep == TypeOK /\ [Next]_vars => TypeOK'
  <1> SUFFICES ASSUME TypeOK, [Next]_vars PROVE TypeOK'
    OBVIOUS
  <1>1. CASE UNCHANGED vars
    BY <1>1, Zenon DEF TypeOK, vars, routerVars, historyVars
  <1>2. ASSUME NEW n \in Node, NEW c \in Conn, AddPeer(n, c) PROVE TypeOK'
    <2> DEFINE p == Other(c, n)
               again == {Announce(k, infos[n][k]) :
                            k \in {x \in sent[n][p] : p \in PeerKeys(n) /\ infos[n][x] # NoInfo}}
    <2>1. p \in Node
      BY OtherEnd
    <2>2. \A k \in {x \in sent[n][p] : p \in PeerKeys(n) /\ infos[n][x] # NoInfo} :
             k \in Node /\ infos[n][k] \in Announced
      BY <2>1, SMTT(40) DEF TypeOK, Info
    <2>3. again \subseteq Frame
      BY <2>2, FrameTypes
    <2>4. PICK r \in IF requests[n][p] = NoReq THEN NewReq(n, infos[n]) ELSE {requests[n][p]} :
             /\ requests' = [requests EXCEPT ![n][p] = r]
             /\ net' = IF side[c][p] = "down" THEN net
                       ELSE [net EXCEPT ![c][p] = @ \cup again \cup {SigReq(r)}]
      BY <1>2, Zenon DEF AddPeer
    <2>5. r \in Asked
      <3>1. requests[n][p] \in Req /\ infos[n] \in [Node -> Info]
        BY <2>1, SMTT(40) DEF TypeOK
      <3>2. NewReq(n, infos[n]) \subseteq Asked
        BY <3>1, NewReqAsked
      <3> QED
        BY <2>4, <3>1, <3>2 DEF Req
    <2>6. SigReq(r) \in Frame
      BY <2>5, FrameTypes
    <2> HIDE DEF again
    <2>7. net' \in [Conn -> [Node -> SUBSET Frame]]
      <3>1. net \in [Conn -> [Node -> SUBSET Frame]]
        BY Zenon DEF TypeOK
      <3>2. net[c][p] \cup again \cup {SigReq(r)} \in SUBSET Frame
        BY <2>1, <2>3, <2>6, <3>1
      <3>3. [net EXCEPT ![c][p] = net[c][p] \cup again \cup {SigReq(r)}]
               \in [Conn -> [Node -> SUBSET Frame]]
        BY <2>1, <3>1, <3>2, WireTyped, Zenon
      <3>4. net' = net \/ net' = [net EXCEPT ![c][p] = net[c][p] \cup again \cup {SigReq(r)}]
        BY <2>4, Zenon
      <3> QED
        BY <3>1, <3>3, <3>4, Zenon
    <2>8. requests' \in [Node -> [Node -> Req]]
      BY <2>1, <2>4, <2>5, Zenon DEF TypeOK, Req
    <2>9. /\ side' \in [Conn -> [Node -> {"new", "up", "down"}]]
          /\ sent' \in [Node -> [Node -> SUBSET Node]]
      BY <1>2, <2>1, Zenon DEF TypeOK, AddPeer
    <2>10. intact' \in [Node -> [Node -> BOOLEAN]]
      <3>1. intact' = [intact EXCEPT ![n][p] = (p \in PeerKeys(n) => intact[n][p]) /\ side[c][p] # "down"]
        BY <1>2, <2>1 DEF AddPeer, TypeOK
      <3> QED
        BY <2>1, <3>1, Zenon DEF TypeOK
    <2> QED
      BY <1>2, <2>7, <2>8, <2>9, <2>10, Zenon DEF TypeOK, AddPeer
  <1>3. ASSUME NEW n \in Node, NEW c \in Conn, RemovePeer(n, c) PROVE TypeOK'
    <2>1. Other(c, n) \in Node
      BY OtherEnd
    <2>2. NoReq \in Req
      BY DEF Req
    <2>3. /\ sent' \in [Node -> [Node -> SUBSET Node]]
          /\ requests' \in [Node -> [Node -> Req]]
          /\ responses' \in [Node -> [Node -> Req]]
          /\ side' \in [Conn -> [Node -> {"new", "up", "down"}]]
          /\ events' \in Nat
      <3>1. \/ UNCHANGED events
            \/ events' = events + 1
        BY <1>3, Zenon DEF RemovePeer
      <3>2. events \in Nat
        BY Zenon DEF TypeOK
      <3>3. events' \in Nat
        BY <3>1, <3>2
      <3>4. sent' = sent \/ sent' = [sent EXCEPT ![n][Other(c, n)] = {}]
        BY <1>3, Zenon DEF RemovePeer
      <3>5. sent' \in [Node -> [Node -> SUBSET Node]]
        <4>1. sent \in [Node -> [Node -> SUBSET Node]] /\ {} \in SUBSET Node
          BY Zenon DEF TypeOK
        <4>2. [sent EXCEPT ![n][Other(c, n)] = {}] \in [Node -> [Node -> SUBSET Node]]
          BY <2>1, <4>1, EntryCleared, Zenon
        <4> QED
          BY <3>4, <4>1, <4>2, Zenon
      <3>6. /\ requests' = requests \/ requests' = [requests EXCEPT ![n][Other(c, n)] = NoReq]
            /\ responses' = responses \/ responses' = [responses EXCEPT ![n][Other(c, n)] = NoReq]
        BY <1>3, Zenon DEF RemovePeer
      <3>7. requests' \in [Node -> [Node -> Req]]
        <4>1. requests \in [Node -> [Node -> Req]]
          BY Zenon DEF TypeOK
        <4>2. [requests EXCEPT ![n][Other(c, n)] = NoReq] \in [Node -> [Node -> Req]]
          BY <2>1, <2>2, <4>1, ReqTyped, Zenon
        <4> QED
          BY <3>6, <4>1, <4>2, Zenon
      <3>8. responses' \in [Node -> [Node -> Req]]
        <4>1. responses \in [Node -> [Node -> Req]]
          BY Zenon DEF TypeOK
        <4>2. [responses EXCEPT ![n][Other(c, n)] = NoReq] \in [Node -> [Node -> Req]]
          BY <2>1, <2>2, <4>1, ReqTyped, Zenon
        <4> QED
          BY <3>6, <4>1, <4>2, Zenon
      <3>9. side' \in [Conn -> [Node -> {"new", "up", "down"}]]
        BY <1>3, Zenon DEF RemovePeer, TypeOK
      <3> QED
        BY <3>3, <3>5, <3>7, <3>8, <3>9
    <2>4. intact' \in [Node -> [Node -> BOOLEAN]]
      BY <1>3, <2>1, Zenon DEF RemovePeer, TypeOK
    <2> QED
      BY <1>3, <2>3, <2>4, Zenon DEF RemovePeer, TypeOK
  <1>4. ASSUME NEW n \in Node, NEW c \in Conn, NEW f \in net[c][n], HandleRequest(n, c, f) PROVE TypeOK'
    <2>1. f.req \in Asked
      <3>1. f \in Frame /\ f.type = "SigReq"
        BY <1>4, ArrivedFrame, Zenon DEF HandleRequest
      <3> QED
        BY <3>1, FrameTypes
    <2>2. net' \in [Conn -> [Node -> SUBSET Frame]]
      BY <1>4, <2>1, FrameTypes, ReplyTyped, Zenon DEF HandleRequest
    <2> QED
      BY <1>4, <2>2, Zenon DEF HandleRequest, TypeOK, routerVars, historyVars
  <1>5. ASSUME NEW n \in Node, NEW c \in Conn, NEW f \in net[c][n], HandleResponse(n, c, f) PROVE TypeOK'
    <2>1. f.req \in Req /\ Other(c, n) \in Node
      <3>1. f \in Frame /\ f.type = "SigRes"
        BY <1>5, ArrivedFrame, Zenon DEF HandleResponse
      <3>2. f.req \in Asked
        BY <3>1, FrameTypes
      <3> QED
        BY <3>2, OtherEnd DEF Req
    <2>2. net' \in [Conn -> [Node -> SUBSET Frame]]
      BY <1>5, ReplyTyped, Zenon DEF HandleResponse
    <2>3. responses' \in [Node -> [Node -> Req]]
      BY <1>5, <2>1 DEF HandleResponse, TypeOK
    <2> QED
      BY <1>5, <2>2, <2>3, Zenon DEF HandleResponse, TypeOK, historyVars
  <1>6. ASSUME NEW n \in Node, NEW c \in Conn, NEW f \in net[c][n], HandleAnnounce(n, c, f) PROVE TypeOK'
    <2>1. f.key \in Node /\ f.info \in Announced /\ Other(c, n) \in Node
      <3>1. f \in Frame
        BY ArrivedFrame, Zenon
      <3> QED
        BY <1>6, <3>1, FrameTypes, OtherEnd DEF HandleAnnounce
    <2>2. intact' \in [Node -> [Node -> BOOLEAN]]
      BY <1>6, <2>1, Zenon DEF HandleAnnounce, TypeOK
    <2>3. CASE AcceptAnnounce(n, c, f)
      <3>1. infos' \in [Node -> [Node -> Info]]
        BY <2>1, <2>3 DEF AcceptAnnounce, Update, TypeOK, Info
      <3>2. sent' \in [Node -> [Node -> SUBSET Node]]
        BY <2>1, <2>3, SentTyped, Zenon DEF AcceptAnnounce, TypeOK
      <3>3. net' \in [Conn -> [Node -> SUBSET Frame]]
        BY <2>3, ReplyTyped, Zenon DEF AcceptAnnounce
      <3>4. refresh' \in [Node -> BOOLEAN]
        BY <2>3, Zenon DEF AcceptAnnounce, TypeOK
      <3> QED
        BY <1>6, <2>2, <3>1, <3>2, <3>3, <3>4, Zenon DEF HandleAnnounce, TypeOK
    <2>4. CASE RejectAnnounce(n, c, f)
      <3>1. infos[n][f.key] \in Announced
        <4>1. infos[n][f.key] \in Info /\ ~Newer(f.info, infos[n][f.key])
          <5>1. ~Newer(f.info, infos[n][f.key])
            BY <2>4, Zenon DEF RejectAnnounce
          <5>2. infos[n][f.key] \in Info
            BY <2>1, SMTT(40) DEF TypeOK
          <5> QED
            BY <5>1, <5>2, Zenon
        <4>2. Newer(f.info, NoInfo)
          BY <2>1 DEF Newer, NoInfo, Announced
        <4> QED
          BY <4>1, <4>2 DEF Info
      <3>2. net' \in [Conn -> [Node -> SUBSET Frame]]
        <4>1. {Announce(f.key, infos[n][f.key])} \in SUBSET Frame
          BY <2>1, <3>1, FrameTypes
        <4>2. \/ net' = Take(n, c, f)
              \/ net' = Reply(n, c, f, {Announce(f.key, infos[n][f.key])})
          BY <2>4, Zenon DEF RejectAnnounce
        <4> DEFINE out == {Announce(f.key, infos[n][f.key])}
        <4> HIDE DEF out
        <4>3. /\ Take(n, c, f) \in [Conn -> [Node -> SUBSET Frame]]
              /\ Reply(n, c, f, out) \in [Conn -> [Node -> SUBSET Frame]]
          BY <4>1, ReplyTyped, Zenon DEF out
        <4> QED
          BY <4>2, <4>3, Zenon DEF out
      <3>3. sent' \in [Node -> [Node -> SUBSET Node]]
        BY <2>1, <2>4, SentTyped, Zenon DEF RejectAnnounce, TypeOK
      <3> QED
        BY <1>6, <2>2, <2>4, <3>2, <3>3, ZenonT(60) DEF HandleAnnounce, RejectAnnounce, TypeOK
    <2> QED
      BY <1>6, <2>3, <2>4, Zenon DEF HandleAnnounce
  <1>7. ASSUME NEW n \in Node, Maintain(n) \/ MaintainTimed(n) PROVE TypeOK'
    <2>1. PICK expired \in SUBSET (Node \ {n}), new \in [Node -> Info], base \in [Node -> SUBSET Node],
               ask \in [PeerKeys(n) -> SUBSET Asks] : Maintenance(n, expired, new, base, ask)
      BY <1>7, MaintainEffect
    <2>2. PassOutcome(n, Unexpired(n, expired), StillSent(n, expired), new, base, ask)
      BY <2>1 DEF Maintenance
    <2>3. SendAnnounces(n, new, base, ask)
      BY <2>2 DEF PassOutcome
    <2>. SendEffects(n, new, base, ask)
      BY <2>3, SendEffect, Zenon
    <2>4. net' \in [Conn -> [Node -> SUBSET Frame]] /\ infos' \in [Node -> [Node -> Info]]
      <3>1. net' \in [Conn -> [Node -> SUBSET Frame]] /\ infos' = [infos EXCEPT ![n] = new]
        BY Zenon DEF SendEffects
      <3> QED
        BY <3>1, Zenon DEF TypeOK
    <2>5. sent' \in [Node -> [Node -> SUBSET Node]]
      <3> DEFINE row == [p \in Node |-> IF p \in PeerKeys(n)
                                        THEN base[p] \cup ToSend(n, p, new, base) ELSE base[p]]
      <3>1. sent' = [sent EXCEPT ![n] = row]
        BY Zenon DEF SendEffects
      <3>2. row \in [Node -> SUBSET Node]
        <4>1. \A p \in Node : base[p] \in SUBSET Node
          OBVIOUS
        <4>2. \A p \in Node : ToSend(n, p, new, base) \in SUBSET Node
          BY ToSendHeld
        <4> QED
          BY <4>1, <4>2
      <3> HIDE DEF row
      <3>3. sent \in [Node -> [Node -> SUBSET Node]]
        BY Zenon DEF TypeOK
      <3>4. [sent EXCEPT ![n] = row] \in [Node -> [Node -> SUBSET Node]]
        BY <3>2, <3>3, SentRowTyped, Zenon
      <3> QED
        BY <3>1, <3>4, Zenon
    <2>6. /\ requests' \in [Node -> [Node -> Req]]
          /\ responses' \in [Node -> [Node -> Req]]
      <3>1. CASE UNCHANGED <<requests, responses>>
        BY <3>1, Zenon DEF TypeOK
      <3>2. ASSUME NEW r \in [PeerKeys(n) -> Asked], SendReqs(n, r)
            PROVE /\ requests' \in [Node -> [Node -> Req]]
                  /\ responses' \in [Node -> [Node -> Req]]
        BY <3>2, Zenon DEF SendReqs, TypeOK, Req
      <3> QED
        BY <2>2, <3>1, <3>2, Zenon DEF PassOutcome
    <2>7. /\ lost' \in [Node -> SUBSET Node]
          /\ events' \in Nat
          /\ UNCHANGED <<side, intact, reborn>>
      BY <2>1 DEF Maintenance, TypeOK
    <2>8. /\ refresh' \in [Node -> BOOLEAN]
          /\ doRoot1' \in [Node -> BOOLEAN]
          /\ doRoot2' \in [Node -> BOOLEAN]
      BY <2>2 DEF PassOutcome
    <2> QED
      BY <2>4, <2>5, <2>6, <2>7, <2>8, Zenon DEF TypeOK
  <1>8. ASSUME NEW n \in Node, Restart(n) PROVE TypeOK'
    <2>1. NoReq \in Req /\ NoInfo \in Info
      BY DEF Req, Info
    <2>2. side' \in [Conn -> [Node -> {"new", "up", "down"}]]
      BY <1>8, Zenon DEF Restart, TypeOK
    <2>3. net' \in [Conn -> [Node -> SUBSET Frame]]
      BY <1>8, Zenon DEF Restart, TypeOK
    <2>4. intact' \in [Node -> [Node -> BOOLEAN]]
      BY <1>8, Zenon DEF Restart, TypeOK
    <2>5. /\ infos' \in [Node -> [Node -> Info]]
          /\ sent' \in [Node -> [Node -> SUBSET Node]]
          /\ requests' \in [Node -> [Node -> Req]]
          /\ responses' \in [Node -> [Node -> Req]]
      BY <1>8, <2>1, Zenon DEF Restart, TypeOK
    <2>6. /\ refresh' \in [Node -> BOOLEAN]
          /\ doRoot1' \in [Node -> BOOLEAN]
          /\ doRoot2' \in [Node -> BOOLEAN]
      BY <1>8, Zenon DEF Restart, TypeOK
    <2>7. events' \in Nat
      <3>1. events' = events + 1 /\ events \in Nat
        BY <1>8, Zenon DEF Restart, TypeOK
      <3> QED
        BY <3>1
    <2>8. lost' \in [Node -> SUBSET Node] /\ reborn' \in SUBSET Node
      BY <1>8, Zenon DEF Restart, TypeOK
    <2> QED
      BY <2>2, <2>3, <2>4, <2>5, <2>6, <2>7, <2>8, Zenon DEF TypeOK
  <1> QED
    BY <1>1, <1>2, <1>3, <1>4, <1>5, <1>6, <1>7, <1>8 DEF Next, Receive

\* The router's state keeps its types in every mesh: in particular no absent
\* info is ever put in a frame, and no request for seq 0 is ever made.
THEOREM TypeCorrect == Spec => []TypeOK
  BY TypeInit, TypeStep, PTL DEF Spec

(***************************************************************************)
(* What a router may rely on about itself: its requests and their answers, *)
(* and its own announcements.                                              *)
(***************************************************************************)

(***************************************************************************)
(* How the links change.                                                   *)
(***************************************************************************)
\* add_peer() gives one node one more link.
LEMMA LinksAdded ==
    ASSUME TypeOK, NEW n \in Node, NEW c \in Conn, AddPeer(n, c)
    PROVE  \A m \in Node : Links(m)' = IF m = n THEN Links(n) \cup {c} ELSE Links(m)
  <1>1. n \in Ends[c] /\ side' = [side EXCEPT ![c][n] = "up"]
    BY Zenon DEF AddPeer
  <1> QED
    BY <1>1, Zenon DEF Links, TypeOK

\* remove_peer() takes one link from one node.
LEMMA LinksRemoved ==
    ASSUME TypeOK, NEW n \in Node, NEW c \in Conn, RemovePeer(n, c)
    PROVE  \A m \in Node : Links(m)' = IF m = n THEN Links(n) \ {c} ELSE Links(m)
  <1>1. side' = [side EXCEPT ![c][n] = "down"]
    BY Zenon DEF RemovePeer
  <1> QED
    BY <1>1, Zenon DEF Links, TypeOK

\* A restart leaves the node, and only it, without links.
LEMMA LinksRestarted ==
    ASSUME TypeOK, NEW n \in Node, Restart(n)
    PROVE  \A m \in Node : Links(m)' = IF m = n THEN {} ELSE Links(m)
  <1>1. side' = [c \in Conn |-> IF n \in Ends[c] /\ InUse(c)
                                THEN [side[c] EXCEPT ![n] = "down"] ELSE side[c]]
    BY Zenon DEF Restart
  <1>2. \A c \in Links(n) : InUse(c)
    BY DEF Links, InUse
  <1>3. Links(n)' = {}
    BY <1>1, <1>2, Zenon DEF Links, TypeOK
  <1>4. \A m \in Node, c \in Conn : m # n => side'[c][m] = side[c][m]
    BY <1>1, Zenon DEF TypeOK
  <1>5. \A m \in Node : m # n => Links(m)' = Links(m)
    BY <1>4 DEF Links
  <1> QED
    BY <1>3, <1>5

\* The peers of a node are determined by its links.
LEMMA PeerKeysStep ==
    ASSUME NEW m \in Node, Links(m)' = Links(m)
    PROVE  PeerKeys(m)' = PeerKeys(m) /\ \A p \in Node : LinksTo(m, p)' = LinksTo(m, p)
  BY DEF PeerKeys, LinksTo, Other

\* A step that adds and removes no connection leaves all links as they are.
LEMMA SameSide ==
    ASSUME UNCHANGED side, NEW m \in Node
    PROVE  /\ Links(m)' = Links(m) /\ PeerKeys(m)' = PeerKeys(m)
           /\ \A p \in Node : LinksTo(m, p)' = LinksTo(m, p)
  BY DEF Links, PeerKeys, LinksTo, Other

(***************************************************************************)
(* Requests and their answers.                                             *)
(***************************************************************************)
\* Every step keeps requests and answers current: remove_peer() and send_reqs()
\* forget both together, handle_response() compares before it stores.
LEMMA ResponsesStep == TypeOK /\ ResponsesCurrent /\ [Next]_vars => ResponsesCurrent'
  <1> SUFFICES ASSUME TypeOK, ResponsesCurrent, [Next]_vars PROVE ResponsesCurrent'
    OBVIOUS
  <1>0. ASSUME UNCHANGED <<side, requests, responses>> PROVE ResponsesCurrent'
    BY <1>0, SameSide DEF ResponsesCurrent
  <1>1. CASE UNCHANGED vars
    BY <1>0, <1>1 DEF vars, routerVars
  <1>2. ASSUME NEW n \in Node, NEW c \in Conn, AddPeer(n, c) PROVE ResponsesCurrent'
    <2> DEFINE p == Other(c, n)
    <2>1. p \in Node
      BY OtherEnd
    <2>2. PICK r \in IF requests[n][p] = NoReq THEN NewReq(n, infos[n]) ELSE {requests[n][p]} :
             requests' = [requests EXCEPT ![n][p] = r]
      BY <1>2, Zenon DEF AddPeer
    <2>3. r # NoReq /\ (requests[n][p] # NoReq => r = requests[n][p])
      <3>1. infos[n] \in [Node -> Info]
        BY DEF TypeOK
      <3>2. NewReq(n, infos[n]) \subseteq Asked
        BY <3>1, NewReqAsked
      <3> QED
        BY <2>2, <3>2 DEF Asked, NoReq
    <2>4. UNCHANGED responses
      BY <1>2, Zenon DEF AddPeer
    <2>5. \A m \in Node : PeerKeys(m)' = IF m = n THEN PeerKeys(n) \cup {p} ELSE PeerKeys(m)
      BY <1>2, LinksAdded DEF PeerKeys, Other
    <2>6. \A m, x \in Node : requests'[m][x] = IF m = n /\ x = p THEN r ELSE requests[m][x]
      BY <2>1, <2>2, Zenon DEF TypeOK
    <2> QED
      BY <2>1, <2>3, <2>4, <2>5, <2>6 DEF ResponsesCurrent
  <1>3. ASSUME NEW n \in Node, NEW c \in Conn, RemovePeer(n, c) PROVE ResponsesCurrent'
    <2> DEFINE p == Other(c, n)
               last == LinksTo(n, p) = {c}
    <2>1. p \in Node /\ c \in Links(n)
      BY <1>3, OtherEnd, Zenon DEF RemovePeer
    <2>2. \A m \in Node : PeerKeys(m)' = IF m = n /\ last THEN PeerKeys(n) \ {p} ELSE PeerKeys(m)
      <3>1. \A m \in Node : Links(m)' = IF m = n THEN Links(n) \ {c} ELSE Links(m)
        BY <1>3, LinksRemoved
      <3>2. PeerKeys(n)' = {Other(d, n) : d \in Links(n) \ {c}}
        BY <3>1 DEF PeerKeys, Other
      <3>3. CASE last
        BY <2>1, <3>1, <3>2, <3>3, PeerKeysStep DEF PeerKeys, LinksTo
      <3>4. CASE ~last
        <4>1. PICK d \in Links(n) \ {c} : Other(d, n) = p
          BY <2>1, <3>4 DEF LinksTo
        <4>2. PeerKeys(n)' = PeerKeys(n)
          BY <3>2, <4>1 DEF PeerKeys
        <4> QED
          BY <3>1, <4>2, <3>4, PeerKeysStep, Zenon
      <3> QED
        BY <3>3, <3>4, Zenon
    <2>3. /\ requests' = IF last THEN [requests EXCEPT ![n][p] = NoReq] ELSE requests
          /\ responses' = IF last THEN [responses EXCEPT ![n][p] = NoReq] ELSE responses
      BY <1>3, Zenon DEF RemovePeer
    <2>4. \A m, x \in Node :
            /\ requests'[m][x] = IF last /\ m = n /\ x = p THEN NoReq ELSE requests[m][x]
            /\ responses'[m][x] = IF last /\ m = n /\ x = p THEN NoReq ELSE responses[m][x]
      BY <2>1, <2>3, Zenon DEF TypeOK
    <2> QED
      BY <2>1, <2>2, <2>4 DEF ResponsesCurrent
  <1>4. ASSUME NEW n \in Node, NEW c \in Conn, NEW f \in net[c][n], HandleRequest(n, c, f)
        PROVE ResponsesCurrent'
    BY <1>0, <1>4, Zenon DEF HandleRequest, routerVars
  <1>5. ASSUME NEW n \in Node, NEW c \in Conn, NEW f \in net[c][n], HandleResponse(n, c, f)
        PROVE ResponsesCurrent'
    <2>1. Other(c, n) \in Node
      BY OtherEnd
    <2>2. UNCHANGED <<side, requests>>
      BY <1>5 DEF HandleResponse
    <2>3. \A m, x \in Node : \/ responses'[m][x] = responses[m][x]
                             \/ responses'[m][x] = requests[m][x]
      BY <1>5, <2>1, Zenon DEF HandleResponse, TypeOK
    <2> QED
      BY <2>2, <2>3, SameSide, ZenonT(60) DEF ResponsesCurrent
  <1>6. ASSUME NEW n \in Node, NEW c \in Conn, NEW f \in net[c][n], HandleAnnounce(n, c, f)
        PROVE ResponsesCurrent'
    BY <1>0, <1>6 DEF HandleAnnounce
  <1>7. ASSUME NEW n \in Node, Maintain(n) \/ MaintainTimed(n) PROVE ResponsesCurrent'
    <2>1. PICK expired \in SUBSET (Node \ {n}), new \in [Node -> Info], base \in [Node -> SUBSET Node],
               ask \in [PeerKeys(n) -> SUBSET Asks] : Maintenance(n, expired, new, base, ask)
      BY <1>7, MaintainEffect
    <2>2. UNCHANGED side
      BY <2>1 DEF Maintenance
    <2>3. CASE UNCHANGED <<requests, responses>>
      BY <1>0, <2>2, <2>3
    <2>4. ASSUME NEW r \in [PeerKeys(n) -> Asked], SendReqs(n, r) PROVE ResponsesCurrent'
      <3>1. /\ requests' = [requests EXCEPT ![n] =
                              [p \in Node |-> IF p \in PeerKeys(n) THEN r[p] ELSE NoReq]]
            /\ responses' = [responses EXCEPT ![n] = [p \in Node |-> NoReq]]
        BY <2>4 DEF SendReqs
      <3>2. \A p \in Node : requests'[n][p] = IF p \in PeerKeys(n) THEN r[p] ELSE NoReq
        BY <3>1, Zenon DEF TypeOK
      <3>3. \A p \in PeerKeys(n) : r[p] # NoReq
        BY DEF Asked, NoReq
      <3>4. /\ \A p \in Node : responses'[n][p] = NoReq
            /\ \A m, p \in Node : m # n => /\ requests'[m][p] = requests[m][p]
                                           /\ responses'[m][p] = responses[m][p]
        BY <3>1, Zenon DEF TypeOK
      <3>5. \A m \in Node : PeerKeys(m)' = PeerKeys(m)
        BY <2>2, SameSide
      <3> QED
        BY <3>2, <3>3, <3>4, <3>5 DEF ResponsesCurrent
    <2> QED
      BY <2>1, <2>3, <2>4, Zenon DEF Maintenance, PassOutcome
  <1>8. ASSUME NEW n \in Node, Restart(n) PROVE ResponsesCurrent'
    <2>1. /\ PeerKeys(n)' = {}
          /\ \A m \in Node : m # n => PeerKeys(m)' = PeerKeys(m)
      BY <1>8, LinksRestarted DEF PeerKeys, Other
    <2>2. /\ \A p \in Node : requests'[n][p] = NoReq /\ responses'[n][p] = NoReq
          /\ \A m, p \in Node : m # n => /\ requests'[m][p] = requests[m][p]
                                         /\ responses'[m][p] = responses[m][p]
      BY <1>8, Zenon DEF Restart, TypeOK
    <2> QED
      BY <2>1, <2>2 DEF ResponsesCurrent
  <1> QED
    BY <1>1, <1>2, <1>3, <1>4, <1>5, <1>6, <1>7, <1>8, Zenon DEF Next, Receive

\* Requests are open for exactly the peers, and only their answers are kept.
THEOREM ResponsesCurrentHolds == Spec => []ResponsesCurrent
  <1>1. Init => ResponsesCurrent
    BY DEF Init, ResponsesCurrent, PeerKeys, Links
  <1> QED
    BY <1>1, TypeCorrect, ResponsesStep, PTL DEF Spec

(***************************************************************************)
(* Where infos and announcements come from, in any step: a node takes an   *)
(* info from a frame or, its own, makes it; an announcement is put on a    *)
(* link with the info its sender then holds; and what a node knows grows   *)
(* in the CRDT order, unless it expires or the node restarts.              *)
(***************************************************************************)
InfoSource ==
    \A m, k \in Node :
        \/ infos'[m][k] \in {infos[m][k], NoInfo}
        \/ m = k
        \/ \E c \in Conn : \E f \in net[c][m] :
              f.type = "Announce" /\ f.key = k /\ f.info = infos'[m][k]

FrameSource ==
    \A c \in Conn, m \in Node : \A f \in net'[c][m] :
        \/ f \in net[c][m]
        \/ /\ m \in Ends[c] /\ side'[c][Other(c, m)] = "up"
           /\ f.type = "Announce" => f.info = infos'[Other(c, m)][f.key]

Upward ==
    \A m \in Node :
        \/ Restart(m)
        \/ /\ lost[m] \subseteq lost'[m]
           /\ \A k \in Node : \/ Covers(infos'[m][k], infos[m][k])
                              \/ k # m /\ k \in lost'[m]

\* A step that changes no info learns nothing and forgets nothing.
LEMMA NothingLearned ==
    ASSUME UNCHANGED <<infos, lost>>
    PROVE  InfoSource /\ Upward
  BY DEF InfoSource, Upward, Covers

\* Whatever was announced supersedes the absence of an info.
LEMMA NewerThanNone ==
    ASSUME NEW a \in Announced
    PROVE  Newer(a, NoInfo)
  <1>1. a.seq \in Nat \ {0} /\ NoInfo.seq = 0
    BY DEF Announced, NoInfo
  <1>2. a.seq > NoInfo.seq
    BY <1>1
  <1> QED
    BY <1>2, Zenon DEF Newer

\* A handler adds to the wires at most its reply, to the link the frame came by.
LEMMA TakeEffect ==
    ASSUME TypeOK, NEW n \in Node, NEW c \in Conn, NEW f, net' = Take(n, c, f)
    PROVE  /\ net'[c][n] = net[c][n] \ {f}
           /\ \A d \in Conn, x \in Node : <<d, x>> # <<c, n>> => net'[d][x] = net[d][x]
  BY DEF Take, TypeOK

\* A handler that answers takes one frame off the wire and adds its answer to
\* the opposite direction of the same connection.
ReplyEffects(n, c, f, out) ==
    /\ net'[c][n] = net[c][n] \ {f}
    /\ c \in Links(n) /\ side[c][Other(c, n)] # "down"
       => net'[c][Other(c, n)] = net[c][Other(c, n)] \cup out
    /\ \A d \in Conn, x \in Node :
          <<d, x>> # <<c, n>> => \/ net'[d][x] = net[d][x]
                                 \/ /\ d = c /\ x = Other(c, n) /\ c \in Links(n)
                                    /\ net'[d][x] = net[d][x] \cup out

\* A handler has these effects on the frames in flight.
LEMMA ReplyEffect ==
    ASSUME TypeOK, NEW n \in Node, NEW c \in Conn, NEW f, NEW out \in SUBSET Frame,
           net' = Reply(n, c, f, out)
    PROVE  ReplyEffects(n, c, f, out)
  <1>1. Other(c, n) \in Node /\ Other(c, n) # n
    BY OtherEnd, Zenon
  <1>2. /\ Take(n, c, f)[c][n] = net[c][n] \ {f}
        /\ \A d \in Conn, x \in Node : <<d, x>> # <<c, n>> => Take(n, c, f)[d][x] = net[d][x]
    BY Zenon DEF Take, TypeOK
  <1>3. Take(n, c, f) \in [Conn -> [Node -> SUBSET Frame]]
    BY DEF Take, TypeOK
  <1> QED
    BY <1>1, <1>2, <1>3, ZenonT(60) DEF Reply, ReplyEffects

\* What every step keeps to: infos come from a frame or from the node itself,
\* new frames say what their sender knows, and infos only move up or expire.
LEMMA StepFacts ==
    ASSUME TypeOK, [Next]_vars
    PROVE  InfoSource /\ FrameSource /\ Upward
  <1>1. CASE UNCHANGED vars
    BY <1>1, NothingLearned DEF vars, routerVars, historyVars, FrameSource
  <1>2. ASSUME NEW n \in Node, NEW c \in Conn, AddPeer(n, c)
        PROVE  InfoSource /\ FrameSource /\ Upward
    <2> DEFINE p == Other(c, n)
               again == {Announce(k, infos[n][k]) :
                            k \in {x \in sent[n][p] : p \in PeerKeys(n) /\ infos[n][x] # NoInfo}}
    <2>1. UNCHANGED <<infos, lost>>
      BY <1>2, Zenon DEF AddPeer
    <2>2. p \in Node /\ n \in Ends[c] /\ p \in Ends[c] /\ Other(c, p) = n
      BY <1>2, OtherEnd, Zenon DEF AddPeer
    <2>3. PICK r : net' = IF side[c][p] = "down" THEN net
                          ELSE [net EXCEPT ![c][p] = @ \cup again \cup {SigReq(r)}]
      BY <1>2, Zenon DEF AddPeer
    <2>4. \A f \in again \cup {SigReq(r)} : f.type = "Announce" => f.info = infos'[n][f.key]
      BY <2>1 DEF Announce, SigReq
    <2>5. side'[c][n] = "up"
      BY <1>2, Zenon DEF AddPeer, TypeOK
    <2> HIDE DEF again
    <2>6. \A d \in Conn, x \in Node :
              \/ net'[d][x] = net[d][x]
              \/ d = c /\ x = p /\ net'[d][x] = net[d][x] \cup (again \cup {SigReq(r)})
      BY <2>2, <2>3, Zenon DEF TypeOK
    <2>7. FrameSource
      BY <2>2, <2>4, <2>5, <2>6 DEF FrameSource
    <2> QED
      BY <2>1, <2>7, NothingLearned
  <1>3. ASSUME NEW n \in Node, NEW c \in Conn, RemovePeer(n, c)
        PROVE  InfoSource /\ FrameSource /\ Upward
    BY <1>3, NothingLearned, Zenon DEF RemovePeer, FrameSource
  <1>4. ASSUME NEW n \in Node, NEW c \in Conn, NEW f \in net[c][n], HandleRequest(n, c, f)
        PROVE  InfoSource /\ FrameSource /\ Upward
    <2>1. UNCHANGED <<infos, lost, side>> /\ net' = Reply(n, c, f, {SigRes(f.req)})
      BY <1>4 DEF HandleRequest, routerVars, historyVars
    <2>2. {SigRes(f.req)} \in SUBSET Frame
      BY <1>4, FrameTypes DEF HandleRequest, TypeOK
    <2>3. \A d \in Conn, x \in Node : \A g \in net'[d][x] :
             \/ g \in net[d][x]
             \/ d = c /\ x = Other(c, n) /\ c \in Links(n) /\ g = SigRes(f.req)
      <3> DEFINE out == {SigRes(f.req)}
      <3>1. out \in SUBSET Frame /\ net' = Reply(n, c, f, out)
        BY <2>1, <2>2
      <3>2. \A g \in out : g = SigRes(f.req)
        OBVIOUS
      <3> HIDE DEF out
      <3>3. \A d \in Conn, x \in Node :
               \/ net'[d][x] \subseteq net[d][x]
               \/ /\ d = c /\ x = Other(c, n) /\ c \in Links(n)
                  /\ net'[d][x] = net[d][x] \cup out
        <4>1. ReplyEffects(n, c, f, out)
          BY <3>1, ReplyEffect, Zenon
        <4> QED
          BY <4>1, Zenon DEF ReplyEffects
      <3> QED
        BY <3>2, <3>3
    <2>4. c \in Links(n) => Other(c, n) \in Ends[c] /\ Other(c, Other(c, n)) = n /\ side[c][n] = "up"
      BY OtherEnd, LinkEnds, Zenon
    <2>5. FrameSource
      <3>1. SigRes(f.req).type # "Announce"
        BY DEF SigRes
      <3> QED
        BY <2>1, <2>3, <2>4, <3>1, ZenonT(60) DEF FrameSource
    <2> QED
      BY <2>1, <2>5, NothingLearned
  <1>5. ASSUME NEW n \in Node, NEW c \in Conn, NEW f \in net[c][n], HandleResponse(n, c, f)
        PROVE  InfoSource /\ FrameSource /\ Upward
    <2>1. UNCHANGED <<infos, lost, side>> /\ net' = Take(n, c, f)
      BY <1>5 DEF HandleResponse, historyVars
    <2>2. FrameSource
      <3>1. \A d \in Conn, x \in Node : net'[d][x] \subseteq net[d][x]
        BY <2>1, TakeEffect
      <3> QED
        BY <3>1 DEF FrameSource
    <2> QED
      BY <2>1, <2>2, NothingLearned, Zenon
  <1>6. ASSUME NEW n \in Node, NEW c \in Conn, NEW f \in net[c][n], HandleAnnounce(n, c, f)
        PROVE  InfoSource /\ FrameSource /\ Upward
    <2>1. /\ f.key \in Node /\ f.info \in Announced /\ f.type = "Announce"
          /\ UNCHANGED <<lost, side>>
      <3>1. f \in Frame
        BY DEF TypeOK
      <3> QED
        BY <1>6, <3>1, FrameTypes, Zenon DEF HandleAnnounce
    <2>2. CASE AcceptAnnounce(n, c, f)
      <3>1. net' = Take(n, c, f) /\ Newer(f.info, infos[n][f.key])
            /\ infos' = [infos EXCEPT ![n] = [@ EXCEPT ![f.key] = f.info]]
        BY <2>2 DEF AcceptAnnounce, Update
      <3>2. \A m, k \in Node : infos'[m][k] = IF m = n /\ k = f.key THEN f.info ELSE infos[m][k]
        BY <2>1, <3>1, Zenon DEF TypeOK
      <3>3. InfoSource
        BY <2>1, <3>2 DEF InfoSource
      <3>4. FrameSource
        <4>1. \A d \in Conn, x \in Node : net'[d][x] \subseteq net[d][x]
          BY <3>1, TakeEffect
        <4> QED
          BY <4>1 DEF FrameSource
      <3>5. Upward
        BY <2>1, <3>1, <3>2 DEF Upward, Covers
      <3> QED
        BY <3>3, <3>4, <3>5
    <2>3. CASE RejectAnnounce(n, c, f)
      <3> DEFINE g == Announce(f.key, infos[n][f.key])
      <3>1. UNCHANGED infos /\ (net' = Take(n, c, f) \/ net' = Reply(n, c, f, {g}))
            /\ ~Newer(f.info, infos[n][f.key])
        BY <2>3, Zenon DEF RejectAnnounce
      <3>2. g \in Frame
        <4>1. infos[n][f.key] \in Info
          BY <2>1 DEF TypeOK
        <4>2. Newer(f.info, NoInfo)
          BY <2>1, NewerThanNone, Zenon
        <4> QED
          BY <2>1, <3>1, <4>1, <4>2, FrameTypes, Zenon DEF Info
      <3>3. g.info = infos'[n][g.key]
        BY <3>1, Zenon DEF Announce
      <3> HIDE DEF g
      <3>4. \A d \in Conn, x \in Node : \A h \in net'[d][x] :
             \/ h \in net[d][x]
             \/ d = c /\ x = Other(c, n) /\ c \in Links(n) /\ h = g
        <4>1. CASE net' = Take(n, c, f)
          BY <4>1, TakeEffect
        <4>2. CASE net' = Reply(n, c, f, {g})
          <5> DEFINE out == {g}
          <5>1. out \in SUBSET Frame /\ net' = Reply(n, c, f, out)
            BY <3>2, <4>2
          <5>2. \A h \in out : h = g
            OBVIOUS
          <5> HIDE DEF out
          <5>3. \A d \in Conn, x \in Node :
                   \/ net'[d][x] \subseteq net[d][x]
                   \/ /\ d = c /\ x = Other(c, n) /\ c \in Links(n)
                      /\ net'[d][x] = net[d][x] \cup out
            <6>1. ReplyEffects(n, c, f, out)
              BY <5>1, ReplyEffect, Zenon
            <6> QED
              BY <6>1, Zenon DEF ReplyEffects
          <5> QED
            BY <5>2, <5>3
        <4> QED
          BY <3>1, <4>1, <4>2, Zenon
      <3>5. c \in Links(n) => Other(c, n) \in Ends[c] /\ Other(c, Other(c, n)) = n /\ side[c][n] = "up"
        BY OtherEnd, LinkEnds, Zenon
      <3>6. FrameSource
        BY <2>1, <3>3, <3>4, <3>5, Zenon DEF FrameSource
      <3> QED
        BY <2>1, <3>1, <3>6, NothingLearned
    <2> QED
      BY <1>6, <2>2, <2>3 DEF HandleAnnounce
  <1>7. ASSUME NEW n \in Node, Maintain(n) \/ MaintainTimed(n)
        PROVE  InfoSource /\ FrameSource /\ Upward
    <2>1. PICK expired \in SUBSET (Node \ {n}), new \in [Node -> Info], base \in [Node -> SUBSET Node],
               ask \in [PeerKeys(n) -> SUBSET Asks] : Maintenance(n, expired, new, base, ask)
      BY <1>7, MaintainEffect
    <2>2. /\ UNCHANGED side
          /\ lost' = [lost EXCEPT ![n] = @ \cup expired]
          /\ SendAnnounces(n, new, base, ask)
          /\ FixOutcome(n, Unexpired(n, expired), StillSent(n, expired), new, base)
      BY <2>1, Zenon DEF Maintenance, PassOutcome
    <2>3. /\ infos' = [infos EXCEPT ![n] = new]
          /\ \A c \in Conn, x \in Node :
                \/ net'[c][x] = net[c][x]
                \/ /\ c \in Links(n) /\ x = Other(c, n)
                   /\ net'[c][x] = net[c][x] \cup Outgoing(n, x, new, base, ask)
      <3>1. SendEffects(n, new, base, ask)
        BY <2>2, SendEffect, Zenon
      <3> QED
        BY <3>1, Zenon DEF SendEffects
    <2>4. \A m, k \in Node : infos'[m][k] = IF m = n THEN new[k] ELSE infos[m][k]
      BY <2>3, ZenonT(60) DEF TypeOK
    <2>5. /\ Covers(new[n], infos[n][n])
          /\ \A k \in Node \ {n} : new[k] = IF k \in expired THEN NoInfo ELSE infos[n][k]
      BY <2>2, Zenon DEF FixOutcome, Unexpired, Update, Covers
    <2>6. InfoSource
      BY <2>4, <2>5, Zenon DEF InfoSource
    <2>7. Upward
      BY <2>2, <2>4, <2>5, ZenonT(60) DEF Upward, Covers, TypeOK
    <2>8. FrameSource
      <3> SUFFICES ASSUME NEW c \in Conn, NEW x \in Node, NEW f \in net'[c][x], f \notin net[c][x]
                   PROVE  /\ x \in Ends[c] /\ side'[c][Other(c, x)] = "up"
                          /\ f.type = "Announce" => f.info = infos'[Other(c, x)][f.key]
        BY ZenonT(60) DEF FrameSource
      <3>1. c \in Links(n) /\ x = Other(c, n) /\ f \in Outgoing(n, x, new, base, ask)
        BY <2>3, ZenonT(60)
      <3>2. x \in Ends[c] /\ Other(c, x) = n /\ side[c][n] = "up" /\ x \in PeerKeys(n)
        BY <3>1, OtherEnd, LinkEnds, Zenon
      <3>3. f.type = "Announce" => f.info = new[f.key]
        <4>1. \A g \in Outgoing(n, x, new, base, ask) : g.type = "Announce" => g.info = new[g.key]
          <5>1. x \in PeerKeys(n)
            BY <3>2, Zenon
          <5> QED
            BY <5>1, OutgoingFrames
        <4> QED
          BY <3>1, <4>1, Zenon
      <3>4. infos'[n] = new
        BY <2>3, ZenonT(60) DEF TypeOK
      <3> QED
        BY <2>2, <3>2, <3>3, <3>4, Zenon
    <2> QED
      BY <2>6, <2>7, <2>8
  <1>8. ASSUME NEW n \in Node, Restart(n)
        PROVE  InfoSource /\ FrameSource /\ Upward
    <2>1. \A m, k \in Node : infos'[m][k] = IF m = n THEN NoInfo ELSE infos[m][k]
      BY <1>8, Zenon DEF Restart, TypeOK
    <2>2. \A m \in Node \ {n} : lost'[m] = lost[m]
      BY <1>8, Zenon DEF Restart, TypeOK
    <2>3. \A c \in Conn, m \in Node : net'[c][m] = IF m = n THEN {} ELSE net[c][m]
      BY <1>8, Zenon DEF Restart, TypeOK
    <2> QED
      BY <1>8, <2>1, <2>2, <2>3, ZenonT(60) DEF InfoSource, FrameSource, Upward, Covers
  <1> QED
    BY <1>1, <1>2, <1>3, <1>4, <1>5, <1>6, <1>7, <1>8, Zenon DEF Next, Receive

(***************************************************************************)
(* A node's own announcements.                                             *)
(***************************************************************************)

\* A connection never comes back, and a restart closes those in use.
LEMMA SideGrows ==
    ASSUME TypeOK, [Next]_vars
    PROVE  /\ \A c \in Conn, m \in Node :
                 /\ side[c][m] = "down" => side'[c][m] = "down"
                 /\ side[c][m] # "new" => side'[c][m] # "new"
           /\ \A m \in Node : Restart(m) => \A c \in Conn :
                 m \in Ends[c] /\ side[c][m] # "new" => side'[c][m] = "down"
           /\ reborn \subseteq reborn'
  <1> DEFINE Goal == /\ \A c \in Conn, m \in Node :
                           /\ side[c][m] = "down" => side'[c][m] = "down"
                           /\ side[c][m] # "new" => side'[c][m] # "new"
                     /\ reborn \subseteq reborn'
  <1>0. UNCHANGED <<side, reborn>> => Goal
    BY Zenon
  <1>1. ASSUME NEW n \in Node, NEW c \in Conn, AddPeer(n, c) PROVE Goal
    BY <1>1, Zenon DEF AddPeer, TypeOK
  <1>2. ASSUME NEW n \in Node, NEW c \in Conn, RemovePeer(n, c) PROVE Goal
    BY <1>2, Zenon DEF RemovePeer, TypeOK
  <1>3. ASSUME NEW n \in Node, NEW c \in Conn, NEW f \in net[c][n], Receive(n, c, f) PROVE Goal
    BY <1>0, <1>3, Zenon DEF Receive, HandleRequest, HandleResponse, HandleAnnounce, historyVars
  <1>4. ASSUME NEW n \in Node, Maintain(n) \/ MaintainTimed(n) PROVE Goal
    BY <1>0, <1>4, Zenon DEF Maintain, MaintainTimed, historyVars
  <1>5. ASSUME NEW n \in Node, Restart(n) PROVE Goal
    <2>1. /\ side' = [c \in Conn |-> IF n \in Ends[c] /\ InUse(c)
                                     THEN [side[c] EXCEPT ![n] = "down"] ELSE side[c]]
          /\ reborn' = reborn \cup {n}
      BY <1>5, Zenon DEF Restart
    <2> QED
      BY <2>1, Zenon DEF TypeOK
  <1>6. Goal
    BY <1>0, <1>1, <1>2, <1>3, <1>4, <1>5, Zenon DEF Next, vars, historyVars
  <1>7. ASSUME NEW m \in Node, Restart(m), NEW c \in Conn, m \in Ends[c], side[c][m] # "new"
        PROVE  side'[c][m] = "down"
    <2>1. InUse(c)
      BY <1>7 DEF InUse
    <2>2. side' = [d \in Conn |-> IF m \in Ends[d] /\ InUse(d)
                                  THEN [side[d] EXCEPT ![m] = "down"] ELSE side[d]]
      BY <1>7, Zenon DEF Restart
    <2> QED
      BY <1>7, <2>1, <2>2, Zenon DEF TypeOK
  <1> QED
    BY <1>6, <1>7, Zenon

\* Without a restart, a node's own info grows.
LEMMA OwnGrows ==
    ASSUME TypeOK, [Next]_vars, NEW n \in Node
    PROVE  \/ Covers(infos'[n][n], infos[n][n])
           \/ infos'[n][n] = NoInfo /\ n \in reborn'
  <1>1. CASE Restart(n)
    BY <1>1, Zenon DEF Restart, TypeOK
  <1>2. CASE ~Restart(n)
    BY <1>2, StepFacts DEF Upward
  <1> QED
    BY <1>1, <1>2, Zenon

\* Every step keeps each own announcement the newest one of its node.
LEMMA OwnNewestStep ==
    TypeOK /\ TypeOK' /\ OwnInfoNewest /\ [Next]_vars => OwnInfoNewest'
  <1> SUFFICES ASSUME TypeOK, TypeOK', OwnInfoNewest, [Next]_vars, NEW n \in Node \ reborn'
               PROVE  /\ \A m \in Node : Covers(infos'[n][n], infos'[m][n])
                      /\ \A c \in Conn, m \in Node : \A f \in net'[c][m] :
                           f.type = "Announce" /\ f.key = n => Covers(infos'[n][n], f.info)
    BY Zenon DEF OwnInfoNewest
  <1>1. InfoSource /\ FrameSource
    BY StepFacts
  <1>2. n \in Node \ reborn
    BY SideGrows
  <1>3. Covers(infos'[n][n], infos[n][n])
    BY OwnGrows
  <1>4. infos[n][n] \in Info /\ infos'[n][n] \in Info /\ \A m \in Node : infos[m][n] \in Info
    BY DEF TypeOK
  <1>5. \A c \in Conn, m \in Node : \A f \in net[c][m] :
           f.type = "Announce" /\ f.key = n => Covers(infos'[n][n], f.info)
    <2> SUFFICES ASSUME NEW c \in Conn, NEW m \in Node, NEW f \in net[c][m], f.type = "Announce", f.key = n
                 PROVE  Covers(infos'[n][n], f.info)
      OBVIOUS
    <2>1. f \in Frame
      BY DEF TypeOK
    <2>2. f.info \in Info
      BY <2>1, FrameTypes DEF Info
    <2>3. Covers(infos[n][n], f.info)
      BY <1>2 DEF OwnInfoNewest
    <2> QED
      BY <1>3, <1>4, <2>2, <2>3, CoversTransitive
  <1>6. \A m \in Node : Covers(infos'[n][n], infos[m][n])
    <2> SUFFICES ASSUME NEW m \in Node PROVE Covers(infos'[n][n], infos[m][n])
      OBVIOUS
    <2>1. Covers(infos[n][n], infos[m][n])
      BY <1>2 DEF OwnInfoNewest
    <2> QED
      BY <1>3, <1>4, <2>1, CoversTransitive, Zenon
  <1>7. \A m \in Node : Covers(infos'[n][n], infos'[m][n])
    <2> SUFFICES ASSUME NEW m \in Node PROVE Covers(infos'[n][n], infos'[m][n])
      OBVIOUS
    <2>1. CASE m = n
      BY <2>1 DEF Covers
    <2>2. CASE infos'[m][n] = NoInfo
      BY <1>4, <2>2, CoversNothing
    <2>3. CASE infos'[m][n] = infos[m][n]
      BY <1>6, <2>3
    <2>4. CASE \E c \in Conn : \E f \in net[c][m] :
                  f.type = "Announce" /\ f.key = n /\ f.info = infos'[m][n]
      BY <1>5, <2>4
    <2> QED
      BY <1>1, <2>1, <2>2, <2>3, <2>4, Zenon DEF InfoSource
  <1>8. ASSUME NEW c \in Conn, NEW m \in Node, NEW f \in net'[c][m], f.type = "Announce", f.key = n
        PROVE  Covers(infos'[n][n], f.info)
    <2>1. CASE f \in net[c][m]
      BY <1>5, <1>8, <2>1
    <2>2. CASE f.info = infos'[Other(c, m)][f.key]
      BY <1>7, <1>8, <2>2, OtherEnd, Zenon
    <2> QED
      BY <1>1, <1>8, <2>1, <2>2, Zenon DEF FrameSource
  <1> QED
    BY <1>7, <1>8

\* Only a node itself issues its announcements: as long as it has not restarted
\* nobody knows, and no wire carries, a newer one than its own.
THEOREM OwnInfoNewestHolds == Spec => []OwnInfoNewest
  <1>1. Init => OwnInfoNewest
    BY DEF Init, OwnInfoNewest, Covers
  <1> QED
    BY <1>1, TypeCorrect, OwnNewestStep, PTL DEF Spec

\* A node never takes back what it announced, except by forgetting it.
THEOREM OwnInfoAdvancesHolds == Spec => OwnInfoAdvances
  <1>1. TypeOK /\ [Next]_vars =>
           [\A n \in Node : infos'[n][n] # NoInfo => Covers(infos'[n][n], infos[n][n])]_vars
    BY OwnGrows
  <1> QED
    BY <1>1, TypeCorrect, PTL DEF Spec, OwnInfoAdvances

(***************************************************************************)
(* No update is lost.  SentIsKnown is not inductive by itself: when a node *)
(* notes that a peer knows what the peer's announcement said, this is so   *)
(* because the announcement is backed by what the peer still knows; and    *)
(* when it notes what it sends, because the link delivers.                 *)
(***************************************************************************)

\* Frames are on connections that their sender has taken into use.
NetInv ==
    \A c \in Conn, n \in Node : \A f \in net[c][n] :
        n \in Ends[c] /\ side[c][Other(c, n)] # "new"

\* A link to a peer with which nothing was lost is open at the far end.
LinkInv ==
    \A n \in Node : \A c \in Links(n) :
        intact[n][Other(c, n)] => side[c][Other(c, n)] # "down"

\* The sender of an announcement still knows what it announced, or better.
FrameBacked ==
    \A c \in Conn, n \in Node : \A f \in net[c][n] :
        f.type = "Announce" /\ side[c][Other(c, n)] # "down" /\ f.key \notin lost[Other(c, n)]
        => Covers(infos[Other(c, n)][f.key], f.info)

\* Frames stay on connections that their sender has taken into use.
LEMMA NetStep == TypeOK /\ NetInv /\ [Next]_vars => NetInv'
  <1> SUFFICES ASSUME TypeOK, NetInv, [Next]_vars, NEW c \in Conn, NEW n \in Node, NEW f \in net'[c][n]
               PROVE  n \in Ends[c] /\ side'[c][Other(c, n)] # "new"
    BY Zenon DEF NetInv, Other
  <1>1. CASE f \in net[c][n]
    BY <1>1, OtherEnd, SideGrows, ZenonT(60) DEF NetInv
  <1>2. CASE f \notin net[c][n]
    BY <1>2, StepFacts DEF FrameSource
  <1> QED
    BY <1>1, <1>2

\* What a sender knows keeps covering what it has in flight.
LEMMA BackedStep ==
    TypeOK /\ TypeOK' /\ NetInv /\ FrameBacked /\ [Next]_vars => FrameBacked'
  <1> SUFFICES ASSUME TypeOK, TypeOK', NetInv, FrameBacked, [Next]_vars,
                      NEW c \in Conn, NEW n \in Node, NEW f \in net'[c][n],
                      f.type = "Announce", side'[c][Other(c, n)] # "down",
                      f.key \notin lost'[Other(c, n)]
               PROVE  Covers(infos'[Other(c, n)][f.key], f.info)
    BY DEF FrameBacked, Other
  <1> DEFINE q == Other(c, n)
  <1>1. q \in Node
    BY OtherEnd
  <1>2. CASE f \notin net[c][n]
    <2>1. f.info = infos'[q][f.key]
      BY <1>2, StepFacts, Zenon DEF FrameSource
    <2> QED
      BY <2>1 DEF Covers
  <1>3. CASE f \in net[c][n]
    <2>1. n \in Ends[c] /\ side[c][q] # "new" /\ q \in Ends[c]
      BY <1>3, OtherEnd, ZenonT(60) DEF NetInv
    <2>2. ~Restart(q) /\ side[c][q] # "down"
      BY <1>1, <2>1, SideGrows, Zenon
    <2>3. /\ lost[q] \subseteq lost'[q]
          /\ \A k \in Node : Covers(infos'[q][k], infos[q][k]) \/ k \in lost'[q]
      BY <1>1, <2>2, StepFacts, Zenon DEF Upward
    <2>4. f \in Frame
      BY <1>3 DEF TypeOK
    <2>5. f.key \in Node /\ f.info \in Info
      BY <2>4, FrameTypes, Zenon DEF Info
    <2>6. Covers(infos[q][f.key], f.info)
      BY <1>3, <2>2, <2>3, Zenon DEF FrameBacked
    <2>7. Covers(infos'[q][f.key], infos[q][f.key])
      BY <2>3, <2>5, Zenon
    <2>8. infos[q][f.key] \in Info /\ infos'[q][f.key] \in Info
      BY <1>1, <2>5 DEF TypeOK
    <2> QED
      BY <2>5, <2>6, <2>7, <2>8, CoversTransitive, Zenon
  <1> QED
    BY <1>2, <1>3

\* A link stays open at the far end for as long as nothing is lost on it.
LEMMA LinkStep == TypeOK /\ LinkInv /\ [Next]_vars => LinkInv'
  <1> SUFFICES ASSUME TypeOK, LinkInv, [Next]_vars PROVE LinkInv'
    OBVIOUS
  <1>0. ASSUME UNCHANGED side, \A n, p \in Node : intact'[n][p] => intact[n][p]
        PROVE  LinkInv'
    <2> SUFFICES ASSUME NEW n \in Node, NEW c \in Links(n)', intact'[n][Other(c, n)]
                 PROVE  side'[c][Other(c, n)] # "down"
      BY Zenon DEF LinkInv, Other
    <2>1. c \in Links(n)
      BY Zenon, <1>0, SameSide
    <2>2. Other(c, n) \in Node
      BY Zenon, <2>1, LinkEnds, OtherEnd
    <2>3. intact[n][Other(c, n)]
      BY Zenon, <1>0, <2>2
    <2> QED
      BY Zenon, <1>0, <2>1, <2>3 DEF LinkInv
  <1>1. ASSUME NEW m \in Node, NEW d \in Conn, AddPeer(m, d) PROVE LinkInv'
    <2> DEFINE q == Other(d, m)
    <2>1. /\ q \in Node /\ side' = [side EXCEPT ![d][m] = "up"]
          /\ intact' = [intact EXCEPT ![m][q] = (q \in PeerKeys(m) => @) /\ side[d][q] # "down"]
      BY <1>1, OtherEnd, Zenon DEF AddPeer
    <2>2. \A x, p \in Node : \/ intact'[x][p] = intact[x][p]
                             \/ /\ x = m /\ p = q
                                /\ intact'[x][p] => /\ side[d][q] # "down"
                                                    /\ q \in PeerKeys(m) => intact[m][q]
      BY <2>1, Zenon DEF TypeOK
    <2>3. \A c \in Conn, x \in Node : side'[c][x] = "down" => side[c][x] = "down"
      BY <2>1, Zenon DEF TypeOK
    <2> SUFFICES ASSUME NEW n \in Node, NEW c \in Links(n)', intact'[n][Other(c, n)]
                 PROVE  side'[c][Other(c, n)] # "down"
      BY DEF LinkInv, Other
    <2>4. c \in Links(n) \/ (n = m /\ c = d)
      BY <1>1, LinksAdded
    <2>5. c \in Conn /\ Other(c, n) \in Node
      BY <2>4, OtherEnd, LinkEnds, Zenon
    <2>6. CASE c \in Links(n)
      <3>1. Other(c, n) \in PeerKeys(n)
        BY <2>6, LinkEnds
      <3>2. intact[n][Other(c, n)]
        BY <2>2, <2>5, <3>1, Zenon
      <3> QED
        BY <2>3, <2>5, <2>6, <3>2 DEF LinkInv
    <2>7. CASE c \notin Links(n)
      <3>1. n = m /\ c = d
        BY <2>4, <2>7
      <3> QED
        BY <2>1, <2>3, <3>1, Zenon DEF TypeOK
    <2> QED
      BY <2>6, <2>7
  <1>2. ASSUME NEW m \in Node, NEW d \in Conn, RemovePeer(m, d) PROVE LinkInv'
    <2> DEFINE q == Other(d, m)
    <2>1. /\ q \in Node /\ q # m /\ d \in Links(m) /\ Other(d, q) = m
          /\ side' = [side EXCEPT ![d][m] = "down"]
          /\ intact' = [intact EXCEPT ![m][q] = FALSE, ![q][m] = @ /\ d \notin Links(q)]
      BY <1>2, OtherEnd, LinkEnds, Zenon DEF RemovePeer
    <2>2. \A x, p \in Node : intact'[x][p] => intact[x][p]
      BY <2>1, Zenon DEF TypeOK
    <2>3. intact'[q][m] => d \notin Links(q)
      BY <2>1, Zenon DEF TypeOK
    <2>4. \A c \in Conn, x \in Node : side'[c][x] = "down" => side[c][x] = "down" \/ (c = d /\ x = m)
      BY <2>1, Zenon DEF TypeOK
    <2> SUFFICES ASSUME NEW n \in Node, NEW c \in Links(n)', intact'[n][Other(c, n)]
                 PROVE  side'[c][Other(c, n)] # "down"
      BY DEF LinkInv, Other
    <2>5. c \in Links(n)
      BY <1>2, LinksRemoved
    <2>6. c \in Conn /\ n \in Ends[c] /\ Other(c, n) \in Node /\ Other(c, Other(c, n)) = n
      BY <2>5, OtherEnd, LinkEnds, Zenon
    <2>7. side[c][Other(c, n)] # "down"
      BY <2>2, <2>5, <2>6, Zenon DEF LinkInv
    <2>8. ASSUME c = d, Other(c, n) = m PROVE FALSE
      <3>1. n = q
        BY <2>6, <2>8
      <3> QED
        BY <2>3, <2>5, <2>8, <3>1
    <2> QED
      BY <2>4, <2>6, <2>7, <2>8
  <1>3. ASSUME NEW n \in Node, NEW c \in Conn, NEW f \in net[c][n], Receive(n, c, f) PROVE LinkInv'
    <2>1. UNCHANGED side /\ (UNCHANGED intact \/
             intact' = [intact EXCEPT ![n][Other(c, n)] = @ /\ c \in Links(n)])
      BY <1>3, Zenon DEF Receive, HandleRequest, HandleResponse, HandleAnnounce, historyVars
    <2>2. Other(c, n) \in Node
      BY OtherEnd
    <2>3. \A x, p \in Node : intact'[x][p] => intact[x][p]
      <3>1. CASE UNCHANGED intact
        BY <3>1
      <3>2. CASE intact' = [intact EXCEPT ![n][Other(c, n)] = @ /\ c \in Links(n)]
        BY <2>2, <3>2, Zenon DEF TypeOK
      <3> QED
        BY <2>1, <3>1, <3>2, Zenon
    <2> QED
      BY <1>0, <2>1, <2>3
  <1>4. ASSUME NEW n \in Node, Maintain(n) \/ MaintainTimed(n) PROVE LinkInv'
    BY <1>0, <1>4, Zenon DEF Maintain, MaintainTimed, historyVars
  <1>5. ASSUME NEW m \in Node, Restart(m) PROVE LinkInv'
    <2>1. /\ side' = [c \in Conn |-> IF m \in Ends[c] /\ InUse(c)
                                     THEN [side[c] EXCEPT ![m] = "down"] ELSE side[c]]
          /\ intact' = [x \in Node |-> [p \in Node |-> m \notin {x, p} /\ intact[x][p]]]
      BY <1>5, Zenon DEF Restart
    <2>2. \A c \in Conn, x \in Node : x # m => side'[c][x] = side[c][x]
      BY <2>1, Zenon DEF TypeOK
    <2>3. \A x, p \in Node : intact'[x][p] => intact[x][p] /\ x # m /\ p # m
      BY <2>1, Zenon DEF TypeOK
    <2> SUFFICES ASSUME NEW n \in Node, NEW c \in Links(n)', intact'[n][Other(c, n)]
                 PROVE  side'[c][Other(c, n)] # "down"
      BY DEF LinkInv, Other
    <2>4. c \in Links(n)
      BY <1>5, LinksRestarted
    <2>5. c \in Conn /\ Other(c, n) \in Node
      BY <2>4, OtherEnd, LinkEnds, Zenon
    <2> QED
      BY <2>2, <2>3, <2>4, <2>5, Zenon DEF LinkInv
  <1>6. CASE UNCHANGED vars
    BY <1>0, <1>6 DEF vars, historyVars
  <1> QED
    BY <1>1, <1>2, <1>3, <1>4, <1>5, <1>6, Zenon DEF Next

\* Peer p of n knows what n knows of k, or is about to be told.
Known(n, p, k) ==
    \/ Covers(infos[p][k], infos[n][k])
    \/ \E c \in LinksTo(n, p) : \E f \in net[c][p] :
          f.type = "Announce" /\ f.key = k /\ Covers(f.info, infos[n][k])

\* An announcement stays on the wire until its receiver handles it, and then the
\* receiver knows what it said.
LEMMA FrameFate ==
    ASSUME TypeOK, [Next]_vars, NEW c \in Conn, NEW p \in Node, NEW f \in net[c][p], f.type = "Announce"
    PROVE  f \in net'[c][p] \/ Covers(infos'[p][f.key], f.info) \/ Restart(p)
  <1>1. CASE UNCHANGED vars
    BY <1>1 DEF vars
  <1>2. ASSUME NEW m \in Node, NEW d \in Conn, AddPeer(m, d) PROVE f \in net'[c][p]
    <2>1. PICK r, again : net' = IF side[d][Other(d, m)] = "down" THEN net
                                 ELSE [net EXCEPT ![d][Other(d, m)] = @ \cup again \cup {SigReq(r)}]
      BY <1>2, Zenon DEF AddPeer
    <2>2. Other(d, m) \in Node
      BY OtherEnd
    <2> QED
      BY <2>1, <2>2, Zenon DEF TypeOK
  <1>3. ASSUME NEW m \in Node, NEW d \in Conn, RemovePeer(m, d) PROVE f \in net'[c][p]
    BY <1>3, Zenon DEF RemovePeer
  <1>4. ASSUME NEW m \in Node, NEW d \in Conn, NEW g \in net[d][m], HandleRequest(m, d, g)
        PROVE  f \in net'[c][p]
    <2> DEFINE out == {SigRes(g.req)}
    <2>1. net' = Reply(m, d, g, out) /\ g # f
      BY <1>4 DEF HandleRequest
    <2>2. out \in SUBSET Frame
      BY <1>4, FrameTypes DEF HandleRequest, TypeOK
    <2> HIDE DEF out
    <2>3. ReplyEffects(m, d, g, out)
      BY <2>1, <2>2, ReplyEffect, Zenon
    <2> QED
      BY <2>1, <2>3, ZenonT(30) DEF ReplyEffects
  <1>5. ASSUME NEW m \in Node, NEW d \in Conn, NEW g \in net[d][m], HandleResponse(m, d, g)
        PROVE  f \in net'[c][p]
    <2>1. net' = Take(m, d, g) /\ g # f
      BY <1>5 DEF HandleResponse
    <2> QED
      BY <2>1, TakeEffect
  <1>6. ASSUME NEW m \in Node, NEW d \in Conn, NEW g \in net[d][m], HandleAnnounce(m, d, g)
        PROVE  f \in net'[c][p] \/ Covers(infos'[p][f.key], f.info)
    <2>1. g \in Frame /\ g.type = "Announce"
      BY <1>6 DEF HandleAnnounce, TypeOK
    <2>2. g.key \in Node /\ g.info \in Announced
      BY <2>1, FrameTypes
    <2>3. CASE AcceptAnnounce(m, d, g)
      <3>1. net' = Take(m, d, g) /\ infos' = [infos EXCEPT ![m] = [@ EXCEPT ![g.key] = g.info]]
        BY <2>3 DEF AcceptAnnounce, Update
      <3>2. infos'[m][g.key] = g.info
        BY <2>2, <3>1, Zenon DEF TypeOK
      <3>3. CASE f = g /\ p = m
        BY <3>2, <3>3 DEF Covers
      <3>4. CASE ~(f = g /\ p = m)
        BY <3>1, <3>4, TakeEffect
      <3> QED
        BY <3>3, <3>4
    <2>4. CASE RejectAnnounce(m, d, g)
      <3> DEFINE out == {Announce(g.key, infos[m][g.key])}
      <3>1. /\ net' = Take(m, d, g) \/ net' = Reply(m, d, g, out)
            /\ UNCHANGED infos /\ ~Newer(g.info, infos[m][g.key])
        BY <2>4, Zenon DEF RejectAnnounce
      <3>2. infos[m][g.key] \in Info /\ g.info \in Info
        BY <2>2, ZenonT(60) DEF TypeOK, Info
      <3>3. Covers(infos[m][g.key], g.info)
        BY <3>1, <3>2, CoversTotal, Zenon
      <3>4. out \in SUBSET Frame
        <4>1. Newer(g.info, NoInfo)
          BY <2>2 DEF Newer, NoInfo, Announced
        <4>2. infos[m][g.key] \in Announced
          BY <3>1, <3>2, <4>1, Zenon DEF Info
        <4> QED
          BY <2>2, <4>2, FrameTypes, Zenon
      <3> HIDE DEF out
      <3>5. CASE f = g /\ p = m
        BY <3>1, <3>3, <3>5, Zenon
      <3>6. CASE ~(f = g /\ p = m)
        <4>1. CASE net' = Take(m, d, g)
          BY <3>6, <4>1, TakeEffect
        <4>2. CASE net' = Reply(m, d, g, out)
          <5>1. ReplyEffects(m, d, g, out)
            BY <3>4, <4>2, ReplyEffect, Zenon
          <5> QED
            BY <3>6, <5>1, Zenon DEF ReplyEffects
        <4> QED
          BY <3>1, <4>1, <4>2, Zenon
      <3> QED
        BY <3>5, <3>6
    <2> QED
      BY <1>6, <2>3, <2>4, Zenon DEF HandleAnnounce
  <1>7. ASSUME NEW m \in Node, Maintain(m) \/ MaintainTimed(m) PROVE f \in net'[c][p]
    <2>1. PICK expired \in SUBSET (Node \ {m}), new \in [Node -> Info], base \in [Node -> SUBSET Node],
               ask \in [PeerKeys(m) -> SUBSET Asks] : Maintenance(m, expired, new, base, ask)
      BY <1>7, MaintainEffect, Zenon
    <2>2. SendAnnounces(m, new, base, ask)
      BY <2>1, Zenon DEF Maintenance, PassOutcome
    <2>3. \A d \in Conn, x \in Node :
                \/ net'[d][x] = net[d][x]
                \/ /\ d \in Links(m) /\ x = Other(d, m)
                   /\ net'[d][x] = net[d][x] \cup Outgoing(m, x, new, base, ask)
      <3>1. SendEffects(m, new, base, ask)
        BY <2>2, SendEffect, Zenon
      <3> QED
        BY <3>1, Zenon DEF SendEffects
    <2> QED
      BY <2>3, ZenonT(60)
  <1>8. ASSUME NEW m \in Node, Restart(m) PROVE f \in net'[c][p] \/ Restart(p)
    <2>1. net' = [d \in Conn |-> [net[d] EXCEPT ![m] = {}]]
      BY <1>8, Zenon DEF Restart
    <2> QED
      BY <1>8, <2>1 DEF TypeOK
  <1> QED
    BY <1>1, <1>2, <1>3, <1>4, <1>5, <1>6, <1>7, <1>8, Zenon DEF Next, Receive

\* As long as n's info of k and its links to p stay, p knows it.
LEMMA KnownStays ==
    ASSUME TypeOK, TypeOK', [Next]_vars, NEW n \in Node, NEW p \in Node, NEW k \in Node,
           ~Restart(p), k \notin lost'[p],
           infos'[n][k] = infos[n][k], LinksTo(n, p) \subseteq LinksTo(n, p)',
           Known(n, p, k)
    PROVE  Known(n, p, k)'
  <1>1. Known(n, p, k)' <=>
           \/ Covers(infos'[p][k], infos[n][k])
           \/ \E c \in LinksTo(n, p)' : \E f \in net'[c][p] :
                f.type = "Announce" /\ f.key = k /\ Covers(f.info, infos[n][k])
    BY ZenonT(60) DEF Known, Covers, Newer
  <1>2. infos[p][k] \in Info /\ infos'[p][k] \in Info /\ infos[n][k] \in Info
    BY DEF TypeOK
  <1>3. CASE Covers(infos[p][k], infos[n][k])
    <2>1. Covers(infos'[p][k], infos[p][k])
      BY StepFacts, Zenon DEF Upward
    <2> QED
      BY <1>1, <1>2, <1>3, <2>1, CoversTransitive, Zenon
  <1>4. ASSUME NEW c \in LinksTo(n, p), NEW f \in net[c][p], f.type = "Announce", f.key = k,
               Covers(f.info, infos[n][k])
        PROVE  Known(n, p, k)'
    <2>1. c \in Conn
      BY Zenon DEF LinksTo, Links
    <2>2. CASE f \in net'[c][p]
      BY <1>1, <1>4, <2>2, Zenon
    <2>3. CASE Covers(infos'[p][k], f.info)
      <3>1. f.info \in Info
        <4>1. f \in Frame
          BY <2>1 DEF TypeOK
        <4> QED
          BY <1>4, <4>1, FrameTypes, Zenon DEF Info
      <3> QED
        BY <1>1, <1>2, <1>4, <2>3, <3>1, CoversTransitive, Zenon
    <2> QED
      BY <1>4, <2>1, <2>2, <2>3, FrameFate, Zenon
  <1> QED
    BY <1>3, <1>4, Zenon DEF Known

\* What n may take for known to p, after a step.
Expects(n, p, k) ==
    /\ p \in PeerKeys(n) /\ intact[n][p]
    /\ k \in sent[n][p] /\ k \notin lost[p]

\* SentIsKnown, in terms of what a node expects of a peer and what the peer knows.
LEMMA SentIsKnownUnfolded ==
    SentIsKnown <=> \A n, p, k \in Node : Expects(n, p, k) => Known(n, p, k)
  BY Zenon DEF SentIsKnown, Expects, Known

\* No step of either router loses an update that was marked as sent.
LEMMA SentStep ==
    TypeOK /\ TypeOK' /\ LinkInv /\ FrameBacked /\ SentIsKnown /\ [Next]_vars => SentIsKnown'
  <1> SUFFICES ASSUME TypeOK, TypeOK', LinkInv, FrameBacked, SentIsKnown, [Next]_vars,
                      NEW n \in Node, NEW p \in Node, NEW k \in Node, Expects(n, p, k)'
               PROVE  Known(n, p, k)'
    BY Zenon DEF SentIsKnown, Expects, Known
  <1>1. p \in PeerKeys(n)' /\ intact'[n][p] /\ k \in sent'[n][p] /\ k \notin lost'[p]
    BY DEF Expects
  <1>2. ~Restart(n) /\ ~Restart(p)
    <2> SUFFICES ASSUME NEW m \in {n, p}, Restart(m) PROVE FALSE
      OBVIOUS
    <2>1. intact' = [x \in Node |-> [y \in Node |-> m \notin {x, y} /\ intact[x][y]]]
      BY Zenon DEF Restart
    <2>2. intact'[n][p] = (m \notin {n, p} /\ intact[n][p])
      BY <2>1
    <2> QED
      BY <1>1, <2>2, Zenon
  <1>3. k \notin lost[p]
    BY <1>1, <1>2, StepFacts DEF Upward
  <1>4. ASSUME p \in PeerKeys(n), intact[n][p], k \in sent[n][p],
               infos'[n][k] = infos[n][k], LinksTo(n, p) \subseteq LinksTo(n, p)'
        PROVE  Known(n, p, k)'
    <2>1. Known(n, p, k)
      BY <1>3, <1>4, SentIsKnownUnfolded DEF Expects
    <2> QED
      BY <1>1, <1>2, <1>4, <2>1, KnownStays, Zenon
  <1>5. ASSUME UNCHANGED <<side, infos, sent, intact>> PROVE Known(n, p, k)'
    BY <1>1, <1>4, <1>5, SameSide, Zenon
  <1>6. ASSUME NEW m \in Node, NEW d \in Conn, AddPeer(m, d) PROVE Known(n, p, k)'
    <2> DEFINE q == Other(d, m)
    <2>1. /\ q \in Node /\ UNCHANGED infos
          /\ sent' = IF q \in PeerKeys(m) THEN sent ELSE [sent EXCEPT ![m][q] = {}]
          /\ intact' = [intact EXCEPT ![m][q] = (q \in PeerKeys(m) => @) /\ side[d][q] # "down"]
      BY <1>6, OtherEnd, Zenon DEF AddPeer
    <2>2. \A x \in Node : Links(x)' = IF x = m THEN Links(m) \cup {d} ELSE Links(x)
      BY <1>6, LinksAdded
    <2>3. LinksTo(n, p) \subseteq LinksTo(n, p)'
      BY <2>2 DEF LinksTo, Other
    <2>4. p \in PeerKeys(n) \/ (n = m /\ p = q)
      BY <1>1, <2>2 DEF PeerKeys, Other
    <2>5. CASE p \in PeerKeys(n)
      <3>1. intact[n][p] /\ k \in sent[n][p]
        BY <1>1, <2>1, <2>5, TableTypes, Zenon
      <3> QED
        BY <1>4, <2>1, <2>3, <2>5, <3>1, Zenon
    <2>6. CASE p \notin PeerKeys(n)
      <3>1. sent'[n][p] = {}
        BY <2>1, <2>4, <2>6, TableTypes, Zenon
      <3> QED
        BY <1>1, <3>1
    <2> QED
      BY <2>5, <2>6
  <1>7. ASSUME NEW m \in Node, NEW d \in Conn, RemovePeer(m, d) PROVE Known(n, p, k)'
    <2> DEFINE q == Other(d, m)
    <2>1. /\ q \in Node /\ q # m /\ UNCHANGED infos
          /\ sent' \in {sent, [sent EXCEPT ![m][q] = {}]}
          /\ intact' = [intact EXCEPT ![m][q] = FALSE, ![q][m] = @ /\ d \notin Links(q)]
      BY <1>7, OtherEnd, Zenon DEF RemovePeer
    <2>2. \A x \in Node : Links(x)' = IF x = m THEN Links(m) \ {d} ELSE Links(x)
      BY <1>7, LinksRemoved
    <2>3. p \in PeerKeys(n)
      BY <1>1, <2>2, Zenon DEF PeerKeys, Other
    <2>4. intact[n][p] /\ ~(n = m /\ p = q)
      BY <1>1, <2>1, TableTypes, ZenonT(30)
    <2>5. k \in sent[n][p]
      <3>1. CASE sent' = sent
        BY <1>1, <3>1, Zenon
      <3>2. CASE sent' = [sent EXCEPT ![m][q] = {}]
        BY <1>1, <2>1, <3>2, TableTypes, Zenon
      <3> QED
        BY <2>1, <3>1, <3>2, Zenon
    <2>6. LinksTo(n, p) \subseteq LinksTo(n, p)'
      BY <2>2, <2>4 DEF LinksTo, Other
    <2> QED
      BY <1>4, <2>1, <2>3, <2>4, <2>5, <2>6, Zenon
  <1>8. ASSUME NEW m \in Node, NEW d \in Conn, NEW g \in net[d][m],
               HandleRequest(m, d, g) \/ HandleResponse(m, d, g)
        PROVE  Known(n, p, k)'
    BY <1>5, <1>8 DEF HandleRequest, HandleResponse, routerVars, historyVars
  <1>9. ASSUME NEW m \in Node, NEW d \in Conn, NEW g \in net[d][m], HandleAnnounce(m, d, g)
        PROVE  Known(n, p, k)'
    <2> DEFINE q == Other(d, m)
    <2>1. q \in Node /\ q # m
      BY OtherEnd
    <2>2. g \in Frame /\ g.type = "Announce" /\ UNCHANGED <<side, lost>>
      <3>1. g \in Frame
        BY ArrivedFrame, Zenon
      <3> QED
        BY <1>9, <3>1, Zenon DEF HandleAnnounce
    <2>3. g.key \in Node /\ g.info \in Announced
      BY <2>2, FrameTypes
    <2>4. intact' = [intact EXCEPT ![m][q] = @ /\ d \in Links(m)]
      BY <1>9 DEF HandleAnnounce
    <2>5. intact[n][p] /\ (n = m /\ p = q => d \in Links(m))
      <3>1. CASE n = m /\ p = q
        <4>1. intact'[n][p] = (intact[n][p] /\ d \in Links(m))
          BY <2>1, <2>4, <3>1, Zenon DEF TypeOK
        <4> QED
          BY <1>1, <4>1, Zenon
      <3>2. CASE ~(n = m /\ p = q)
        <4>1. intact'[n][p] = intact[n][p]
          BY <2>1, <2>4, <3>2, Zenon DEF TypeOK
        <4> QED
          BY <1>1, <3>2, <4>1
      <3> QED
        BY <3>1, <3>2, Zenon
    <2>6. p \in PeerKeys(n) /\ LinksTo(n, p) \subseteq LinksTo(n, p)'
      BY <1>1, <2>2, SameSide, Zenon
    \* the announcement says what its sender, the peer, still knows
    <2>7. ASSUME n = m, p = q, k = g.key PROVE Covers(infos[p][k], g.info)
      <3>1. side[d][q] # "down"
        BY Zenon, <2>5, <2>7 DEF LinkInv
      <3> QED
        BY <1>3, <2>2, <2>7, <3>1, Zenon DEF FrameBacked
    <2>8. CASE AcceptAnnounce(m, d, g)
      <3>1. /\ infos' = [infos EXCEPT ![m] = [@ EXCEPT ![g.key] = g.info]]
            /\ sent' = [sent EXCEPT ![m] = Told(m, q, g.key, Unsent(@, g.key))]
        BY <2>8 DEF AcceptAnnounce, Update
      <3>2. \A x, y \in Node : infos'[x][y] = IF x = m /\ y = g.key THEN g.info ELSE infos[x][y]
        BY <2>3, <3>1, ZenonT(60) DEF TypeOK
      <3>3. \/ k \in sent[n][p] /\ (n = m => k # g.key)
            \/ n = m /\ p = q /\ k = g.key
        BY <1>1, <2>1, <3>1, ZenonT(60) DEF TypeOK, Told, Unsent
      <3>4. CASE k \in sent[n][p] /\ (n = m => k # g.key)
        BY <1>4, <2>5, <2>6, <3>2, <3>4, Zenon
      <3>5. CASE n = m /\ p = q /\ k = g.key
        <4>1. infos'[p][k] = infos[p][k] /\ infos'[n][k] = g.info
          BY <2>1, <3>2, <3>5, Zenon
        <4>2. Covers(infos'[p][k], infos'[n][k])
          BY <2>7, <3>5, <4>1
        <4> QED
          BY <4>2, Zenon DEF Known, Covers, Newer
      <3> QED
        BY <3>3, <3>4, <3>5, Zenon
    <2>9. CASE RejectAnnounce(m, d, g)
      <3> DEFINE h == Announce(g.key, infos[m][g.key])
      <3>1. /\ UNCHANGED infos
            /\ sent' = [sent EXCEPT ![m] = Told(m, q, g.key, @)]
            /\ infos[m][g.key] # g.info => net' = Reply(m, d, g, {h})
            /\ ~Newer(g.info, infos[m][g.key])
        BY <2>9, Zenon DEF RejectAnnounce
      <3>2. k \in sent[n][p] \/ (n = m /\ p = q /\ k = g.key)
        BY <1>1, <2>1, <3>1, Zenon DEF TypeOK, Told
      <3>3. CASE k \in sent[n][p]
        BY <1>4, <2>5, <2>6, <3>1, <3>3, Zenon
      <3>4. CASE n = m /\ p = q /\ k = g.key /\ infos[m][g.key] = g.info
        <4>1. Covers(infos'[p][k], infos'[n][k])
          BY <2>7, <3>1, <3>4, Zenon
        <4> QED
          BY <4>1, Zenon DEF Known, Covers, Newer
      <3>5. CASE n = m /\ p = q /\ k = g.key /\ infos[m][g.key] # g.info
        <4>1. d \in Links(m) /\ side[d][q] # "down"
          BY <2>5, <3>5, Zenon DEF LinkInv
        <4>2. d \in LinksTo(n, p)'
          BY <2>2, <3>5, <4>1, SameSide, Zenon DEF LinksTo
        <4>3. infos[m][g.key] \in Announced
          <5>1. Newer(g.info, NoInfo)
            BY <2>3, SMTT(40) DEF Newer, NoInfo, Announced
          <5>2. infos[m][g.key] \in Info
            BY <2>3 DEF TypeOK
          <5> QED
            BY <3>1, <5>1, <5>2, Zenon DEF Info
        <4>4. {h} \in SUBSET Frame
          BY <2>3, <4>3, FrameTypes, Zenon
        <4> DEFINE out == {h}
        <4>5. h \in out /\ out \in SUBSET Frame /\ net' = Reply(m, d, g, out)
          BY <3>1, <3>5, <4>4, Zenon
        <4> HIDE DEF out
        <4>6. net'[d][q] = net[d][q] \cup out
          <5>1. ReplyEffects(m, d, g, out)
            BY <4>5, ReplyEffect, Zenon
          <5> QED
            BY <4>1, <5>1, Zenon DEF ReplyEffects
        <4>7. h.type = "Announce" /\ h.key = k /\ h.info = infos'[n][k]
          BY <3>1, <3>5, Zenon DEF Announce
        <4>8. h \in net'[d][p] /\ Covers(h.info, infos'[n][k])
          BY <3>5, <4>5, <4>6, <4>7, Zenon DEF Covers
        <4> QED
          BY <4>2, <4>7, <4>8, Zenon DEF Known, Covers, Newer
      <3> QED
        BY <3>2, <3>3, <3>4, <3>5, Zenon
    <2> QED
      BY <1>9, <2>8, <2>9, Zenon DEF HandleAnnounce
  <1>10. ASSUME NEW m \in Node, Maintain(m) \/ MaintainTimed(m) PROVE Known(n, p, k)'
    <2>1. PICK expired \in SUBSET (Node \ {m}), new \in [Node -> Info], base \in [Node -> SUBSET Node],
               ask \in [PeerKeys(m) -> SUBSET Asks] : Maintenance(m, expired, new, base, ask)
      BY <1>10, MaintainEffect
    <2>2. /\ UNCHANGED <<side, intact>>
          /\ SendAnnounces(m, new, base, ask)
          /\ FixOutcome(m, Unexpired(m, expired), StillSent(m, expired), new, base)
      BY <2>1, Zenon DEF Maintenance, PassOutcome
    <2>3. /\ infos' = [infos EXCEPT ![m] = new]
          /\ sent' = [sent EXCEPT ![m] = [x \in Node |->
                         IF x \in PeerKeys(m) THEN base[x] \cup ToSend(m, x, new, base) ELSE base[x]]]
          /\ \A c \in Links(m) : side[c][Other(c, m)] # "down" =>
                net'[c][Other(c, m)] =
                    net[c][Other(c, m)] \cup Outgoing(m, Other(c, m), new, base, ask)
      <3>1. SendEffects(m, new, base, ask)
        BY <2>2, SendEffect, Zenon
      <3> QED
        BY <3>1, Zenon DEF SendEffects
    <2>4. p \in PeerKeys(n) /\ intact[n][p] /\ LinksTo(n, p) = LinksTo(n, p)'
      BY <1>1, <2>2, SameSide, Zenon
    <2>5. CASE m # n
      <3>1. infos'[n] = infos[n] /\ sent'[n] = sent[n]
        BY <2>3, <2>5, ZenonT(60) DEF TypeOK
      <3> QED
        BY <1>1, <1>4, <2>4, <3>1, Zenon
    <2>6. CASE m = n
      <3>1. infos'[n] = new
        BY <2>3, <2>6, TableTypes, Zenon
      <3>2. k \in base[p] \/ k \in ToSend(n, p, new, base)
        <4>1. sent'[n] = [x \in Node |->
                  IF x \in PeerKeys(n) THEN base[x] \cup ToSend(n, x, new, base) ELSE base[x]]
          BY <2>3, <2>6, ZenonT(60) DEF TypeOK
        <4> QED
          BY <1>1, <2>4, <4>1, Zenon
      <3>3. CASE k \in base[p]
        <4>1. k \in sent[n][p] /\ new[k] = infos[n][k]
          <5>1. \/ base = StillSent(n, expired) /\ new = Unexpired(n, expired)
                \/ \E i \in Announced : /\ base = Unsent(StillSent(n, expired), n)
                                        /\ new = Update(Unexpired(n, expired), n, i)
            BY <2>2, <2>6, Zenon DEF FixOutcome
          <5>2. StillSent(n, expired)[p] = sent[n][p] \ expired
            BY Zenon DEF StillSent
          <5>3. k \notin expired => Unexpired(n, expired)[k] = infos[n][k]
            BY DEF Unexpired
          <5>4. CASE base = StillSent(n, expired) /\ new = Unexpired(n, expired)
            BY <3>3, <5>2, <5>3, <5>4, Zenon
          <5>5. ASSUME NEW i \in Announced, base = Unsent(StillSent(n, expired), n),
                       new = Update(Unexpired(n, expired), n, i)
                PROVE  k \in sent[n][p] /\ new[k] = infos[n][k]
            <6>1. base[p] = (sent[n][p] \ expired) \ {n}
              BY <5>2, <5>5, Zenon DEF Unsent
            <6>2. k # n => new[k] = Unexpired(n, expired)[k]
              BY <5>5, Zenon DEF Update, Unexpired
            <6> QED
              BY <3>3, <5>3, <6>1, <6>2, Zenon
          <5> QED
            BY <5>1, <5>4, <5>5, Zenon
        <4> QED
          BY <1>4, <2>4, <3>1, <4>1, Zenon
      <3>4. CASE k \in ToSend(n, p, new, base)
        <4>1. PICK c \in Links(n) : Other(c, n) = p
          BY <2>4, LinkEnds, Zenon
        <4>2. side[c][p] # "down"
          BY <2>4, <4>1, Zenon DEF LinkInv
        <4>3. Announce(k, new[k]) \in net'[c][p]
          <5>1. net'[c][p] = net[c][p] \cup Outgoing(n, p, new, base, ask)
            BY <2>3, <2>6, <4>1, <4>2, Zenon
          <5>2. Announce(k, new[k]) \in Outgoing(n, p, new, base, ask)
            BY <3>4, Zenon DEF Outgoing
          <5> QED
            BY <5>1, <5>2, Zenon
        <4>4. c \in LinksTo(n, p)'
          BY <2>4, <4>1, Zenon DEF LinksTo
        <4>5. LET f == Announce(k, new[k]) IN
                 f.type = "Announce" /\ f.key = k /\ Covers(f.info, infos'[n][k])
          BY <3>1, Zenon DEF Announce, Covers
        <4> QED
          BY <4>3, <4>4, <4>5, Zenon DEF Known, Covers, Newer
      <3> QED
        BY <3>2, <3>3, <3>4, Zenon
    <2> QED
      BY <2>5, <2>6
  <1>11. ASSUME NEW m \in Node, Restart(m) PROVE Known(n, p, k)'
    <2>1. m # n /\ m # p
      BY <1>2, <1>11, Zenon
    <2>2. infos'[n] = infos[n] /\ sent'[n] = sent[n] /\ intact'[n][p] = intact[n][p]
      BY <1>11, <2>1, TableTypes, Zenon DEF Restart
    <2>3. Links(n)' = Links(n)
      BY <1>11, <2>1, LinksRestarted
    <2>4. p \in PeerKeys(n) /\ LinksTo(n, p) \subseteq LinksTo(n, p)'
      BY <1>1, <2>3, PeerKeysStep, Zenon
    <2> QED
      BY <1>1, <1>4, <2>2, <2>4, Zenon
  <1>12. CASE UNCHANGED vars
    BY <1>5, <1>12 DEF vars, routerVars, historyVars
  <1> QED
    BY <1>6, <1>7, <1>8, <1>9, <1>10, <1>11, <1>12, ZenonT(60) DEF Next, Receive

\* No update is lost: what a router takes a peer to know, the peer knows or is
\* about to be told.
THEOREM SentIsKnownHolds == Spec => []SentIsKnown
  <1> DEFINE Inv == NetInv /\ LinkInv /\ FrameBacked /\ SentIsKnown
  <1>1. Init => Inv
    BY DEF Init, NetInv, LinkInv, FrameBacked, SentIsKnown, PeerKeys, Links
  <1>2. TypeOK /\ TypeOK' /\ Inv /\ [Next]_vars => Inv'
    BY NetStep, LinkStep, BackedStep, SentStep
  <1> QED
    BY <1>1, <1>2, TypeCorrect, PTL DEF Spec
=============================================================================
