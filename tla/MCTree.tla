------------------------------ MODULE MCTree ------------------------------
(***************************************************************************)
(* Small meshes for Tree, and the states its runs start in: start-up, and  *)
(* states that start-up leads to without any event, so that the runs need  *)
(* not explore again how a mesh comes up.  A connection that a scenario    *)
(* does not use starts closed at both ends.                                *)
(***************************************************************************)
EXTENDS Tree

\* Two nodes with two connections.
PairNode == {1, 2}
PairConn == {"a", "b"}
PairEnds == [c \in PairConn |-> {1, 2}]

\* Three nodes in a line, the smallest key at one end.
LineNode == {1, 2, 3}
LineConn == {"12", "23"}
LineEnds == [c \in LineConn |-> IF c = "12" THEN {1, 2} ELSE {2, 3}]

Self(n) == [seq |-> 1, parent |-> n, nonce |-> 1]
Under(p) == [seq |-> 2, parent |-> p, nonce |-> 1]
Ask(s) == [seq |-> s, nonce |-> 1]
None == [n \in Node |-> FALSE]
Nothing(x) == [n \in Node |-> [p \in Node |-> x]]

\* The connections of the scenario are in state s at both ends.
Sides(used, s) ==
    side = [c \in Conn |-> [n \in Node |->
               IF n \notin Ends[c] THEN "new" ELSE IF c \in used THEN s ELSE "down"]]

\* No timer has run out, and used events are already spent.
Calm(used) ==
    /\ refresh = None /\ doRoot1 = None
    /\ events = used
    /\ lost = [n \in Node |-> {}]
    /\ reborn = {}

\* Boot, for the pair: Init, with one connection to come.
BootInit ==
    /\ Sides({"a"}, "new")
    /\ net = [c \in Conn |-> [n \in Node |-> {}]]
    /\ infos = Nothing(NoInfo) /\ sent = Nothing({})
    /\ requests = Nothing(NoReq) /\ responses = Nothing(NoReq)
    /\ doRoot2 = [n \in Node |-> TRUE]
    /\ intact = Nothing(FALSE)
    /\ Calm(0)

\* Settled, for the pair: over connection "a" node 2 has adopted node 1, both
\* know it, and the requests open since then have been answered; connection "b"
\* is to come.
SettledInit ==
    /\ side = [c \in Conn |-> [n \in Node |-> IF c = "a" THEN "up" ELSE "new"]]
    /\ net = [c \in Conn |-> [n \in Node |-> {}]]
    /\ infos = [n \in Node |-> [k \in Node |-> IF k = 1 THEN Self(1) ELSE Under(1)]]
    /\ sent = [n \in Node |-> [p \in Node |-> IF n = p THEN {} ELSE Node]]
    /\ requests = [n \in Node |-> [p \in Node |-> IF n = p THEN NoReq ELSE Ask(n + 1)]]
    /\ responses = requests
    /\ doRoot2 = None
    /\ intact = [n \in Node |-> [p \in Node |-> n # p]]
    /\ Calm(0)

\* Meet, for two nodes of the line: every node has been through its first pass
\* alone and is its own root, then connection "12" was added at both ends.
MeetInit ==
    /\ Sides({"12"}, "up")
    /\ net = [c \in Conn |-> [n \in Node |-> IF c = "12" /\ n \in Ends[c] THEN {SigReq(Ask(2))} ELSE {}]]
    /\ infos = [n \in Node |-> [k \in Node |-> IF k = n THEN Self(n) ELSE NoInfo]]
    /\ sent = Nothing({})
    /\ requests = [n \in Node |-> [p \in Node |-> IF {n, p} = {1, 2} THEN Ask(2) ELSE NoReq]]
    /\ responses = Nothing(NoReq)
    /\ doRoot2 = None
    /\ intact = [n \in Node |-> [p \in Node |-> {n, p} = {1, 2}]]
    /\ Calm(0)

\* Join, for the line: node 3 has adopted node 2, all between them is settled,
\* and the connection to node 1, so far alone, was added at both ends.  No events.
JoinInit ==
    /\ Sides(Conn, "up")
    /\ net = [c \in Conn |-> [n \in Node |-> IF c = "12" /\ n \in Ends[c] THEN {SigReq(Ask(2))} ELSE {}]]
    /\ infos = [n \in Node |-> [k \in Node |->
                   CASE k = 1 /\ n = 1 -> Self(1)
                     [] k = 2 /\ n # 1 -> Self(2)
                     [] k = 3 /\ n # 1 -> Under(2)
                     [] OTHER -> NoInfo]]
    /\ sent = [n \in Node |-> [p \in Node |-> IF {n, p} = {2, 3} THEN {2, 3} ELSE {}]]
    /\ requests = [n \in Node |-> [p \in Node |->
                      CASE {n, p} \notin {{1, 2}, {2, 3}} -> NoReq
                        [] n = 3 -> Ask(3)
                        [] OTHER -> Ask(2)]]
    /\ responses = [n \in Node |-> [p \in Node |->
                       CASE n = 2 /\ p = 3 -> Ask(2)
                         [] n = 3 /\ p = 2 -> Ask(3)
                         [] OTHER -> NoReq]]
    /\ doRoot2 = None
    /\ intact = [n \in Node |-> [p \in Node |-> {n, p} \in {{1, 2}, {2, 3}}]]
    /\ Calm(MaxEvents)

PairSpec == (BootInit \/ SettledInit) /\ [][Next]_vars

(***************************************************************************)
(* WF_vars(Maintain(n)) of Fairness, in a form that is cheaper to evaluate: *)
(* a node is idle when a pass would change nothing, which is to say        *)
(* ~ENABLED <<Maintain(n)>>_vars.                                          *)
(***************************************************************************)
Idle(n) ==
    /\ \A p \in PeerKeys(n) : ToSend(n, p, infos[n], sent[n]) = {}
    /\ \A best \in SelectParent(n, infos[n], refresh[n]) :
         \/ ~refresh[n] /\ ~Rooting(n, "none") /\ best = ParentIn(infos[n], n)
         \/ doRoot1[n] /\ ~Rooting(n, "none") /\ ~CanAdopt(n, best, infos[n])

LineFairSpec ==
    /\ (MeetInit \/ JoinInit) /\ [][Next]_vars
    /\ \A n \in Node : []<>Idle(n) \/ []<><<Maintain(n)>>_vars
    /\ \A n \in Node, c \in Conn : DeliveryFairness(n, c)
=============================================================================
