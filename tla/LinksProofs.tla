----------------------------- MODULE LinksProofs -----------------------------
(***************************************************************************)
(* For any URIs, keys and sockets and any number of connections: sockets   *)
(* are not shared, nothing is left over of a link that is gone, and the    *)
(* router's ports agree with the ports in Peers.                           *)
(***************************************************************************)
EXTENDS LinkLife

\* Message i of the inbox removes s.
IsRemove(i, s) == inbox[i].op = "remove" /\ inbox[i].id = s

\* The router is done with s before it hears of t.
Before(s, t) ==
    /\ handles[s] = 0
    /\ s \in router.ids =>
         /\ t \notin router.ids
         /\ \A j \in DOMAIN inbox : inbox[j].op = "add" /\ inbox[j].id = t =>
              \E i \in DOMAIN inbox : i < j /\ IsRemove(i, s)

\* s and t agree in their key or in their port alone.
Conflict(s, t) == (conn[s].key = conn[t].key) # (conn[s].own = conn[t].own)

\* Such links are never in the router together.
PairsOrdered ==
    \A s, t \in Slot : conn[s].own # 0 /\ conn[t].own # 0 /\ Conflict(s, t) => Before(s, t) \/ Before(t, s)

\* The first message that removes a link has its port.
FirstRemoves ==
    \A s \in router.ids : \A i \in DOMAIN inbox :
        IsRemove(i, s) => inbox[i].port = conn[s].own \/ \E h \in DOMAIN inbox : h < i /\ IsRemove(h, s)

\* As long as the inbox was never full.
Ordered == ~full => waiting = {} /\ PairsOrdered /\ FirstRemoves

(***************************************************************************)
(* Who a connection is with, and its port, are settled while anything in   *)
(* the tables or the mail speaks of it.                                    *)
(***************************************************************************)
SameNode(s) == conn'[s].key = conn[s].key /\ conn'[s].kind = conn[s].kind /\ conn'[s].sock = conn[s].sock
Unknown(s) ==
    s \notin active /\ s \notin router.ids /\ handles[s] = 0 /\ ~Adds(s) /\ ~Removes(s)

\* A connection stays what it is until nothing is left of it.
LEMMA Identity ==
    ASSUME Typed, Life, PeersAgree, [Next]_vars, NEW s \in Slot
    PROVE  \/ SameNode(s) /\ conn'[s].own = conn[s].own
           \/ SameNode(s) /\ conn[s].own = 0 /\ Allocate(s)
           \/ Unknown(s) /\ conn'[s].own = 0 /\ UNCHANGED <<tables, mail>>
  <1> USE DEF SameNode
  <1>0. LifeAt(s) /\ conn[s] \in Conns
    BY DEF Life, Typed
  <1>1. CASE conn'[s] = conn[s]
    BY <1>1
  <1>2. ASSUME NEW x, \/ conn' = [conn EXCEPT ![s] = [conn[s] EXCEPT !.pc = x]]
                      \/ conn' = [conn EXCEPT ![s] = [conn[s] EXCEPT !.writer = x]]
        PROVE  SameNode(s) /\ conn'[s].own = conn[s].own
    BY <1>0, <1>2 DEF Typed, Conns
  <1>3. ASSUME NEW x, NEW y,
               \/ conn'[s] = [conn[s] EXCEPT !.pc = x, !.writer = y]
               \/ conn'[s] = [conn[s] EXCEPT !.pc = x, !.seen = y]
               \/ conn'[s] = [conn[s] EXCEPT !.pc = x, !.cancel = y]
               \/ conn'[s] = [conn[s] EXCEPT !.writer = x, !.cancel = y]
        PROVE  SameNode(s) /\ conn'[s].own = conn[s].own
    <2> conn[s] \in Conns
      BY <1>0
    <2>1. CASE conn'[s] = [conn[s] EXCEPT !.pc = x, !.writer = y]
      BY <2>1 DEF Conns
    <2>2. CASE conn'[s] = [conn[s] EXCEPT !.pc = x, !.seen = y]
      BY <2>2 DEF Conns
    <2>3. CASE conn'[s] = [conn[s] EXCEPT !.pc = x, !.cancel = y]
      BY <2>3 DEF Conns
    <2>4. CASE conn'[s] = [conn[s] EXCEPT !.writer = x, !.cancel = y]
      BY <2>4 DEF Conns
    <2> QED
      BY <1>3, <2>1, <2>2, <2>3, <2>4
  <1>4. ASSUME NEW u \in Uri, RemovePeer(u) PROVE SameNode(s) /\ conn'[s].own = conn[s].own
    <2>1. conn'[s] = conn[s] \/ conn'[s] = [conn[s] EXCEPT !.abort = TRUE]
      BY <1>4 DEF RemovePeer
    <2> QED
      BY <1>0, <2>1 DEF Conns
  <1>5. ASSUME Opens(s), UNCHANGED <<tables, mail>> PROVE Unknown(s) /\ conn'[s].own = 0
    BY <1>0, <1>5 DEF Opens, Unknown, LifeAt, Born, NoConn, Early, Fresh, Typed
  <1>6. ASSUME GivesUp(s) PROVE Unknown(s) /\ conn'[s].own = 0
    BY <1>0, <1>6 DEF GivesUp, Finish, Unknown, LifeAt, Born, NoConn, Typed
  <1>7. ASSUME Forget(s) PROVE Unknown(s) /\ conn'[s].own = 0
    <2>1. Mail = Range(inbox) \cup waiting
      BY DEF Mail, Range
    <2> QED
      BY <1>7, <2>1 DEF Forget, InMail, Unknown, Adds, Removes, NoConn, Typed
  <1>8. ASSUME Allocate(s) PROVE SameNode(s) /\ conn[s].own = 0
    <2>1. PICK port \in Port : conn' = [conn EXCEPT ![s] = [[conn[s] EXCEPT !.pc = "send"] EXCEPT !.own = port]]
      BY Zenon, <1>8, Allocated
    <2>2. conn[s].own = 0
      BY <1>0, <1>8 DEF Allocate, At, LifeAt, Born
    <2> QED
      BY <1>0, <2>1, <2>2 DEF Typed, Conns
  <1>9. ASSUME Unregister(s) PROVE SameNode(s) /\ conn'[s].own = conn[s].own
    <2>1. conn[s].own # 0
      BY <1>0, <1>9 DEF Unregister, At, LifeAt, Born, Early
    <2>2. conn' = [conn EXCEPT ![s] = [conn[s] EXCEPT !.pc = "ended"]]
      BY <1>9, <2>1 DEF Unregister, Finish, Typed
    <2> QED
      BY <1>2, <2>2
  <1>10. ASSUME \/ Advances(s) \/ Registers(s) \/ SendAdd(s) \/ SendRemove(s)
                \/ WriterRemoves(s) \/ WriterUnhandles(s)
         PROVE  SameNode(s) /\ conn'[s].own = conn[s].own
    <2>1. \E x : \/ conn' = [conn EXCEPT ![s] = [conn[s] EXCEPT !.pc = x]]
                 \/ conn' = [conn EXCEPT ![s] = [conn[s] EXCEPT !.writer = x]]
      BY Zenon, <1>10 DEF Advances, Registers, SendAdd, SendRemove, WriterRemoves, WriterUnhandles, Goto, Typed
    <2> QED
      BY <1>2, <2>1
  <1>11. ASSUME Spawn(s) \/ ReadPort(s) \/ RemoveHandle(s) \/ Drop(s) \/ StopWriting(s)
         PROVE  SameNode(s) /\ conn'[s].own = conn[s].own
    <2>1. \/ conn'[s] = [conn[s] EXCEPT !.pc = "up", !.writer = "run"]
          \/ conn'[s] = [conn[s] EXCEPT !.pc = "remove", !.seen = handles[s]]
          \/ conn'[s] = [conn[s] EXCEPT !.pc = "unregister", !.cancel = TRUE]
          \/ conn'[s] = [conn[s] EXCEPT !.pc = "dropped", !.cancel = TRUE]
          \/ conn'[s] = [conn[s] EXCEPT !.writer = "remove", !.cancel = TRUE]
      BY Zenon, <1>11 DEF Spawn, ReadPort, RemoveHandle, Drop, StopWriting, Typed
    <2> QED
      BY Zenon, <1>3, <2>1
  <1>12. ASSUME NEW t \in Slot \ {s},
                \/ Opens(t) \/ GivesUp(t) \/ Forget(t) \/ Allocate(t) \/ Unregister(t) \/ Advances(t)
                \/ Registers(t) \/ SendAdd(t) \/ SendRemove(t) \/ WriterRemoves(t) \/ WriterUnhandles(t)
                \/ Spawn(t) \/ ReadPort(t) \/ RemoveHandle(t) \/ Drop(t) \/ StopWriting(t)
         PROVE  conn'[s] = conn[s]
    BY Zenon, <1>12 DEF Opens, GivesUp, Forget, Allocate, Unregister, Advances, Registers, SendAdd, SendRemove,
         WriterRemoves, WriterUnhandles, Spawn, ReadPort, RemoveHandle, Drop, StopWriting, Goto, Finish, Typed
  <1>13. ASSUME Route \/ Enter \/ UNCHANGED <<conn, tables, mail>> PROVE conn' = conn
    BY <1>13 DEF Route, Enter
  <1>14. ASSUME GivesUp(s) \/ Forget(s) PROVE UNCHANGED <<tables, mail>>
    BY <1>14 DEF GivesUp, Forget
  <1> HIDE DEF SameNode
  <1> QED
    BY <1>1, <1>4, <1>5, <1>6, <1>7, <1>8, <1>9, <1>10, <1>11, <1>12, <1>13, <1>14, Steps

\* Only these steps change the ports in Peers.
LEMMA PortSteps ==
    ASSUME [Next]_vars
    PROVE  \/ handles' = handles /\ used' = used
           \/ \E s \in Slot : Allocate(s)
           \/ \E s \in Slot : Unhandle(s)
  BY Zenon, Steps DEF tables, RemovePeer, Advances, GivesUp, Registers, SendAdd, Spawn, ReadPort, SendRemove,
     RemoveHandle, Unregister, Drop, Forget, WriterRemoves, WriterUnhandles, Route, Enter

\* Ports in Peers belong to one key each, and a key has one.
LEMMA PeersStep == Typed /\ Life /\ PeersAgree /\ [Next]_vars => PeersAgree'
  <1> SUFFICES ASSUME Typed, Life, PeersAgree, [Next]_vars PROVE PeersAgree'
    OBVIOUS
  <1>1. \A t \in Slot : handles[t] # 0 => conn'[t].key = conn[t].key
    BY Identity DEF SameNode, Unknown
  <1>2. CASE handles' = handles /\ used' = used
    BY <1>1, <1>2 DEF PeersAgree
  <1>3. ASSUME NEW s \in Slot, Allocate(s) PROVE PeersAgree'
    <2>1. PICK port \in Port :
            /\ handles' = [handles EXCEPT ![s] = port]
            /\ conn' = [conn EXCEPT ![s] = [[conn[s] EXCEPT !.pc = "send"] EXCEPT !.own = port]]
            /\ \/ /\ \A t \in Slot : handles[t] # 0 => conn[t].key # conn[s].key
                  /\ used[port] = None
                  /\ used' = [used EXCEPT ![port] = conn[s].key]
               \/ /\ \E t \in Slot : handles[t] = port /\ conn[t].key = conn[s].key
                  /\ used' = used
      BY Zenon, <1>3, Allocated
    <2>2. conn'[s].key = conn[s].key /\ conn[s].key \in Key /\ port # 0
      <3>1. conn[s] \in Conns /\ conn[s].pc = "allocate" /\ LifeAt(s)
        BY <1>3 DEF Typed, Allocate, At, Life
      <3>2. conn[s].key \in Key
        BY <3>1 DEF LifeAt, Born
      <3>3. conn'[s].key = conn[s].key
        BY <2>1, <3>1 DEF Typed, Conns
      <3> QED
        BY <3>2, <3>3 DEF Port
    <2>3. handles'[s] = port /\ \A t \in Slot \ {s} : handles'[t] = handles[t] /\ conn'[t] = conn[t]
      BY <2>1 DEF Typed
    <2>4. \A t \in Slot : handles[t] # 0 => handles[t] \in Port
      BY DEF Typed
    <2>5. None \notin Key
      BY LinksAssumption
    <2>6. handles[s] = 0
      BY <1>3 DEF Allocate, At, Life, LifeAt, Born
    <2>7. CASE /\ \A t \in Slot : handles[t] # 0 => conn[t].key # conn[s].key
               /\ used[port] = None
               /\ used' = [used EXCEPT ![port] = conn[s].key]
      <3>1. used'[port] = conn[s].key /\ \A p \in Port \ {port} : used'[p] = used[p]
        BY <2>7 DEF Typed
      <3>2. \A t \in Slot : handles[t] # 0 => handles[t] # port
        <4> SUFFICES ASSUME NEW t \in Slot, handles[t] # 0, handles[t] = port PROVE FALSE
          OBVIOUS
        <4>1. conn[t].key = None
          BY <2>7 DEF PeersAgree
        <4>2. LifeAt(t) /\ port # 0
          BY <2>2 DEF Life
        <4>3. conn[t].pc # "none"
          BY <4>2 DEF LifeAt, Born, NoConn
        <4> QED
          BY <2>5, <4>1, <4>2, <4>3 DEF LifeAt, Born
      <3>3. \A t \in Slot : handles'[t] # 0 => used'[handles'[t]] = conn'[t].key
        BY <2>2, <2>3, <2>4, <3>1, <3>2 DEF PeersAgree
      <3>4. \A p \in Port : used'[p] # None => \E t \in Slot : handles'[t] = p
        BY <2>2, <2>3, <2>6, <3>1 DEF PeersAgree, Port
      <3>5. \A r, t \in Slot :
              handles'[r] # 0 /\ handles'[t] # 0 /\ conn'[r].key = conn'[t].key => handles'[r] = handles'[t]
        BY <2>2, <2>3, <2>7 DEF PeersAgree
      <3> QED
        BY <3>3, <3>4, <3>5 DEF PeersAgree
    <2>8. CASE /\ \E t \in Slot : handles[t] = port /\ conn[t].key = conn[s].key
               /\ used' = used
      <3>1. PICK r \in Slot : handles[r] = port /\ conn[r].key = conn[s].key
        BY <2>8
      <3>2. \A t \in Slot : handles'[t] # 0 => used'[handles'[t]] = conn'[t].key
        BY <2>2, <2>3, <2>8, <3>1 DEF PeersAgree
      <3>3. \A p \in Port : used'[p] # None => \E t \in Slot : handles'[t] = p
        BY <2>2, <2>3, <2>6, <2>8 DEF PeersAgree, Port
      <3>4. \A t \in Slot : handles'[t] # 0 /\ conn'[t].key = conn[s].key => handles'[t] = port
        BY <2>2, <2>3, <3>1 DEF PeersAgree
      <3>5. \A q, t \in Slot :
              handles'[q] # 0 /\ handles'[t] # 0 /\ conn'[q].key = conn'[t].key => handles'[q] = handles'[t]
        BY <2>2, <2>3, <3>4 DEF PeersAgree
      <3> QED
        BY <3>2, <3>3, <3>5 DEF PeersAgree
    <2> QED
      BY <2>1, <2>7, <2>8
  <1>4. ASSUME NEW s \in Slot, Unhandle(s) PROVE PeersAgree'
    <2>1. handles'[s] = 0 /\ \A t \in Slot \ {s} : handles'[t] = handles[t]
      BY <1>4 DEF Unhandle, Typed
    <2>2. CASE handles[s] = 0
      <3>1. handles' = handles /\ used' = used
        BY <1>4, <2>2 DEF Unhandle, Typed
      <3> QED
        BY <1>2, <3>1
    <2>3. CASE handles[s] # 0 /\ \A t \in Slot \ {s} : handles[t] # 0 => conn[t].key # conn[s].key
      <3>1. used' = [used EXCEPT ![handles[s]] = None] /\ handles[s] \in Port
        BY <1>4, <2>3 DEF Unhandle, Typed
      <3>2. used'[handles[s]] = None /\ \A p \in Port \ {handles[s]} : used'[p] = used[p]
        BY <3>1 DEF Typed
      <3>3. \A t \in Slot \ {s} : handles[t] # 0 => handles[t] \in Port /\ handles[t] # handles[s]
        BY <2>3 DEF PeersAgree, Typed
      <3> QED
        BY <1>1, <2>1, <2>3, <3>1, <3>2, <3>3 DEF PeersAgree
    <2>4. CASE handles[s] # 0 /\ ~\A t \in Slot \ {s} : handles[t] # 0 => conn[t].key # conn[s].key
      <3>1. used' = used
        BY <1>4, <2>4 DEF Unhandle
      <3>2. PICK r \in Slot \ {s} : handles[r] # 0 /\ conn[r].key = conn[s].key
        BY <2>4
      <3>3. handles[r] = handles[s]
        BY <2>4, <3>2 DEF PeersAgree
      <3> QED
        BY <1>1, <2>1, <3>1, <3>3 DEF PeersAgree
    <2> QED
      BY <2>2, <2>3, <2>4
  <1> QED
    BY <1>2, <1>3, <1>4, PortSteps

\* No port is used at the start.
LEMMA PeersInit == Init => PeersAgree
  BY DEF Init, PeersAgree

\* Only these steps change the mail and what the router knows.
LEMMA MailSteps ==
    ASSUME Typed, [Next]_vars
    PROVE  \/ UNCHANGED mail
           \/ \E s \in Slot : SendAdd(s)
           \/ \E s \in Slot : \E m \in Messages : /\ m.op = "remove" /\ m.id = s /\ Send(m)
                                                  /\ SendRemove(s) /\ m.port = conn[s].seen
           \/ \E s \in Slot : \E m \in Messages : /\ m.op = "remove" /\ m.id = s /\ Send(m)
                                                  /\ WriterRemoves(s) /\ m.port = conn[s].own
           \/ Route \/ Enter
  <1>1. ASSUME NEW s \in Slot, SendRemove(s)
        PROVE  \E m \in Messages : m.op = "remove" /\ m.id = s /\ Send(m) /\ m.port = conn[s].seen
    <2>1. conn[s].seen \in Port \cup {0}
      BY DEF Typed, Conns
    <2> QED
      BY <1>1, <2>1, RemoveMsgTyped DEF SendRemove
  <1>2. ASSUME NEW s \in Slot, WriterRemoves(s)
        PROVE  \E m \in Messages : m.op = "remove" /\ m.id = s /\ Send(m) /\ m.port = conn[s].own
    <2>1. conn[s].own \in Port \cup {0}
      BY DEF Typed, Conns
    <2> QED
      BY <1>2, <2>1, RemoveMsgTyped DEF WriterRemoves
  <1>3. ASSUME NEW u \in Uri, RemovePeer(u) PROVE UNCHANGED mail
    BY <1>3 DEF RemovePeer
  <1>4. ASSUME NEW s \in Slot,
               \/ Advances(s) \/ GivesUp(s) \/ Registers(s) \/ Allocate(s) \/ Spawn(s) \/ ReadPort(s)
               \/ RemoveHandle(s) \/ Unregister(s) \/ Drop(s) \/ Forget(s) \/ WriterUnhandles(s)
        PROVE  UNCHANGED mail
    BY <1>4 DEF Advances, GivesUp, Registers, Allocate, Spawn, ReadPort, RemoveHandle, Unregister, Drop,
         Forget, WriterUnhandles
  <1> QED
    BY <1>1, <1>2, <1>3, <1>4, Steps

\* What the inbox holds after a message is put in at its end.
LEMMA Appended ==
    ASSUME inbox \in Seq(Messages), NEW m \in Messages, inbox' = Append(inbox, m)
    PROVE  /\ Len(inbox) \in Nat /\ DOMAIN inbox = 1 .. Len(inbox)
           /\ DOMAIN inbox' = 1 .. Len(inbox) + 1
           /\ inbox'[Len(inbox) + 1] = m
           /\ \A i \in DOMAIN inbox : inbox'[i] = inbox[i]
           /\ \A i \in DOMAIN inbox' : i = Len(inbox) + 1 \/ i \in DOMAIN inbox
  <1>1. /\ Len(inbox) \in Nat /\ DOMAIN inbox = 1 .. Len(inbox)
        /\ DOMAIN inbox' = 1 .. Len(inbox) + 1
        /\ inbox'[Len(inbox) + 1] = m
        /\ \A i \in DOMAIN inbox : inbox'[i] = inbox[i]
    OBVIOUS
  <1>2. \A i \in DOMAIN inbox' : i = Len(inbox) + 1 \/ i \in DOMAIN inbox
    BY <1>1
  <1> QED
    BY <1>1, <1>2

\* A connection is added once, under its port.
LEMMA AddedStep == Typed /\ Life /\ AddedOnce /\ PeersAgree /\ [Next]_vars => AddedOnce'
  <1> SUFFICES ASSUME Typed, Life, AddedOnce, PeersAgree, [Next]_vars PROVE AddedOnce'
    OBVIOUS
  <1> inbox \in Seq(Messages)
    BY DEF Typed
  <1>1. \A i \in DOMAIN inbox :
          inbox[i].op = "add" => inbox[i].port = conn'[inbox[i].id].own /\ inbox[i].id \in Slot
    <2> SUFFICES ASSUME NEW i \in DOMAIN inbox, inbox[i].op = "add"
                 PROVE  inbox[i].port = conn'[inbox[i].id].own /\ inbox[i].id \in Slot
      OBVIOUS
    <2>1. inbox[i] \in Messages
      OBVIOUS
    <2>2. PICK t \in Slot : t = inbox[i].id
      BY <2>1 DEF Messages
    <2>3. Adds(t)
      BY <2>2 DEF Adds, Mail
    <2>4. conn[t].own # 0
      BY <2>3 DEF Life, LifeAt, Born
    <2>5. conn'[t].own = conn[t].own
      BY <2>3, <2>4, Identity DEF Unknown
    <2> QED
      BY <2>2, <2>5 DEF AddedOnce
  <1>2. CASE UNCHANGED mail
    BY <1>1, <1>2 DEF AddedOnce, mail
  <1>3. ASSUME NEW m \in Messages, m.op = "remove", inbox' = Append(inbox, m), \A x \in waiting' : x.op = "remove"
        PROVE  AddedOnce'
    <2>1. \A i \in DOMAIN inbox' : inbox'[i].op = "add" => i \in DOMAIN inbox /\ inbox'[i] = inbox[i]
      BY <1>3, Appended
    <2> QED
      BY <1>1, <1>3, <2>1 DEF AddedOnce
  <1>4. ASSUME NEW m \in Messages, m.op = "remove", Send(m) PROVE AddedOnce'
    <2>1. \A x \in waiting' : x.op = "remove"
      BY <1>4 DEF Send, AddedOnce
    <2>2. CASE inbox' = inbox
      BY <1>1, <2>1, <2>2 DEF AddedOnce
    <2> QED
      BY <1>3, <1>4, <2>1, <2>2 DEF Send
  <1>5. CASE Enter
    <2>1. PICK m \in waiting : inbox' = Append(inbox, m) /\ waiting' = waiting \ {m}
      BY <1>5 DEF Enter
    <2>2. m \in Messages /\ m.op = "remove" /\ \A x \in waiting' : x.op = "remove"
      BY <2>1 DEF Typed, AddedOnce
    <2> QED
      BY <1>3, <2>1, <2>2
  <1>6. CASE Route
    <2>1. inbox # <<>> /\ inbox' = Tail(inbox) /\ waiting' = waiting
      BY <1>6 DEF Route
    <2>2. /\ DOMAIN inbox' = 1 .. Len(inbox) - 1 /\ Len(inbox) \in Nat
          /\ \A i \in DOMAIN inbox' : inbox'[i] = inbox[i + 1] /\ i + 1 \in DOMAIN inbox
      BY <2>1, MailTaken
    <2>3. \A i, j \in DOMAIN inbox' : i + 1 = j + 1 => i = j
      BY <2>2
    <2> QED
      BY <1>1, <2>1, <2>2, <2>3 DEF AddedOnce
  <1>7. ASSUME NEW s \in Slot, SendAdd(s) PROVE AddedOnce'
    <2> DEFINE m == [op |-> "add", id |-> s, port |-> conn[s].own, by |-> "task"]
    <2>1. inbox' = Append(inbox, m) /\ waiting' = waiting /\ conn[s].pc = "send"
      BY <1>7 DEF SendAdd, At
    <2>2. m \in Messages
      BY DEF Messages, Typed, Conns
    <2>3. m.op = "add" /\ m.id = s /\ m.port = conn[s].own
      OBVIOUS
    <2>4. conn'[s].own = conn[s].own
      BY <1>7 DEF SendAdd, Goto, Typed, Conns
    <2>5. ~Adds(s)
      BY <2>1 DEF Life, LifeAt, Heard
    <2>6. \A i \in DOMAIN inbox : ~(inbox[i].op = "add" /\ inbox[i].id = s)
      BY <2>5 DEF Adds, Mail
    <2> HIDE DEF m
    <2>7. /\ \A i \in DOMAIN inbox' : i = Len(inbox) + 1 \/ i \in DOMAIN inbox
          /\ inbox'[Len(inbox) + 1] = m
          /\ \A i \in DOMAIN inbox : inbox'[i] = inbox[i]
      BY <2>1, <2>2, Appended
    <2> QED
      BY <1>1, <2>1, <2>3, <2>4, <2>6, <2>7 DEF AddedOnce
  <1> QED
    BY <1>2, <1>4, <1>5, <1>6, <1>7, MailSteps

\* The inbox is empty at the start.
LEMMA AddedInit == Init => AddedOnce
  BY DEF Init, AddedOnce

(***************************************************************************)
(* The rows of the active links.                                           *)
(***************************************************************************)
(***************************************************************************)
(* The router's ports, as long as its inbox was never full.                *)
(***************************************************************************)
\* The steps that change the mail, when no message had to wait.
LEMMA InTurn ==
    ASSUME Typed, Ordered, [Next]_vars, ~full'
    PROVE  /\ ~full /\ waiting = {} /\ waiting' = {}
           /\ \/ UNCHANGED mail
              \/ \E s \in Slot : SendAdd(s)
              \/ \E s \in Slot : \E m \in Messages :
                   /\ m.op = "remove" /\ m.id = s /\ inbox' = Append(inbox, m) /\ router' = router
                   /\ \/ SendRemove(s) /\ m.port = conn[s].seen
                      \/ WriterRemoves(s) /\ m.port = conn[s].own
              \/ Route
  <1>1. ASSUME NEW m \in Messages, Send(m)
        PROVE  ~full /\ waiting' = waiting /\ inbox' = Append(inbox, m) /\ router' = router
    BY <1>1 DEF Send
  <1>2. ~full
    BY Zenon, <1>1, MailSteps DEF mail, SendAdd, Route, Enter
  <1>3. waiting = {}
    BY <1>2 DEF Ordered
  <1>4. ~Enter
    BY <1>3 DEF Enter
  <1>5. waiting' = {}
    BY Zenon, <1>1, <1>3, <1>4, MailSteps DEF mail, SendAdd, Route
  <1> QED
    BY <1>1, <1>2, <1>3, <1>4, <1>5, MailSteps

\* A link whose removal is in the mail has it in the inbox.
LEMMA RemoveInbox ==
    ASSUME waiting = {}, NEW s, Removes(s)
    PROVE  \E i \in DOMAIN inbox : IsRemove(i, s)
  BY DEF Removes, Mail, IsRemove

\* Connections that differ in key or port, but not both, are not there together.
LEMMA NoConflict ==
    ASSUME Typed, Life, PairsOrdered, NEW s \in router.ids, NEW t \in router.ids
    PROVE  ~Conflict(s, t)
  <1>1. s \in Slot /\ t \in Slot
    BY DEF Typed
  <1>2. conn[s].own # 0 /\ conn[t].own # 0
    BY <1>1 DEF Life, LifeAt, Born
  <1> QED
    BY <1>1, <1>2 DEF PairsOrdered, Before

\* The router is done with a before it hears of b, and stays so.
LEMMA BeforeStep ==
    ASSUME Typed, Life, PeersAgree, AddedOnce, Ordered, [Next]_vars, ~full',
           NEW a \in Slot, NEW b \in Slot, conn[a].own # 0, Before(a, b)
    PROVE  Before(a, b)'
  <1> inbox \in Seq(Messages)
    BY DEF Typed
  <1>1. waiting = {}
    BY InTurn
  <1>2. handles'[a] = 0
    <2>1. ASSUME NEW s \in Slot, Allocate(s) PROVE handles'[a] = 0
      <3>1. s # a
        BY <2>1 DEF Allocate, At, Life, LifeAt, Born
      <3> QED
        BY <2>1, <3>1 DEF Allocate, Before, Typed
    <2>2. ASSUME NEW s \in Slot, Unhandle(s) PROVE handles'[a] = 0
      BY <2>2 DEF Unhandle, Before, Typed
    <2> QED
      BY <2>1, <2>2, PortSteps DEF Before
  <1>3. a \in router.ids => \E i \in DOMAIN inbox : IsRemove(i, a)
    <2>1. a \in router.ids => Removes(a)
      BY DEF Before, Life, LifeAt, Handle
    <2> QED
      BY <1>1, <2>1, RemoveInbox
  <1>4. CASE UNCHANGED mail
    BY <1>2, <1>4 DEF Before, mail, IsRemove
  <1>5. ASSUME NEW m \in Messages, inbox' = Append(inbox, m), router' = router PROVE Before(a, b)'
    <2>1. /\ Len(inbox) \in Nat /\ DOMAIN inbox = 1 .. Len(inbox) /\ DOMAIN inbox' = 1 .. Len(inbox) + 1
          /\ \A i \in DOMAIN inbox : inbox'[i] = inbox[i]
          /\ \A i \in DOMAIN inbox' : i = Len(inbox) + 1 \/ i \in DOMAIN inbox
      BY <1>5, Appended
    <2>2. \A i \in DOMAIN inbox : IsRemove(i, a)' <=> IsRemove(i, a)
      BY <2>1 DEF IsRemove
    <2> SUFFICES ASSUME a \in router.ids
                 PROVE  /\ b \notin router.ids
                        /\ \A j \in DOMAIN inbox' : inbox'[j].op = "add" /\ inbox'[j].id = b =>
                             \E i \in DOMAIN inbox' : i < j /\ IsRemove(i, a)'
      BY <1>2, <1>5 DEF Before
    <2>3. b \notin router.ids
      BY DEF Before
    <2>4. ASSUME NEW j \in DOMAIN inbox, inbox'[j].op = "add", inbox'[j].id = b
          PROVE  \E i \in DOMAIN inbox' : i < j /\ IsRemove(i, a)'
      BY <2>1, <2>2, <2>4 DEF Before
    <2>5. \E i \in DOMAIN inbox' : i < Len(inbox) + 1 /\ IsRemove(i, a)'
      BY <1>3, <2>1, <2>2
    <2> QED
      BY <2>1, <2>3, <2>4, <2>5
  <1>6. CASE Route
    <2>1. inbox # <<>> /\ inbox' = Tail(inbox) /\ waiting' = waiting
      BY <1>6 DEF Route
    <2>2. /\ Len(inbox) \in Nat /\ 1 \in DOMAIN inbox /\ Head(inbox) = inbox[1]
          /\ DOMAIN inbox = 1 .. Len(inbox) /\ DOMAIN inbox' = 1 .. Len(inbox) - 1
          /\ \A i \in DOMAIN inbox' : inbox'[i] = inbox[i + 1] /\ i + 1 \in DOMAIN inbox
          /\ \A i \in DOMAIN inbox : i = 1 \/ (i - 1 \in DOMAIN inbox' /\ inbox[i] = inbox'[i - 1])
      BY <2>1, MailTaken
    <2> SUFFICES ASSUME a \in router'.ids
                 PROVE  /\ b \notin router'.ids
                        /\ \A j \in DOMAIN inbox' : inbox'[j].op = "add" /\ inbox'[j].id = b =>
                             \E i \in DOMAIN inbox' : i < j /\ IsRemove(i, a)'
      BY <1>2 DEF Before
    <2>3. ~(inbox[1].op = "add" /\ inbox[1].id = a)
      <3>1. ASSUME Adds(a) PROVE FALSE
        BY <3>1 DEF Before, Life, LifeAt, Handle, Heard
      <3> QED
        BY Zenon, <2>2, <3>1 DEF Adds, Mail
    <2>4. a \in router.ids /\ ~IsRemove(1, a)
      BY <1>6, <2>2, <2>3, RoutedIds DEF IsRemove
    <2>5. ~(inbox[1].op = "add" /\ inbox[1].id = b)
      BY <2>2, <2>4 DEF Before
    <2>6. b \notin router'.ids
      BY <1>6, <2>2, <2>4, <2>5, RoutedIds DEF Before
    <2>7. ASSUME NEW j \in DOMAIN inbox', inbox'[j].op = "add", inbox'[j].id = b
          PROVE  \E i \in DOMAIN inbox' : i < j /\ IsRemove(i, a)'
      <3>1. PICK i \in DOMAIN inbox : i < j + 1 /\ IsRemove(i, a)
        BY <2>2, <2>4, <2>7 DEF Before
      <3>2. i # 1
        BY <2>4, <3>1
      <3>3. i - 1 \in DOMAIN inbox' /\ i - 1 < j /\ inbox[i] = inbox'[i - 1]
        BY <2>2, <3>1, <3>2
      <3> QED
        BY <3>1, <3>3 DEF IsRemove
    <2> QED
      BY <2>6, <2>7
  <1>7. ASSUME NEW s \in Slot, SendAdd(s)
        PROVE  \E m \in Messages : inbox' = Append(inbox, m) /\ router' = router
    <2>1. [op |-> "add", id |-> s, port |-> conn[s].own, by |-> "task"] \in Messages
      BY DEF Messages, Typed, Conns
    <2> QED
      BY <1>7, <2>1 DEF SendAdd
  <1> QED
    BY <1>4, <1>5, <1>6, <1>7, InTurn

\* Conflicting connections stay in order.
LEMMA PairsStep ==
    ASSUME Typed, Life, PeersAgree, AddedOnce, Ordered, [Next]_vars, ~full', Life', PeersAgree'
    PROVE  PairsOrdered'
  <1> SUFFICES ASSUME NEW s \in Slot, NEW t \in Slot, conn'[s].own # 0, conn'[t].own # 0, Conflict(s, t)'
               PROVE  Before(s, t)' \/ Before(t, s)'
    BY DEF PairsOrdered
  <1>1. ASSUME NEW a \in Slot, NEW b \in Slot, Allocate(a), conn'[b].own # 0, Conflict(a, b)' PROVE Before(b, a)'
    <2>1. conn[a].own = 0 /\ UNCHANGED mail
      BY <1>1 DEF Allocate, At, Life, LifeAt, Born
    <2>2. a \notin router.ids /\ ~Adds(a)
      BY <2>1 DEF Life, LifeAt, Born
    <2>3. a # b
      BY <1>1 DEF Conflict
    <2>4. PICK port \in Port : handles' = [handles EXCEPT ![a] = port]
      BY Zenon, <1>1, Allocated
    <2>5. handles'[a] # 0
      BY <2>4 DEF Typed, Port
    <2>6. handles'[b] = 0
      <3> SUFFICES ASSUME handles'[b] # 0 PROVE FALSE
        OBVIOUS
      <3>1. handles'[a] = conn'[a].own /\ handles'[b] = conn'[b].own
        BY <2>5 DEF Life, LifeAt, Handle
      <3>2. (conn'[a].key = conn'[b].key) <=> (handles'[a] = handles'[b])
        BY <2>5 DEF PeersAgree
      <3> QED
        BY <1>1, <3>1, <3>2 DEF Conflict
    <2>7. a \notin router'.ids /\ \A j \in DOMAIN inbox' : ~(inbox'[j].op = "add" /\ inbox'[j].id = a)
      BY <2>1, <2>2 DEF mail, Adds, Mail
    <2> QED
      BY <2>6, <2>7 DEF Before
  <1>2. CASE Allocate(s)
    BY <1>1, <1>2
  <1>3. CASE Allocate(t)
    <2>1. Conflict(t, s)'
      BY DEF Conflict
    <2> QED
      BY <1>1, <1>3, <2>1
  <1>4. CASE ~Allocate(s) /\ ~Allocate(t)
    <2>1. /\ conn'[s].own = conn[s].own /\ conn'[s].key = conn[s].key
          /\ conn'[t].own = conn[t].own /\ conn'[t].key = conn[t].key
      BY <1>4, Identity DEF SameNode
    <2>2. conn[s].own # 0 /\ conn[t].own # 0 /\ Conflict(s, t)
      BY <2>1 DEF Conflict
    <2>3. PairsOrdered
      BY InTurn DEF Ordered
    <2>4. Before(s, t) \/ Before(t, s)
      BY <2>2, <2>3 DEF PairsOrdered
    <2> QED
      BY <2>2, <2>4, BeforeStep
  <1> QED
    BY <1>2, <1>3, <1>4

\* What the router knows of has been given its port.
LEMMA KnownSame ==
    ASSUME Typed, Life, PeersAgree, [Next]_vars, NEW s \in Slot, s \in router.ids \/ Adds(s) \/ Removes(s)
    PROVE  conn[s].own # 0 /\ conn'[s].own = conn[s].own /\ conn'[s].key = conn[s].key
  <1>1. conn[s].own # 0
    BY DEF Life, LifeAt, Born
  <1> QED
    BY <1>1, Identity DEF Unknown, SameNode

\* The first message that removes a link still has its port.
LEMMA FirstStep ==
    ASSUME Typed, Life, PeersAgree, AddedOnce, Ordered, [Next]_vars, ~full'
    PROVE  FirstRemoves'
  <1> inbox \in Seq(Messages)
    BY DEF Typed
  <1>0. FirstRemoves /\ waiting = {}
    BY Zenon, InTurn DEF Ordered
  <1> SUFFICES ASSUME NEW s \in router'.ids, NEW i \in DOMAIN inbox', IsRemove(i, s)'
               PROVE  inbox'[i].port = conn'[s].own \/ \E h \in DOMAIN inbox' : h < i /\ IsRemove(h, s)'
    BY DEF FirstRemoves
  <1>1. ASSUME s \in router.ids PROVE s \in Slot /\ conn'[s].own = conn[s].own
    BY <1>1, KnownSame DEF Typed
  <1>2. CASE UNCHANGED mail
    BY <1>0, <1>1, <1>2 DEF FirstRemoves, mail, IsRemove
  <1>3. ASSUME NEW m \in Messages, inbox' = Append(inbox, m), router' = router
        PROVE  /\ Len(inbox) \in Nat /\ DOMAIN inbox = 1 .. Len(inbox) /\ s \in router.ids
               /\ DOMAIN inbox' = 1 .. Len(inbox) + 1 /\ inbox'[Len(inbox) + 1] = m
               /\ \A h \in DOMAIN inbox : inbox'[h] = inbox[h] /\ (IsRemove(h, s)' <=> IsRemove(h, s))
               /\ i \in DOMAIN inbox =>
                    inbox'[i].port = conn'[s].own \/ \E h \in DOMAIN inbox' : h < i /\ IsRemove(h, s)'
    <2>1. /\ Len(inbox) \in Nat /\ DOMAIN inbox = 1 .. Len(inbox) /\ s \in router.ids
          /\ DOMAIN inbox' = 1 .. Len(inbox) + 1 /\ inbox'[Len(inbox) + 1] = m
          /\ \A h \in DOMAIN inbox : inbox'[h] = inbox[h]
      BY <1>3, Appended
    <2>2. \A h \in DOMAIN inbox : IsRemove(h, s)' <=> IsRemove(h, s)
      BY <2>1 DEF IsRemove
    <2>3. \A h \in DOMAIN inbox : h \in DOMAIN inbox'
      BY <2>1
    <2> QED
      BY <1>0, <1>1, <2>1, <2>2, <2>3 DEF FirstRemoves
  <1>4. ASSUME NEW r \in Slot, SendAdd(r)
        PROVE  inbox'[i].port = conn'[s].own \/ \E h \in DOMAIN inbox' : h < i /\ IsRemove(h, s)'
    <2> DEFINE m == [op |-> "add", id |-> r, port |-> conn[r].own, by |-> "task"]
    <2>1. m \in Messages
      BY DEF Messages, Typed, Conns
    <2>2. inbox' = Append(inbox, m) /\ router' = router /\ m.op = "add"
      BY <1>4 DEF SendAdd
    <2> HIDE DEF m
    <2>3. /\ Len(inbox) \in Nat /\ DOMAIN inbox = 1 .. Len(inbox)
          /\ DOMAIN inbox' = 1 .. Len(inbox) + 1 /\ inbox'[Len(inbox) + 1] = m
      BY Zenon, <1>3, <2>1, <2>2
    <2>4. i # Len(inbox) + 1
      BY <2>2, <2>3 DEF IsRemove
    <2>5. i \in DOMAIN inbox
      BY <2>3, <2>4
    <2> QED
      BY Zenon, <1>3, <2>1, <2>2, <2>5
  <1>5. ASSUME NEW r \in Slot, NEW m \in Messages, m.op = "remove", m.id = r,
               inbox' = Append(inbox, m), router' = router,
               \/ SendRemove(r) /\ m.port = conn[r].seen
               \/ WriterRemoves(r) /\ m.port = conn[r].own
        PROVE  inbox'[i].port = conn'[s].own \/ \E h \in DOMAIN inbox' : h < i /\ IsRemove(h, s)'
    <2>1. CASE i \in DOMAIN inbox
      BY <1>3, <1>5, <2>1
    <2>2. CASE i \notin DOMAIN inbox
      <3>1. i = Len(inbox) + 1 /\ inbox'[i] = m /\ s \in router.ids
        BY <1>3, <1>5, <2>2
      <3>2. r = s
        BY <1>5, <3>1 DEF IsRemove
      <3>3. CASE m.port = conn[s].own
        BY <1>1, <3>1, <3>3
      <3>4. CASE m.port # conn[s].own
        <4>1. conn[s].pc = "remove" /\ conn[s].seen # conn[s].own
          BY <1>5, <3>2, <3>4 DEF SendRemove, At
        <4>2. Removes(s)
          BY Zenon, <1>1, <3>1, <4>1 DEF Life, LifeAt, Handle, Heard
        <4>3. PICK h \in DOMAIN inbox : IsRemove(h, s)
          BY <1>0, <4>2, RemoveInbox
        <4>4. h \in DOMAIN inbox' /\ h < i /\ IsRemove(h, s)'
          BY <1>3, <1>5, <3>1, <4>3
        <4> QED
          BY <4>4
      <3> QED
        BY <3>3, <3>4
    <2> QED
      BY <2>1, <2>2
  <1>6. CASE Route
    <2>1. inbox # <<>> /\ inbox' = Tail(inbox) /\ waiting' = waiting
      BY <1>6 DEF Route
    <2>2. /\ Len(inbox) \in Nat /\ 1 \in DOMAIN inbox /\ Head(inbox) = inbox[1]
          /\ DOMAIN inbox = 1 .. Len(inbox) /\ DOMAIN inbox' = 1 .. Len(inbox) - 1
          /\ \A h \in DOMAIN inbox' : inbox'[h] = inbox[h + 1] /\ h + 1 \in DOMAIN inbox
          /\ \A h \in DOMAIN inbox : h = 1 \/ (h - 1 \in DOMAIN inbox' /\ inbox[h] = inbox'[h - 1])
      BY <2>1, MailTaken
    <2>3. Removes(s) /\ s \in Slot
      <3>1. IsRemove(i + 1, s) /\ i + 1 \in DOMAIN inbox
        BY <2>2 DEF IsRemove
      <3>2. s \in Slot
        BY <1>6, Routed
      <3> QED
        BY <3>1, <3>2 DEF IsRemove, Removes, Mail
    <2>4. ~Adds(s)
      BY <2>3 DEF Life, LifeAt, Heard
    <2>5. ~(inbox[1].op = "add" /\ inbox[1].id = s)
      BY Zenon, <2>2, <2>4 DEF Adds, Mail
    <2>6. s \in router.ids /\ ~IsRemove(1, s)
      BY <1>6, <2>2, <2>5, RoutedIds DEF IsRemove
    <2>7. IsRemove(i + 1, s) /\ i + 1 \in DOMAIN inbox /\ inbox'[i] = inbox[i + 1]
      BY <2>2 DEF IsRemove
    <2>8. inbox[i + 1].port = conn[s].own \/ \E h \in DOMAIN inbox : h < i + 1 /\ IsRemove(h, s)
      BY <1>0, <2>6, <2>7 DEF FirstRemoves
    <2>9. ASSUME NEW h \in DOMAIN inbox, h < i + 1, IsRemove(h, s)
          PROVE  \E g \in DOMAIN inbox' : g < i /\ IsRemove(g, s)'
      <3>1. h # 1
        BY <2>6, <2>9
      <3>2. h - 1 \in DOMAIN inbox' /\ h - 1 < i /\ inbox[h] = inbox'[h - 1]
        BY <2>2, <2>9, <3>1
      <3> QED
        BY <2>9, <3>2 DEF IsRemove
    <2> QED
      BY Zenon, <1>1, <2>6, <2>7, <2>8, <2>9
  <1> QED
    BY Zenon, <1>2, <1>4, <1>5, <1>6, InTurn

\* The ports of the router when it adds a link.
LEMMA AddsPort ==
    ASSUME Typed, Life, AddedOnce, Ordered, ~full, PortsAgree, Route, Head(inbox).op = "add",
           NEW t \in Slot, t = Head(inbox).id
    PROVE  PortsAgree'
  <1> inbox \in Seq(Messages) /\ inbox # <<>>
    BY DEF Typed, Route
  <1>1. /\ 1 \in DOMAIN inbox /\ Head(inbox) = inbox[1]
        /\ \A h \in DOMAIN inbox : ~(h < 1)
    OBVIOUS
  <1>2. Adds(t) /\ Head(inbox).port = conn[t].own
    BY <1>1 DEF Adds, Mail, AddedOnce
  <1>3. conn[t].own # 0 /\ handles[t] # 0
    BY Zenon, <1>2 DEF Life, LifeAt, Born, Handle, Heard
  <1>4. ASSUME NEW s \in router.ids PROVE conn[s].own \in Port /\ ~Conflict(s, t)
    <2>1. s \in Slot /\ conn[s].own # 0
      BY <1>4 DEF Typed, Life, LifeAt, Born
    <2>2. conn[s].own \in Port
      BY <2>1 DEF Typed, Conns
    <2>3. ~Before(s, t)
      BY <1>1, <1>4 DEF Before
    <2>4. ~Before(t, s)
      BY <1>3 DEF Before
    <2> QED
      BY <1>3, <2>1, <2>2, <2>3, <2>4 DEF Ordered, PairsOrdered
  <1>5. conn[t].own \in Port
    BY <1>3 DEF Typed, Conns
  <1>6. conn' = conn /\ router' = Added(router, Head(inbox))
    BY DEF Route
  <1>7. router'.ids = router.ids \cup {t}
    BY <1>6 DEF Added
  <1>8. router.ports \in [Port -> Key \cup {None}]
    BY DEF Typed
  <1>9. /\ \A s \in router.ids : router.ports[conn[s].own] = conn[s].key
        /\ \A p \in Port : router.ports[p] # None =>
             \E s \in router.ids : conn[s].own = p /\ conn[s].key = router.ports[p]
    BY DEF PortsAgree
  <1>10. CASE LinksOf(router, conn[t].key) = {}
    <2>1. router'.ports = [router.ports EXCEPT ![conn[t].own] = conn[t].key]
      BY <1>2, <1>6, <1>10 DEF Added
    <2>2. \A s \in router.ids : conn[s].key # conn[t].key
      BY <1>10 DEF LinksOf
    <2>3. \A s \in router.ids : conn[s].own # conn[t].own
      BY <1>4, <2>2 DEF Conflict
    <2>4. \A s \in router'.ids : router'.ports[conn'[s].own] = conn'[s].key
      <3> SUFFICES ASSUME NEW s \in router'.ids PROVE router'.ports[conn[s].own] = conn[s].key
        BY Zenon, <1>6
      <3>1. router'.ports[conn[t].own] = conn[t].key
        BY Zenon, <1>5, <1>8, <2>1
      <3>2. ASSUME s \in router.ids PROVE router'.ports[conn[s].own] = router.ports[conn[s].own]
        BY Zenon, <1>4, <1>8, <2>1, <2>3, <3>2
      <3> QED
        BY Zenon, <1>7, <1>9, <3>1, <3>2
    <2>5. ASSUME NEW p \in Port, router'.ports[p] # None
          PROVE  \E s \in router'.ids : conn'[s].own = p /\ conn'[s].key = router'.ports[p]
      <3>1. CASE p = conn[t].own
        BY <1>6, <1>7, <1>8, <2>1, <3>1
      <3>2. CASE p # conn[t].own
        BY <1>6, <1>7, <1>8, <1>9, <2>1, <2>5, <3>2
      <3> QED
        BY <3>1, <3>2
    <2> QED
      BY <2>4, <2>5 DEF PortsAgree
  <1>11. CASE LinksOf(router, conn[t].key) # {}
    <2>1. router'.ports = router.ports
      BY <1>6, <1>11 DEF Added
    <2>2. PICK s \in router.ids : conn[s].key = conn[t].key
      BY <1>11 DEF LinksOf
    <2>3. conn[s].own = conn[t].own
      BY <1>4, <2>2 DEF Conflict
    <2> QED
      BY <1>6, <1>7, <1>9, <2>1, <2>2, <2>3 DEF PortsAgree
  <1> QED
    BY <1>10, <1>11

\* The ports of the router when it removes one.
LEMMA RemovesPort ==
    ASSUME Typed, Life, Ordered, ~full, PortsAgree, Route, Head(inbox).op = "remove",
           NEW t \in Slot, t = Head(inbox).id
    PROVE  PortsAgree'
  <1> inbox \in Seq(Messages) /\ inbox # <<>>
    BY DEF Typed, Route
  <1>1. /\ 1 \in DOMAIN inbox /\ Head(inbox) = inbox[1]
        /\ \A h \in DOMAIN inbox : ~(h < 1)
    OBVIOUS
  <1>2. conn' = conn /\ router' = Removed(router, Head(inbox))
    BY DEF Route
  <1>3. router'.ids = router.ids \ {t}
    BY <1>2 DEF Removed
  <1>4. \A s \in router.ids : s \in Slot /\ conn[s].own \in Port /\ \A r \in router.ids : ~Conflict(s, r)
    <2>1. PairsOrdered
      BY DEF Ordered
    <2>2. ASSUME NEW s \in router.ids PROVE s \in Slot /\ conn[s].own \in Port
      BY DEF Typed, Conns, Life, LifeAt, Born
    <2> QED
      BY <2>1, <2>2, NoConflict
  <1>5. router.ports \in [Port -> Key \cup {None}]
    BY DEF Typed
  <1>6. /\ \A s \in router.ids : router.ports[conn[s].own] = conn[s].key
        /\ \A p \in Port : router.ports[p] # None =>
             \E s \in router.ids : conn[s].own = p /\ conn[s].key = router.ports[p]
    BY DEF PortsAgree
  <1>7. CASE LinksOf(router, conn[t].key) = {t}
    <2>1. t \in router.ids /\ \A s \in router.ids : conn[s].key = conn[t].key => s = t
      BY <1>7 DEF LinksOf
    <2>2. Head(inbox).port = conn[t].own
      BY <1>1, <2>1 DEF Ordered, FirstRemoves, IsRemove
    <2>3. router'.ports = [p \in Port |-> IF p = conn[t].own THEN None ELSE router.ports[p]]
      BY <1>2, <1>7, <2>2 DEF Removed
    <2>4. \A s \in router'.ids : s \in router.ids /\ s # t /\ conn[s].own # conn[t].own
      BY <1>3, <1>4, <2>1 DEF Conflict
    <2>5. \A s \in router'.ids : router'.ports[conn'[s].own] = conn'[s].key
      BY <1>2, <1>4, <1>6, <2>3, <2>4
    <2>6. ASSUME NEW p \in Port, router'.ports[p] # None
          PROVE  \E s \in router'.ids : conn'[s].own = p /\ conn'[s].key = router'.ports[p]
      <3>1. p # conn[t].own /\ router'.ports[p] = router.ports[p]
        BY <2>3, <2>6
      <3>2. PICK s \in router.ids : conn[s].own = p /\ conn[s].key = router.ports[p]
        BY <1>6, <2>6, <3>1
      <3> QED
        BY <1>2, <1>3, <3>1, <3>2
    <2> QED
      BY <2>5, <2>6 DEF PortsAgree
  <1>8. CASE LinksOf(router, conn[t].key) # {t}
    <2>1. router'.ports = router.ports
      BY <1>2, <1>8 DEF Removed
    <2>2. ASSUME NEW p \in Port, router'.ports[p] # None
          PROVE  \E s \in router'.ids : conn'[s].own = p /\ conn'[s].key = router'.ports[p]
      <3>1. PICK s \in router.ids : conn[s].own = p /\ conn[s].key = router.ports[p]
        BY <1>6, <2>1, <2>2
      <3>2. CASE s # t
        BY <1>2, <1>3, <2>1, <3>1, <3>2
      <3>3. CASE s = t
        <4>1. PICK r \in router.ids : r # t /\ conn[r].key = conn[t].key
          BY <1>8, <3>1, <3>3 DEF LinksOf
        <4>2. conn[r].own = conn[t].own
          BY <1>4, <3>3, <4>1 DEF Conflict
        <4> QED
          BY <1>2, <1>3, <2>1, <3>1, <3>3, <4>1, <4>2
      <3> QED
        BY <3>2, <3>3
    <2> QED
      BY <1>2, <1>3, <1>6, <2>1, <2>2 DEF PortsAgree
  <1> QED
    BY <1>7, <1>8

\* PortsAgree goes from state to state.
LEMMA PortsStep ==
    Typed /\ Life /\ PeersAgree /\ AddedOnce /\ Ordered /\ PortsAgree /\ [Next]_vars => PortsAgree'
  <1> SUFFICES ASSUME Typed, Life, PeersAgree, AddedOnce, Ordered, PortsAgree, [Next]_vars, ~full'
               PROVE  PortsAgree'
    BY DEF PortsAgree
  <1>1. ~full
    BY InTurn
  <1>2. CASE router' = router
    <2>1. \A s \in router.ids : s \in Slot /\ conn'[s].own = conn[s].own /\ conn'[s].key = conn[s].key
      BY KnownSame DEF Typed
    <2> QED
      BY <1>1, <1>2, <2>1 DEF PortsAgree
  <1>3. CASE Route
    <2>1. Head(inbox).op \in {"add", "remove"}
      BY <1>3, RoutedIds
    <2>2. PICK t \in Slot : t = Head(inbox).id
      BY <1>3, RoutedIds
    <2> QED
      BY <1>1, <1>3, <2>1, <2>2, AddsPort, RemovesPort
  <1>4. router' = router \/ Route
    BY Zenon, InTurn DEF mail, SendAdd
  <1> QED
    BY <1>2, <1>3, <1>4

\* Ordered goes from state to state.
LEMMA OrderedStep ==
    Typed /\ Life /\ PeersAgree /\ AddedOnce /\ Ordered /\ [Next]_vars => Ordered'
  <1> SUFFICES ASSUME Typed, Life, PeersAgree, AddedOnce, Ordered, [Next]_vars, ~full'
               PROVE  waiting' = {} /\ PairsOrdered' /\ FirstRemoves'
    BY DEF Ordered
  <1>1. Life' /\ PeersAgree'
    BY LifeStep, PeersStep
  <1> QED
    BY <1>1, InTurn, PairsStep, FirstStep

\* What the proofs below rest on.
Inv == Typed /\ Life /\ PeersAgree /\ AddedOnce /\ Ordered /\ PortsAgree

\* There are no links at the start.
LEMMA InvInit == Init => Inv
  <1> SUFFICES ASSUME Init PROVE Inv
    OBVIOUS
  <1>1. \A s \in Slot : conn[s].own = 0
    BY Zenon DEF Init, NoConn
  <1>2. Ordered
    BY Zenon, <1>1 DEF Init, Ordered, PairsOrdered, FirstRemoves
  <1>3. PortsAgree
    BY DEF Init, PortsAgree
  <1> QED
    BY <1>2, <1>3, TypedInit, LifeInit, PeersInit, AddedInit DEF Inv

\* No step of any task, and none of the router, breaks it.
LEMMA InvStep == Inv /\ [Next]_vars => Inv'
  BY TypedStep, LifeStep, PeersStep, AddedStep, OrderedStep, PortsStep DEF Inv

\* The invariant of the links holds at all times.
LEMMA InvHolds == Spec => []Inv
  <1> QED
    BY InvInit, InvStep, PTL DEF Spec

\* Whichever of reader, writer and remove_peer() came first, a link that is gone
\* is in none of the tables when all is quiet, and one that is up is in all three
\* (NoLeftovers; handle_conn() and its two tasks).
THEOREM NoLeftoversHolds == Spec => []NoLeftovers
  <1>1. Inv => NoLeftovers
    BY QuietTables DEF Inv
  <1> QED
    BY <1>1, InvHolds, PTL

\* As long as its inbox has not been full, the router finds every link by its port,
\* though Peers is ahead of it and every link is removed twice (PortsAgree).
THEOREM PortsAgreeHolds == Spec => []PortsAgree
  <1>1. Inv => PortsAgree
    BY DEF Inv
  <1> QED
    BY <1>1, InvHolds, PTL

(***************************************************************************)
(* Rows and sockets.                                                       *)
(***************************************************************************)
INSTANCE FiniteSetTheorems

\* Rows are only removed, or added by register().
LEMMA RowSteps ==
    ASSUME [Next]_vars
    PROVE  active' \subseteq active \/ \E s \in Slot : Registers(s)
  BY Zenon, Steps DEF tables, RemovePeer, Advances, GivesUp, Allocate, SendAdd, Spawn, ReadPort, SendRemove,
     RemoveHandle, Unhandle, Unregister, Drop, Forget, WriterRemoves, WriterUnhandles, Route, Enter

\* Sockets stay distinct.
LEMMA SocketsStep == Typed /\ Life /\ PeersAgree /\ SocketsDistinct /\ [Next]_vars => SocketsDistinct'
  <1> SUFFICES ASSUME Typed, Life, PeersAgree, SocketsDistinct, [Next]_vars PROVE SocketsDistinct'
    OBVIOUS
  <1>1. \A t \in active : SameNode(t)
    BY Identity DEF Unknown, Typed
  <1>2. \A k : IsFiniteSet(InboundOf(k)) /\ Cardinality(InboundOf(k)) \in Nat
    <2> TAKE k
    <2>1. InboundOf(k) \in SUBSET Slot
      BY DEF InboundOf, Typed
    <2> QED
      BY <2>1, LinksAssumption, FS_Subset, FS_CardinalityType
  <1>3. CASE active' \subseteq active
    <2>1. \A s, t \in active' : SameSocket(s, t)' => s = t
      BY <1>1, <1>3 DEF SocketsDistinct, SameSocket, Inward, SameNode
    <2>2. ASSUME NEW k \in Key, Inbound > 0 PROVE Cardinality(InboundOf(k)') <= Inbound
      <3>1. InboundOf(k)' \in SUBSET InboundOf(k)
        BY <1>1, <1>3 DEF InboundOf, Inward, SameNode
      <3>2. IsFiniteSet(InboundOf(k)') /\ Cardinality(InboundOf(k)') <= Cardinality(InboundOf(k))
        BY <1>2, <3>1, FS_Subset
      <3>3. Cardinality(InboundOf(k)') \in Nat
        BY <3>2, FS_CardinalityType
      <3> QED
        BY <1>2, <2>2, <3>2, <3>3, LinksAssumption DEF SocketsDistinct
    <2> QED
      BY <2>1, <2>2 DEF SocketsDistinct
  <1>4. ASSUME NEW s \in Slot, Registers(s) PROVE SocketsDistinct'
    <2>1. /\ MayRegister(s) /\ active' = active \cup {s}
          /\ \A t \in active \cup {s} : SameNode(t)
      <3>1. SameNode(s)
        BY <1>4 DEF Registers, Goto, Typed, Conns, SameNode
      <3> QED
        BY <1>1, <1>4, <3>1 DEF Registers
    <2>2. \A r, t \in active' : SameSocket(r, t)' => r = t
      BY <2>1 DEF SocketsDistinct, MayRegister, SameSocket, Inward, SameNode
    <2>3. ASSUME NEW k \in Key, Inbound > 0 PROVE Cardinality(InboundOf(k)') <= Inbound
      <3>1. CASE conn[s].key = k /\ Inward(s)
        <4>0. \A t \in active' : (conn'[t].key = k /\ Inward(t)') <=> (conn[t].key = k /\ Inward(t))
          BY <2>1 DEF Inward, SameNode
        <4>1. InboundOf(k)' = InboundOf(k) \cup {s}
          BY <2>1, <3>1, <4>0 DEF InboundOf
        <4>2. Cardinality(InboundOf(k)) < Inbound
          BY <2>1, <2>3, <3>1 DEF MayRegister
        <4>3. Cardinality(InboundOf(k) \cup {s}) =
                IF s \in InboundOf(k) THEN Cardinality(InboundOf(k)) ELSE Cardinality(InboundOf(k)) + 1
          BY <1>2, FS_AddElement
        <4>4. Cardinality(InboundOf(k) \cup {s}) \in Nat
          BY <1>2, FS_AddElement, FS_CardinalityType
        <4> QED
          BY <1>2, <4>1, <4>2, <4>3, <4>4, LinksAssumption
      <3>2. CASE ~(conn[s].key = k /\ Inward(s))
        <4>1. \A t \in active' : (conn'[t].key = k /\ Inward(t)') <=> (conn[t].key = k /\ Inward(t))
          BY <2>1 DEF Inward, SameNode
        <4>2. InboundOf(k)' = InboundOf(k)
          BY <2>1, <3>2, <4>1 DEF InboundOf
        <4> QED
          BY <2>3, <4>2 DEF SocketsDistinct
      <3> QED
        BY <3>1, <3>2
    <2> QED
      BY <2>2, <2>3 DEF SocketsDistinct
  <1> QED
    BY <1>3, <1>4, RowSteps

\* There are no rows at the start.
LEMMA SocketsInit == Init => SocketsDistinct
  <1> SUFFICES ASSUME Init PROVE SocketsDistinct
    OBVIOUS
  <1>1. active = {}
    BY DEF Init
  <1>2. \A k : InboundOf(k) = {}
    BY <1>1 DEF InboundOf
  <1> QED
    BY <1>1, <1>2, FS_EmptySet, LinksAssumption DEF SocketsDistinct

\* No two links go to a node over the same socket in the same direction, and no
\* node has more inbound links than allowed: register() is the only one that makes
\* a row, and looks at all the others (SocketsDistinct).
THEOREM SocketsDistinctHolds == Spec => []SocketsDistinct
  <1>1. Inv => Typed /\ Life /\ PeersAgree
    BY DEF Inv
  <1> QED
    BY <1>1, InvHolds, SocketsInit, SocketsStep, PTL DEF Spec
=============================================================================
