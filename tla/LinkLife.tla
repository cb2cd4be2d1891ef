------------------------------ MODULE LinkLife ------------------------------
(***************************************************************************)
(* The life of a connection, for any URIs, keys and sockets and any number *)
(* of connections: what each step of its tasks, of remove_peer() and of    *)
(* the router does to it, and what the tables have of it in between.       *)
(***************************************************************************)
EXTENDS Links, TLAPS

\* The values that the state of a connection and a message to the router may have.
Kinds == {"none", "persistent", "incoming", "ephemeral"}
Early == {"none", "connect", "handshake", "register"}
Pcs == Early \cup {"allocate", "send", "adding", "up", "port", "remove", "peers", "unregister",
                   "ended", "dropped"}
Writers == {"none", "run", "remove", "peers", "ended"}
Conns ==
    [kind : Kinds, uri : Uri \cup {None}, key : Key \cup {None}, sock : Int, pc : Pcs,
     writer : Writers, cancel : BOOLEAN, abort : BOOLEAN, own : Port \cup {0}, seen : Port \cup {0}]
Messages ==
    [op : {"add", "remove"}, id : Slot, port : Port \cup {0}, by : {"task", "reader", "writer"}]

Typed ==
    /\ conn \in [Slot -> Conns]
    /\ active \subseteq Slot
    /\ handles \in [Slot -> Port \cup {0}]
    /\ used \in [Port -> Key \cup {None}]
    /\ router \in [ids : SUBSET Slot, ports : [Port -> Key \cup {None}]]
    /\ inbox \in Seq(Messages)
    /\ waiting \in SUBSET Messages

\* What the router has not yet taken, and what of it is about s.
Mail == {inbox[i] : i \in DOMAIN inbox} \cup waiting
Adds(s) == \E m \in Mail : m.op = "add" /\ m.id = s
Removes(s) == \E m \in Mail : m.op = "remove" /\ m.id = s

\* A connection up to its port.
Born(s) ==
    /\ conn[s].pc = "none" => conn[s] = NoConn
    /\ conn[s].pc # "none" => conn[s].key \in Key
    /\ conn[s].pc \in Early => s \notin active
    /\ conn[s].pc \in Early \cup {"allocate"} => conn[s].own = 0
    /\ conn[s].own = 0 =>
         /\ conn[s].pc \in Early \cup {"allocate", "dropped"}
         /\ conn[s].writer = "none"
         /\ handles[s] = 0
         /\ s \notin router.ids
         /\ ~Adds(s) /\ ~Removes(s)

\* The row of a connection.
Row(s) ==
    /\ conn[s].pc = "ended" => s \notin active
    /\ conn[s].pc \in {"allocate", "send", "adding", "up", "port", "remove", "peers", "unregister"}
         => conn[s].abort \/ s \in active
    /\ conn[s].abort /\ conn[s].writer # "none" => s \notin active
    /\ conn[s].pc = "dropped" => conn[s].abort /\ conn[s].cancel
    /\ conn[s].writer \in {"remove", "peers", "ended"} => conn[s].cancel

\* Its handle.
Handle(s) ==
    /\ handles[s] # 0 => handles[s] = conn[s].own
    /\ conn[s].pc \in {"send", "adding"} => conn[s].writer = "none"
    /\ conn[s].pc \in {"up", "port", "remove", "peers", "unregister", "ended"} => conn[s].writer # "none"
    /\ conn[s].pc \in {"unregister", "ended"} \/ conn[s].writer = "ended" => handles[s] = 0
    /\ conn[s].own # 0 /\ handles[s] = 0 => conn[s].writer # "none" /\ (s \notin router.ids \/ Removes(s))
    /\ conn[s].pc \in {"up", "port", "remove", "peers"} /\ handles[s] = 0 => conn[s].writer = "ended"
    /\ conn[s].pc = "remove" => conn[s].seen = conn[s].own \/ conn[s].writer = "ended"

\* What the router knows and hears of it.
Heard(s) ==
    /\ conn[s].pc = "send" => s \notin router.ids
    /\ Adds(s) => conn[s].pc \in {"adding", "dropped"} /\ conn[s].writer = "none" /\ s \notin router.ids
    /\ conn[s].pc \in {"up", "port", "remove"} /\ conn[s].writer \in {"run", "remove"} =>
         s \in router.ids /\ ~Removes(s)
    /\ conn[s].pc \in {"peers", "unregister", "ended"} \/ conn[s].writer \in {"peers", "ended"} =>
         s \notin router.ids \/ Removes(s)
    /\ Removes(s) => conn[s].writer # "none"

LifeAt(s) == Born(s) /\ Row(s) /\ Handle(s) /\ Heard(s)
Life == \A s \in Slot : LifeAt(s)

\* Every link is added once, under its port.
AddedOnce ==
    /\ \A m \in waiting : m.op = "remove"
    /\ \A i, j \in DOMAIN inbox :
         inbox[i].op = "add" /\ inbox[j].op = "add" /\ inbox[i].id = inbox[j].id => i = j
    /\ \A i \in DOMAIN inbox : inbox[i].op = "add" => inbox[i].port = conn[inbox[i].id].own

\* The ports of Peers.
PeersAgree ==
    /\ \A s \in Slot : handles[s] # 0 => used[handles[s]] = conn[s].key
    /\ \A p \in Port : used[p] # None => \E s \in Slot : handles[s] = p
    /\ \A s, t \in Slot :
         handles[s] # 0 /\ handles[t] # 0 /\ conn[s].key = conn[t].key => handles[s] = handles[t]

(***************************************************************************)
(* The mail.                                                               *)
(***************************************************************************)
\* A message put in at the end of the inbox is in the mail, with all that was.
LEMMA MailAppended ==
    ASSUME inbox \in Seq(Messages), NEW m \in Messages, inbox' = Append(inbox, m),
           NEW W, waiting \subseteq W \cup {m}, waiting' = W, W \subseteq waiting
    PROVE  Mail' = Mail \cup {m}
  <1>1. DOMAIN inbox = 1 .. Len(inbox) /\ DOMAIN inbox' = 1 .. Len(inbox) + 1 /\ Len(inbox) \in Nat
    OBVIOUS
  <1>2. inbox'[Len(inbox) + 1] = m /\ \A i \in DOMAIN inbox : inbox'[i] = inbox[i]
    OBVIOUS
  <1>3. ASSUME NEW x \in Mail' PROVE x \in Mail \cup {m}
    BY <1>1, <1>2 DEF Mail
  <1>4. ASSUME NEW x \in Mail \cup {m} PROVE x \in Mail'
    BY <1>1, <1>2 DEF Mail
  <1> QED
    BY <1>3, <1>4

\* The router takes one message from the mail, at the head of the inbox.
LEMMA MailTaken ==
    ASSUME inbox \in Seq(Messages), inbox # <<>>, inbox' = Tail(inbox), waiting' = waiting
    PROVE  /\ Mail' \subseteq Mail
           /\ Head(inbox) \in Mail
           /\ \A m \in Mail : m = Head(inbox) \/ m \in Mail'
           /\ Len(inbox) \in Nat \ {0}
           /\ DOMAIN inbox = 1 .. Len(inbox) /\ DOMAIN inbox' = 1 .. Len(inbox) - 1
           /\ \A i \in DOMAIN inbox' : inbox'[i] = inbox[i + 1] /\ i + 1 \in DOMAIN inbox
           /\ \A i \in DOMAIN inbox : i = 1 \/ (i - 1 \in DOMAIN inbox' /\ inbox[i] = inbox'[i - 1])
  <1>1. Len(inbox) \in Nat \ {0} /\ DOMAIN inbox = 1 .. Len(inbox) /\ Head(inbox) = inbox[1]
    OBVIOUS
  <1>2. DOMAIN inbox' = 1 .. Len(inbox) - 1 /\ \A i \in DOMAIN inbox' : inbox'[i] = inbox[i + 1]
    OBVIOUS
  <1>3. \A i \in DOMAIN inbox' : inbox'[i] = inbox[i + 1] /\ i + 1 \in DOMAIN inbox
    BY <1>1, <1>2
  <1>4. \A i \in DOMAIN inbox : i = 1 \/ (i - 1 \in DOMAIN inbox' /\ inbox[i] = inbox'[i - 1])
    BY <1>1, <1>2
  <1>5. Mail' \subseteq Mail
    BY <1>3 DEF Mail
  <1>6. \A m \in Mail : m = Head(inbox) \/ m \in Mail'
    BY <1>1, <1>4 DEF Mail
  <1>7. Head(inbox) \in Mail
    BY <1>1 DEF Mail
  <1> QED
    BY <1>1, <1>2, <1>3, <1>4, <1>5, <1>6, <1>7

(***************************************************************************)
(* Types, and how a step changes the connections.                          *)
(***************************************************************************)
Fresh ==
    {c \in Conns : /\ c.pc \in {"connect", "handshake"} /\ c.key \in Key /\ c.own = 0
                   /\ c.writer = "none" /\ c.cancel = FALSE /\ c.abort = FALSE}

\* A slot that is free gets a new connection.
Opens(s) == conn[s] = NoConn /\ \E c \in Fresh : conn' = [conn EXCEPT ![s] = c]

\* The record of a slot that is free.
LEMMA NoConnTyped == NoConn \in Conns
  BY DEF NoConn, Conns, Kinds, Pcs, Early, Writers

\* Dial(), Accept() and Beacon() put a new connection into a free slot.
LEMMA Opened ==
    ASSUME NEW kind \in Kinds, NEW u \in Uri \cup {None}, NEW k \in Key, NEW sock \in Int,
           NEW pc \in {"connect", "handshake"}, Open(kind, u, k, sock, pc)
    PROVE  \E s \in Slot : Opens(s)
  <1> DEFINE c == [NoConn EXCEPT !.kind = kind, !.uri = u, !.key = k, !.sock = sock, !.pc = pc]
  <1>1. FreeSlot \in Free
    BY Zenon DEF Open, FreeSlot
  <1>2. FreeSlot \in Slot /\ conn[FreeSlot] = NoConn
    BY Zenon, <1>1 DEF Free
  <1>3. c \in Conns
    BY Zenon, NoConnTyped DEF NoConn, Conns, Pcs, Early
  <1>4. /\ c.pc = pc /\ c.key = k /\ c.own = 0 /\ c.writer = "none"
        /\ c.cancel = FALSE /\ c.abort = FALSE
    BY DEF NoConn
  <1>5. c \in Fresh
    BY Zenon, <1>3, <1>4 DEF Fresh
  <1>6. conn' = [conn EXCEPT ![FreeSlot] = c]
    BY DEF Open
  <1> QED
    BY Zenon, <1>2, <1>5, <1>6 DEF Opens

\* A step of a connection's task that changes nothing but where it is: from one
\* part of handle_connection() to the next, or out of the reader's loop.
Advances(s) ==
    /\ \/ conn[s].pc \in {"connect", "handshake"} /\ \E pc \in {"handshake", "register"} : Goto(s, pc)
       \/ conn[s].pc = "up" /\ Goto(s, "port")
    /\ UNCHANGED <<tables, mail>>

\* A connection that is given up before it is registered.
GivesUp(s) == conn[s].pc \in Early \ {"none"} /\ Finish(s) /\ UNCHANGED <<tables, mail>>

\* register() that goes well.
Registers(s) ==
    /\ conn[s].pc = "register" /\ MayRegister(s)
    /\ active' = active \cup {s} /\ Goto(s, "allocate")
    /\ UNCHANGED <<handles, used, mail>>

\* The steps of Next, by what they do to the links.
LEMMA Steps ==
    ASSUME [Next]_vars
    PROVE  \/ UNCHANGED <<conn, tables, mail>>
           \/ \E s \in Slot : Opens(s) /\ UNCHANGED <<tables, mail>>
           \/ \E u \in Uri : RemovePeer(u)
           \/ \E s \in Slot : \/ Advances(s) \/ GivesUp(s) \/ Registers(s) \/ Allocate(s) \/ SendAdd(s)
                              \/ Spawn(s) \/ ReadPort(s) \/ SendRemove(s) \/ RemoveHandle(s)
                              \/ Unregister(s) \/ Drop(s) \/ Forget(s)
           \/ \E s \in Slot : \/ StopWriting(s) /\ UNCHANGED <<tables, mail>>
                              \/ WriterRemoves(s) \/ WriterUnhandles(s)
           \/ Route \/ Enter
  <1>1. CASE UNCHANGED vars
    BY <1>1 DEF vars, tables, mail
  <1>2. ASSUME NEW s \in Slot, TaskStep(s)
        PROVE  \/ Advances(s) \/ GivesUp(s) \/ Registers(s) \/ Allocate(s) \/ SendAdd(s)
               \/ Spawn(s) \/ ReadPort(s) \/ SendRemove(s) \/ RemoveHandle(s)
               \/ Unregister(s) \/ Drop(s) \/ Forget(s)
    <2>1. CASE Connect(s)
      BY <2>1 DEF Connect, At, Advances, GivesUp, Early
    <2>2. CASE Handshake(s)
      BY <2>2 DEF Handshake, At, Advances, GivesUp, Early
    <2>3. CASE Register(s)
      BY <2>3 DEF Register, At, Registers, GivesUp, Early, tables
    <2>4. CASE Cancelled(s)
      BY <2>4 DEF Cancelled, At, Advances
    <2> QED
      BY <1>2, <2>1, <2>2, <2>3, <2>4 DEF TaskStep
  <1>3. ASSUME NEW s \in Slot, WriterStep(s)
        PROVE  \/ StopWriting(s) /\ UNCHANGED <<tables, mail>>
               \/ WriterRemoves(s) \/ WriterUnhandles(s)
    BY <1>3 DEF WriterStep, WriterCancelled
  <1>4. ASSUME NEW s \in Slot, Break(s) PROVE Advances(s)
    BY <1>4 DEF Break, At, Advances
  <1>5. ASSUME NEW s \in Slot, WriterBreaks(s) PROVE StopWriting(s) /\ UNCHANGED <<tables, mail>>
    BY <1>5 DEF WriterBreaks
  <1>6. ASSUME NEW u \in Uri, Loop(u) \/ AddPeer(u) \/ RemovePeer(u) \/ Beacon(u)
        PROVE  \/ UNCHANGED <<conn, tables, mail>>
               \/ \E s \in Slot : Opens(s) /\ UNCHANGED <<tables, mail>>
               \/ RemovePeer(u)
    <2>1. CASE Dial(u)
      <3>1. CASE Open("persistent", u, Host, Sock[u], "handshake")
        <4>1. Sock[u] \in Int /\ Host \in Key
          BY LinksAssumption
        <4>2. \E s \in Slot : Opens(s)
          BY <3>1, <4>1, Opened DEF Kinds
        <4> QED
          BY <2>1, <4>2 DEF Dial
      <3> QED
        BY <2>1, <3>1 DEF Dial
    <2>2. CASE Beacon(u)
      <3>1. Sock[u] \in Int /\ Host \in Key
        BY LinksAssumption
      <3>2. \E s \in Slot : Opens(s)
        BY <2>2, <3>1, Opened DEF Kinds, Beacon
      <3> QED
        BY <2>2, <3>2 DEF Beacon
    <2>3. CASE Wake(u) \/ AddPeer(u)
      BY <2>3 DEF Wake, AddPeer
    <2> QED
      BY <1>6, <2>1, <2>2, <2>3 DEF Loop
  <1>7. ASSUME NEW k \in Key, Accept(k)
        PROVE  \/ UNCHANGED <<conn, tables, mail>>
               \/ \E s \in Slot : Opens(s) /\ UNCHANGED <<tables, mail>>
    <2>1. CASE Open("incoming", None, k, -FreeSlot, "handshake")
      <3>1. FreeSlot \in Free
        BY Zenon, <2>1 DEF Open, FreeSlot
      <3>2. FreeSlot \in Nat
        BY <3>1, LinksAssumption DEF Free
      <3>3. -FreeSlot \in Int
        BY <3>2
      <3>4. \E s \in Slot : Opens(s)
        BY <2>1, <3>3, Opened DEF Kinds
      <3> QED
        BY <1>7, <3>4 DEF Accept
    <2> QED
      BY <1>7, <2>1 DEF Accept
  <1>8. CASE HostChanges \/ Elapse
    BY <1>8 DEF HostChanges, Elapse
  <1> QED
    BY <1>1, <1>2, <1>3, <1>4, <1>5, <1>6, <1>7, <1>8 DEF Next

\* Where the links start.
LEMMA TypedInit == Init => Typed
  BY NoConnTyped DEF Init, Typed

\* A message that is sent is in the mail, and the router is not concerned.
LEMMA Sent ==
    ASSUME Typed, NEW m \in Messages, Send(m)
    PROVE  /\ Mail' = Mail \cup {m}
           /\ router' = router
           /\ inbox' \in Seq(Messages) /\ waiting' \in SUBSET Messages
  <1>1. CASE Len(inbox) < left.room
    <2>1. inbox' = Append(inbox, m) /\ waiting' = waiting /\ router' = router
      BY <1>1 DEF Send
    <2>2. inbox \in Seq(Messages) /\ waiting \in SUBSET Messages
      BY DEF Typed
    <2>3. Mail' = Mail \cup {m}
      BY <2>1, <2>2, MailAppended
    <2> QED
      BY <2>1, <2>2, <2>3
  <1>2. CASE ~(Len(inbox) < left.room)
    BY <1>2 DEF Send, Typed, Mail
  <1> QED
    BY <1>1, <1>2

\* Each field of a connection may be set on its own.
LEMMA Updates ==
    ASSUME NEW c \in Conns
    PROVE  /\ \A x \in Pcs : [c EXCEPT !.pc = x] \in Conns
           /\ \A x \in Writers : [c EXCEPT !.writer = x] \in Conns
           /\ [c EXCEPT !.cancel = TRUE] \in Conns
           /\ [c EXCEPT !.abort = TRUE] \in Conns
           /\ \A x \in Port \cup {0} : [c EXCEPT !.own = x] \in Conns
           /\ \A x \in Port \cup {0} : [c EXCEPT !.seen = x] \in Conns
  <1>1. \A x \in Pcs : [c EXCEPT !.pc = x] \in Conns
    BY DEF Conns
  <1>2. \A x \in Writers : [c EXCEPT !.writer = x] \in Conns
    BY DEF Conns
  <1>3. [c EXCEPT !.cancel = TRUE] \in Conns
    BY Zenon DEF Conns
  <1>4. [c EXCEPT !.abort = TRUE] \in Conns
    BY Zenon DEF Conns
  <1>5. \A x \in Port \cup {0} : [c EXCEPT !.own = x] \in Conns
    BY DEF Conns
  <1>6. \A x \in Port \cup {0} : [c EXCEPT !.seen = x] \in Conns
    BY DEF Conns
  <1> QED
    BY <1>1, <1>2, <1>3, <1>4, <1>5, <1>6

\* allocate_peer() gives a connection the port of its key, or one that no key has.
LEMMA Allocated ==
    ASSUME Typed, Life, PeersAgree, NEW s \in Slot, Allocate(s)
    PROVE  /\ conn[s].pc = "allocate"
           /\ UNCHANGED <<active, mail>>
           /\ \E port \in Port :
                /\ handles' = [handles EXCEPT ![s] = port]
                /\ conn' = [conn EXCEPT ![s] = [[conn[s] EXCEPT !.pc = "send"] EXCEPT !.own = port]]
                /\ \/ /\ \A t \in Slot : handles[t] # 0 => conn[t].key # conn[s].key
                      /\ used[port] = None
                      /\ used' = [used EXCEPT ![port] = conn[s].key]
                   \/ /\ \E t \in Slot : handles[t] = port /\ conn[t].key = conn[s].key
                      /\ used' = used
  <1> DEFINE same == {t \in Slot : handles[t] # 0 /\ conn[t].key = conn[s].key}
             free == {p \in Port : used[p] = None /\ \A q \in 1 .. p - 1 : used[q] # None}
  <1>1. PICK port \in IF same = {} THEN free ELSE {handles[t] : t \in same} :
          /\ handles' = [handles EXCEPT ![s] = port]
          /\ used' = IF same = {} THEN [used EXCEPT ![port] = conn[s].key] ELSE used
          /\ conn' = [conn EXCEPT ![s].pc = "send", ![s].own = port]
    BY Zenon DEF Allocate
  <1>2. conn' = [conn EXCEPT ![s] = [[conn[s] EXCEPT !.pc = "send"] EXCEPT !.own = port]]
    BY Zenon, <1>1 DEF Typed
  <1>3. conn[s].pc = "allocate" /\ UNCHANGED <<active, mail>>
    BY DEF Allocate, At
  <1>5. CASE same = {}
    <2>1. port \in Port /\ used[port] = None
      BY Zenon, <1>1, <1>5
    <2>2. \A t \in Slot : handles[t] # 0 => conn[t].key # conn[s].key
      BY <1>5
    <2>3. used' = [used EXCEPT ![port] = conn[s].key]
      BY <1>1, <1>5
    <2> QED
      BY Zenon, <1>1, <1>2, <1>3, <2>1, <2>2, <2>3
  <1>6. CASE same # {}
    <2>1. PICK t \in same : port = handles[t]
      BY <1>1, <1>6
    <2>2. t \in Slot /\ handles[t] = port /\ conn[t].key = conn[s].key /\ port # 0
      BY <2>1
    <2>3. port \in Port
      BY <2>2 DEF Typed
    <2>4. used' = used
      BY <1>1, <1>6
    <2> QED
      BY Zenon, <1>1, <1>2, <1>3, <2>2, <2>3, <2>4
  <1> QED
    BY Zenon, <1>5, <1>6

\* Where the connections are as a step leaves them.
LEMMA ConnStep ==
    ASSUME Typed, Life, PeersAgree, [Next]_vars
    PROVE  conn' \in [Slot -> Conns]
  <1> USE DEF Typed
  <1>1. CASE UNCHANGED <<conn, tables, mail>>
    BY <1>1
  <1>2. ASSUME NEW s \in Slot, Opens(s) PROVE conn' \in [Slot -> Conns]
    BY <1>2 DEF Opens, Fresh
  <1>3. ASSUME NEW u \in Uri, RemovePeer(u) PROVE conn' \in [Slot -> Conns]
    <2>1. \A s \in Slot : [conn[s] EXCEPT !.abort = TRUE] \in Conns
      BY Zenon, Updates
    <2> QED
      BY <1>3, <2>1 DEF RemovePeer
  <1>4. ASSUME NEW s \in Slot, NEW pc \in Pcs, Goto(s, pc) PROVE conn' \in [Slot -> Conns]
    <2>1. [conn[s] EXCEPT !.pc = pc] \in Conns
      BY Zenon, Updates
    <2> QED
      BY <1>4, <2>1 DEF Goto
  <1>5. ASSUME NEW s \in Slot, Finish(s) PROVE conn' \in [Slot -> Conns]
    <2>1. [conn[s] EXCEPT !.pc = "ended"] \in Conns
      BY Zenon, Updates DEF Pcs
    <2> QED
      BY <1>5, <2>1, NoConnTyped DEF Finish
  <1>6. ASSUME NEW s \in Slot, Advances(s) \/ Registers(s) \/ SendAdd(s) \/ SendRemove(s)
        PROVE  conn' \in [Slot -> Conns]
    BY <1>6, <1>4 DEF Advances, Registers, SendAdd, SendRemove, Pcs, Early
  <1>7. ASSUME NEW s \in Slot, GivesUp(s) \/ Unregister(s) PROVE conn' \in [Slot -> Conns]
    BY <1>7, <1>5 DEF GivesUp, Unregister
  <1>8. ASSUME NEW s \in Slot, Allocate(s) PROVE conn' \in [Slot -> Conns]
    <2> DEFINE c == [conn[s] EXCEPT !.pc = "send"]
    <2>1. PICK port \in Port : conn' = [conn EXCEPT ![s] = [c EXCEPT !.own = port]]
      BY Zenon, <1>8, Allocated
    <2>2. c \in Conns
      BY Zenon, Updates DEF Pcs
    <2>3. [c EXCEPT !.own = port] \in Conns
      BY Zenon, <2>2, Updates
    <2> QED
      BY <2>1, <2>3
  <1>9. ASSUME NEW s \in Slot, Spawn(s) \/ ReadPort(s) \/ RemoveHandle(s) \/ Drop(s)
        PROVE  conn' \in [Slot -> Conns]
    <2> DEFINE c(pc) == [conn[s] EXCEPT !.pc = pc]
    <2>1. c("up") \in Conns /\ c("remove") \in Conns /\ c("unregister") \in Conns /\ c("dropped") \in Conns
      BY Zenon, Updates DEF Pcs
    <2>2. \/ conn' = [conn EXCEPT ![s] = [c("up") EXCEPT !.writer = "run"]]
          \/ conn' = [conn EXCEPT ![s] = [c("remove") EXCEPT !.seen = handles[s]]]
          \/ conn' = [conn EXCEPT ![s] = [c("unregister") EXCEPT !.cancel = TRUE]]
          \/ conn' = [conn EXCEPT ![s] = [c("dropped") EXCEPT !.cancel = TRUE]]
      BY Zenon, <1>9 DEF Spawn, ReadPort, RemoveHandle, Drop
    <2> HIDE DEF c
    <2>3. /\ [c("up") EXCEPT !.writer = "run"] \in Conns
          /\ [c("remove") EXCEPT !.seen = handles[s]] \in Conns
          /\ [c("unregister") EXCEPT !.cancel = TRUE] \in Conns
          /\ [c("dropped") EXCEPT !.cancel = TRUE] \in Conns
      BY Zenon, <2>1, Updates DEF Writers
    <2> QED
      BY Zenon, <2>2, <2>3
  <1>10. ASSUME NEW s \in Slot, StopWriting(s) \/ WriterRemoves(s) \/ WriterUnhandles(s)
         PROVE  conn' \in [Slot -> Conns]
    <2> DEFINE c(w) == [conn[s] EXCEPT !.writer = w]
    <2>1. c("remove") \in Conns /\ c("peers") \in Conns /\ c("ended") \in Conns
      BY Zenon, Updates DEF Writers
    <2>2. \/ conn' = [conn EXCEPT ![s] = [c("remove") EXCEPT !.cancel = TRUE]]
          \/ conn' = [conn EXCEPT ![s] = c("peers")]
          \/ conn' = [conn EXCEPT ![s] = c("ended")]
      BY Zenon, <1>10 DEF StopWriting, WriterRemoves, WriterUnhandles
    <2> HIDE DEF c
    <2>3. [c("remove") EXCEPT !.cancel = TRUE] \in Conns
      BY Zenon, <2>1, Updates
    <2> QED
      BY Zenon, <2>1, <2>2, <2>3
  <1>11. ASSUME NEW s \in Slot, Forget(s) PROVE conn' \in [Slot -> Conns]
    BY <1>11, NoConnTyped DEF Forget
  <1>12. CASE Route \/ Enter
    BY <1>12 DEF Route, Enter
  <1> QED
    BY <1>1, <1>2, <1>3, <1>6, <1>7, <1>8, <1>9, <1>10, <1>11, <1>12, Steps

\* The messages about removed links are of the form they should have.
LEMMA RemoveMsgTyped ==
    ASSUME NEW s \in Slot, NEW port \in Port \cup {0}, NEW by \in {"reader", "writer"}
    PROVE  /\ RemoveMsg(s, port, by) \in Messages
           /\ RemoveMsg(s, port, by).op = "remove" /\ RemoveMsg(s, port, by).id = s
           /\ RemoveMsg(s, port, by).port = port
  BY DEF RemoveMsg, Messages

\* The router's tables after a message.
LEMMA Routed ==
    ASSUME Typed, Route
    PROVE  /\ Head(inbox) \in Messages
           /\ inbox' \in Seq(Messages)
           /\ router' \in [ids : SUBSET Slot, ports : [Port -> Key \cup {None}]]
  <1> DEFINE m == Head(inbox)
  <1>1. m \in Messages /\ inbox' \in Seq(Messages)
    BY DEF Typed, Route
  <1>2. /\ m.id \in Slot
        /\ router.ids \in SUBSET Slot
        /\ router.ports \in [Port -> Key \cup {None}]
        /\ conn[m.id].key \in Key \cup {None}
    BY <1>1 DEF Typed, Messages, Conns
  <1> HIDE DEF m
  <1>3. Added(router, m) \in [ids : SUBSET Slot, ports : [Port -> Key \cup {None}]]
    BY Zenon, <1>2 DEF Added
  <1>4. Removed(router, m) \in [ids : SUBSET Slot, ports : [Port -> Key \cup {None}]]
    BY <1>2 DEF Removed
  <1>5. router' = Added(router, m) \/ router' = Removed(router, m)
    BY DEF Route, m
  <1> QED
    BY <1>1, <1>3, <1>4, <1>5 DEF m

\* Types are kept.
LEMMA TypedStep == Typed /\ Life /\ PeersAgree /\ [Next]_vars => Typed'
  <1> SUFFICES ASSUME Typed, Life, PeersAgree, [Next]_vars PROVE Typed'
    OBVIOUS
  <1>0. conn' \in [Slot -> Conns]
    BY ConnStep
  <1>1. ASSUME UNCHANGED <<tables, mail>> PROVE Typed'
    BY <1>0, <1>1 DEF Typed, tables, mail
  <1>2. ASSUME NEW u \in Uri, RemovePeer(u) PROVE Typed'
    BY <1>0, <1>2 DEF Typed, RemovePeer, mail
  <1>3. ASSUME NEW s \in Slot, Registers(s) \/ Unregister(s) PROVE Typed'
    BY <1>0, <1>3 DEF Typed, Registers, Unregister, mail
  <1>4. ASSUME NEW s \in Slot, Allocate(s) PROVE Typed'
    <2>0. PICK port \in Port : handles' = [handles EXCEPT ![s] = port]
      BY Zenon, <1>4, Allocated
    <2>1. handles' \in [Slot -> Port \cup {0}] /\ UNCHANGED <<active, mail>>
      BY <1>4, <2>0 DEF Typed, Allocate
    <2>2. used' \in [Port -> Key \cup {None}]
      <3>1. conn[s].key \in Key \cup {None}
        BY DEF Typed, Conns
      <3> QED
        BY Zenon, <1>4, <3>1, Allocated DEF Typed
    <2> QED
      BY <1>0, <2>1, <2>2 DEF Typed, mail
  <1>5. ASSUME NEW s \in Slot, SendAdd(s) PROVE Typed'
    <2>1. [op |-> "add", id |-> s, port |-> conn[s].own, by |-> "task"] \in Messages
      BY DEF Messages, Typed, Conns
    <2> QED
      BY <1>0, <1>5, <2>1 DEF SendAdd, Typed, tables
  <1>6. ASSUME NEW s \in Slot, SendRemove(s) PROVE Typed'
    <2>1. RemoveMsg(s, conn[s].seen, "reader") \in Messages
      BY RemoveMsgTyped DEF Typed, Conns
    <2> QED
      BY <1>0, <1>6, <2>1, Sent DEF SendRemove, Typed, tables
  <1>7. ASSUME NEW s \in Slot, WriterRemoves(s) PROVE Typed'
    <2>1. RemoveMsg(s, conn[s].own, "writer") \in Messages
      BY RemoveMsgTyped DEF Typed, Conns
    <2> QED
      BY <1>0, <1>7, <2>1, Sent DEF WriterRemoves, Typed, tables
  <1>8. ASSUME NEW s \in Slot, RemoveHandle(s) \/ WriterUnhandles(s) PROVE Typed'
    BY Zenon, <1>0, <1>8 DEF RemoveHandle, WriterUnhandles, Unhandle, Typed, mail
  <1>9. CASE Route
    BY <1>0, <1>9, Routed DEF Route, Typed, tables
  <1>10. CASE Enter
    BY <1>0, <1>10 DEF Enter, Typed, tables
  <1> QED
    BY Zenon, <1>1, <1>2, <1>3, <1>4, <1>5, <1>6, <1>7, <1>8, <1>9, <1>10, Steps
       DEF Advances, GivesUp, Spawn, ReadPort, Drop, Forget

(***************************************************************************)
(* The life of a connection.                                               *)
(***************************************************************************)
\* What the tables and the mail say of a connection stays.
SameTables(t) ==
    /\ handles'[t] = handles[t]
    /\ t \in active' <=> t \in active
    /\ t \in router'.ids <=> t \in router.ids
    /\ Adds(t)' <=> Adds(t)
    /\ Removes(t)' <=> Removes(t)

\* A connection that a step does not concern lives on.
LEMMA SameLife ==
    ASSUME NEW t \in Slot, LifeAt(t), conn'[t] = conn[t], SameTables(t)
    PROVE  LifeAt(t)'
  <1>1. Born(t)'
    BY DEF LifeAt, Born, SameTables
  <1>2. Row(t)'
    BY DEF LifeAt, Row, SameTables
  <1>3. Handle(t)'
    BY DEF LifeAt, Handle, SameTables
  <1>4. Heard(t)'
    BY DEF LifeAt, Heard, SameTables
  <1> QED
    BY <1>1, <1>2, <1>3, <1>4 DEF LifeAt

\* Steps that change neither tables nor mail.
LEMMA Still ==
    ASSUME UNCHANGED <<tables, mail>>
    PROVE  \A t : SameTables(t)
  <1>1. /\ handles' = handles /\ active' = active /\ router' = router
        /\ inbox' = inbox /\ waiting' = waiting
    BY DEF tables, mail
  <1>2. Mail' = Mail
    BY <1>1 DEF Mail
  <1> QED
    BY <1>1, <1>2 DEF SameTables, Adds, Removes

\* Steps that change one connection, and neither tables nor mail.
LEMMA StillLife ==
    ASSUME Typed, Life, UNCHANGED <<tables, mail>>, NEW s \in Slot, NEW c,
           conn' = [conn EXCEPT ![s] = c], SameTables(s) /\ conn'[s] = c => LifeAt(s)'
    PROVE  Life'
  <1> SUFFICES ASSUME NEW t \in Slot PROVE LifeAt(t)'
    BY DEF Life
  <1>1. SameTables(t) /\ LifeAt(t) /\ SameTables(s)
    BY Still DEF Life
  <1>2. conn'[s] = c /\ (t # s => conn'[t] = conn[t])
    BY DEF Typed
  <1> QED
    BY <1>1, <1>2, SameLife

\* The steps of a connection's task that only the connection itself shows.
LEMMA AdvancesLife ==
    ASSUME Typed, Life, NEW s \in Slot, Advances(s)
    PROVE  Life'
  <1>1. UNCHANGED <<tables, mail>>
    BY DEF Advances
  <1>2. LifeAt(s) /\ conn[s] \in Conns
    BY DEF Life, Typed
  <1>3. PICK pc \in {"handshake", "register", "port"} :
          /\ conn' = [conn EXCEPT ![s] = [conn[s] EXCEPT !.pc = pc]]
          /\ conn[s].pc \in IF pc = "port" THEN {"up"} ELSE {"connect", "handshake"}
    BY DEF Advances, Goto, Typed
  <1> DEFINE c == [conn[s] EXCEPT !.pc = pc]
  <1>4. /\ c.pc = pc /\ c.key = conn[s].key /\ c.own = conn[s].own /\ c.writer = conn[s].writer
        /\ c.cancel = conn[s].cancel /\ c.abort = conn[s].abort /\ c.seen = conn[s].seen
    BY <1>2 DEF Conns
  <1> HIDE DEF c
  <1>5. ASSUME SameTables(s), conn'[s] = c PROVE LifeAt(s)'
    <2>1. Born(s)'
      BY <1>2, <1>3, <1>4, <1>5 DEF LifeAt, Born, SameTables, Early
    <2>2. Row(s)'
      BY <1>2, <1>3, <1>4, <1>5 DEF LifeAt, Row, Born, SameTables, Early
    <2>3. Handle(s)'
      BY <1>2, <1>3, <1>4, <1>5 DEF LifeAt, Handle, Born, SameTables, Early
    <2>4. Heard(s)'
      BY <1>2, <1>3, <1>4, <1>5 DEF LifeAt, Heard, Born, SameTables, Early
    <2> QED
      BY <2>1, <2>2, <2>3, <2>4 DEF LifeAt
  <1> QED
    BY Zenon, <1>1, <1>3, <1>5, StillLife DEF c

\* A new connection, and one that is gone.
LEMMA ComesAndGoes ==
    ASSUME Typed, Life, NEW s \in Slot,
           \/ Opens(s) /\ UNCHANGED <<tables, mail>>
           \/ GivesUp(s)
           \/ Forget(s)
    PROVE  Life'
  <1>1. UNCHANGED <<tables, mail>>
    BY DEF GivesUp, Forget
  <1>2. LifeAt(s) /\ conn[s] \in Conns
    BY DEF Life, Typed
  <1>3. conn[s].own = 0 \/ Forget(s)
    BY <1>2 DEF Opens, GivesUp, LifeAt, Born, NoConn
  <1>4. conn' = [conn EXCEPT ![s] = NoConn] \/ \E c \in Fresh : conn' = [conn EXCEPT ![s] = c]
    BY <1>3 DEF Opens, GivesUp, Forget, Finish
  <1>5. PICK c \in Fresh \cup {NoConn} : conn' = [conn EXCEPT ![s] = c]
    BY <1>4
  <1>6. /\ c.pc \in Early /\ c.own = 0 /\ c.writer = "none"
        /\ c.pc # "none" => c.key \in Key
        /\ c.pc = "none" => c = NoConn
    BY <1>5 DEF Fresh, NoConn, Early
  <1>7. s \notin active /\ s \notin router.ids /\ handles[s] = 0 /\ ~Adds(s) /\ ~Removes(s)
    <2>1. CASE Opens(s)
      BY <1>2, <2>1 DEF Opens, LifeAt, Born, NoConn, Early
    <2>2. CASE GivesUp(s)
      BY <1>2, <2>2 DEF GivesUp, LifeAt, Born
    <2>3. CASE Forget(s)
      <3>1. Mail = Range(inbox) \cup waiting
        BY DEF Mail, Range
      <3> QED
        BY <2>3, <3>1 DEF Forget, InMail, Adds, Removes
    <2> QED
      BY <2>1, <2>2, <2>3
  <1>8. ASSUME SameTables(s), conn'[s] = c PROVE LifeAt(s)'
    BY <1>6, <1>7, <1>8 DEF LifeAt, Born, Row, Handle, Heard, SameTables, Early
  <1> QED
    BY Zenon, <1>1, <1>5, <1>8, StillLife

\* The reader starts and looks its port up; the task is dropped; the writer ends.
LEMMA RunsLife ==
    ASSUME Typed, Life, NEW s \in Slot,
           Spawn(s) \/ ReadPort(s) \/ Drop(s) \/ (StopWriting(s) /\ UNCHANGED <<tables, mail>>)
    PROVE  Life'
  <1>1. UNCHANGED <<tables, mail>>
    BY DEF Spawn, ReadPort, Drop
  <1>2. LifeAt(s) /\ conn[s] \in Conns
    BY DEF Life, Typed
  <1>3. CASE Spawn(s)
    <2> DEFINE c == [conn[s] EXCEPT !.pc = "up", !.writer = "run"]
    <2>1. conn' = [conn EXCEPT ![s] = c] /\ conn[s].pc = "adding" /\ ~conn[s].abort /\ s \in router.ids
      BY Zenon, <1>3 DEF Spawn, At, Typed
    <2>2. /\ c.pc = "up" /\ c.writer = "run" /\ c.key = conn[s].key /\ c.own = conn[s].own
          /\ c.cancel = conn[s].cancel /\ c.abort = conn[s].abort /\ c.seen = conn[s].seen
      BY <1>2 DEF Conns
    <2> HIDE DEF c
    <2>3. ASSUME SameTables(s), conn'[s] = c PROVE LifeAt(s)'
      BY Zenon, <1>2, <2>1, <2>2, <2>3 DEF LifeAt, Born, Row, Handle, Heard, SameTables, Early
    <2> QED
      BY Zenon, <1>1, <2>1, <2>3, StillLife
  <1>4. CASE ReadPort(s)
    <2> DEFINE c == [conn[s] EXCEPT !.pc = "remove", !.seen = handles[s]]
    <2>1. conn' = [conn EXCEPT ![s] = c] /\ conn[s].pc = "port"
      BY Zenon, <1>4 DEF ReadPort, At, Typed
    <2>2. /\ c.pc = "remove" /\ c.writer = conn[s].writer /\ c.key = conn[s].key /\ c.own = conn[s].own
          /\ c.cancel = conn[s].cancel /\ c.abort = conn[s].abort /\ c.seen = handles[s]
      BY <1>2 DEF Conns
    <2> HIDE DEF c
    <2>3. ASSUME SameTables(s), conn'[s] = c PROVE LifeAt(s)'
      <3>1. Born(s)'
        BY Zenon, <1>2, <2>1, <2>2, <2>3 DEF LifeAt, Born, Early, SameTables
      <3>2. Row(s)'
        BY Zenon, <1>2, <2>1, <2>2, <2>3 DEF LifeAt, Row, SameTables
      <3>3. Handle(s)'
        BY Zenon, <1>2, <2>1, <2>2, <2>3 DEF LifeAt, Handle, SameTables
      <3>4. Heard(s)'
        BY Zenon, <1>2, <2>1, <2>2, <2>3 DEF LifeAt, Heard, SameTables
      <3> QED
        BY <3>1, <3>2, <3>3, <3>4 DEF LifeAt
    <2> QED
      BY Zenon, <1>1, <2>1, <2>3, StillLife
  <1>5. CASE Drop(s)
    <2> DEFINE c == [conn[s] EXCEPT !.pc = "dropped", !.cancel = TRUE]
    <2>1. conn' = [conn EXCEPT ![s] = c] /\ conn[s].abort /\ conn[s].pc # "ended"
      BY Zenon, <1>5 DEF Drop, Typed
    <2>2. /\ c.pc = "dropped" /\ c.writer = conn[s].writer /\ c.key = conn[s].key /\ c.own = conn[s].own
          /\ c.abort = conn[s].abort /\ c.seen = conn[s].seen
      BY <1>2 DEF Conns
    <2>3. c.cancel /\ c.abort
      BY <1>2, <2>1, <2>2, Zenon DEF Conns
    <2>4. conn[s].pc # "none"
      BY <1>2, <2>1 DEF LifeAt, Born, NoConn
    <2> HIDE DEF c
    <2>5. ASSUME SameTables(s), conn'[s] = c PROVE LifeAt(s)'
      BY Zenon, <1>2, <2>1, <2>2, <2>3, <2>4, <2>5 DEF LifeAt, Born, Row, Handle, Heard, SameTables, Early
    <2> QED
      BY Zenon, <1>1, <2>1, <2>5, StillLife
  <1>6. CASE StopWriting(s)
    <2> DEFINE c == [conn[s] EXCEPT !.writer = "remove", !.cancel = TRUE]
    <2>1. conn' = [conn EXCEPT ![s] = c] /\ conn[s].writer = "run"
      BY Zenon, <1>6 DEF StopWriting, Typed
    <2>2. /\ c.pc = conn[s].pc /\ c.writer = "remove" /\ c.key = conn[s].key /\ c.own = conn[s].own
          /\ c.abort = conn[s].abort /\ c.seen = conn[s].seen
      BY <1>2 DEF Conns
    <2>3. c.cancel
      BY <1>2, Zenon DEF Conns
    <2> HIDE DEF c
    <2>4. ASSUME SameTables(s), conn'[s] = c PROVE LifeAt(s)'
      <3>1. Born(s)'
        BY Zenon, <1>2, <2>1, <2>2, <2>3, <2>4 DEF LifeAt, Born, NoConn, Early, SameTables
      <3>2. Row(s)'
        BY Zenon, <1>2, <2>1, <2>2, <2>3, <2>4 DEF LifeAt, Row, SameTables
      <3>3. Handle(s)'
        BY Zenon, <1>2, <2>1, <2>2, <2>3, <2>4 DEF LifeAt, Handle, SameTables
      <3>4. Heard(s)'
        BY Zenon, <1>2, <2>1, <2>2, <2>3, <2>4 DEF LifeAt, Heard, SameTables
      <3> QED
        BY <3>1, <3>2, <3>3, <3>4 DEF LifeAt
    <2> QED
      BY Zenon, <1>1, <2>1, <2>4, StillLife
  <1> QED
    BY <1>3, <1>4, <1>5, <1>6

\* Steps that concern one connection.
LEMMA OthersLife ==
    ASSUME Life, NEW s \in Slot, LifeAt(s)',
           \A t \in Slot \ {s} : conn'[t] = conn[t] /\ SameTables(t)
    PROVE  Life'
  BY SameLife DEF Life

\* The mail stays.
LEMMA MailKept ==
    ASSUME UNCHANGED mail
    PROVE  router' = router /\ \A t : (Adds(t)' <=> Adds(t)) /\ (Removes(t)' <=> Removes(t))
  <1>1. router' = router /\ inbox' = inbox /\ waiting' = waiting
    BY DEF mail
  <1>2. Mail' = Mail
    BY <1>1 DEF Mail
  <1> QED
    BY <1>1, <1>2 DEF Adds, Removes

\* One message about a connection comes into the mail.
LEMMA MailGrows ==
    ASSUME NEW m, Mail' = Mail \cup {m}
    PROVE  /\ \A t : t # m.id => (Adds(t)' <=> Adds(t)) /\ (Removes(t)' <=> Removes(t))
           /\ m.op = "add" => Adds(m.id)' /\ (Removes(m.id)' <=> Removes(m.id))
           /\ m.op = "remove" => Removes(m.id)' /\ (Adds(m.id)' <=> Adds(m.id))
  BY DEF Adds, Removes

\* The row of a connection is made and removed.
LEMMA RegisterLife ==
    ASSUME Typed, Life, NEW s \in Slot, Registers(s) \/ Unregister(s)
    PROVE  Life'
  <1>1. UNCHANGED <<handles, used, mail>>
    BY DEF Registers, Unregister
  <1>2. LifeAt(s) /\ conn[s] \in Conns
    BY DEF Life, Typed
  <1>3. router' = router /\ \A t : (Adds(t)' <=> Adds(t)) /\ (Removes(t)' <=> Removes(t))
    BY <1>1, MailKept
  <1>4. \A t \in Slot \ {s} : conn'[t] = conn[t] /\ SameTables(t)
    BY <1>1, <1>3 DEF Registers, Unregister, Goto, Finish, SameTables, Typed
  <1>5. CASE Registers(s)
    <2> DEFINE c == [conn[s] EXCEPT !.pc = "allocate"]
    <2>1. conn'[s] = c /\ conn[s].pc = "register" /\ s \in active'
      BY <1>5 DEF Registers, Goto, Typed
    <2>2. /\ c.pc = "allocate" /\ c.writer = conn[s].writer /\ c.key = conn[s].key /\ c.own = conn[s].own
          /\ c.cancel = conn[s].cancel /\ c.abort = conn[s].abort /\ c.seen = conn[s].seen
      BY <1>2 DEF Conns
    <2> HIDE DEF c
    <2>3. LifeAt(s)'
      BY Zenon, <1>1, <1>2, <1>3, <2>1, <2>2 DEF LifeAt, Born, Row, Handle, Heard, Early
    <2> QED
      BY <1>4, <2>3, OthersLife
  <1>6. CASE Unregister(s)
    <2> DEFINE c == [conn[s] EXCEPT !.pc = "ended"]
    <2>1. conn[s].pc = "unregister" /\ conn[s].own # 0
      BY <1>2, <1>6 DEF Unregister, At, LifeAt, Born, Early
    <2>2. conn'[s] = c /\ s \notin active'
      BY <1>6, <2>1 DEF Unregister, Finish, Typed
    <2>3. /\ c.pc = "ended" /\ c.writer = conn[s].writer /\ c.key = conn[s].key /\ c.own = conn[s].own
          /\ c.cancel = conn[s].cancel /\ c.abort = conn[s].abort /\ c.seen = conn[s].seen
      BY <1>2 DEF Conns
    <2> HIDE DEF c
    <2>4. LifeAt(s)'
      BY Zenon, <1>1, <1>2, <1>3, <2>1, <2>2, <2>3 DEF LifeAt, Born, Row, Handle, Heard, Early
    <2> QED
      BY <1>4, <2>4, OthersLife
  <1> QED
    BY <1>5, <1>6

\* A connection gets its handle and loses it.
LEMMA HandleLife ==
    ASSUME Typed, Life, PeersAgree, NEW s \in Slot, Allocate(s) \/ RemoveHandle(s) \/ WriterUnhandles(s)
    PROVE  Life'
  <1>1. UNCHANGED <<active, mail>>
    BY DEF Allocate, RemoveHandle, WriterUnhandles, Unhandle
  <1>2. LifeAt(s) /\ conn[s] \in Conns
    BY DEF Life, Typed
  <1>3. router' = router /\ \A t : (Adds(t)' <=> Adds(t)) /\ (Removes(t)' <=> Removes(t))
    BY <1>1, MailKept
  <1>4. CASE Allocate(s)
    <2>1. PICK port \in Port :
            /\ handles' = [handles EXCEPT ![s] = port]
            /\ conn' = [conn EXCEPT ![s] = [[conn[s] EXCEPT !.pc = "send"] EXCEPT !.own = port]]
      BY Zenon, <1>4, Allocated
    <2> DEFINE c == [[conn[s] EXCEPT !.pc = "send"] EXCEPT !.own = port]
    <2>2. conn'[s] = c /\ handles'[s] = port
      BY <2>1 DEF Typed
    <2>11. conn[s].pc = "allocate" /\ port # 0
      BY <1>4 DEF Allocate, At, Port
    <2>3. \A t \in Slot \ {s} : conn'[t] = conn[t] /\ SameTables(t)
      BY <1>1, <1>3, <2>1 DEF SameTables, Typed
    <2>4. /\ c.pc = "send" /\ c.writer = conn[s].writer /\ c.key = conn[s].key /\ c.own = port
          /\ c.cancel = conn[s].cancel /\ c.abort = conn[s].abort /\ c.seen = conn[s].seen
      BY <1>2 DEF Conns
    <2> HIDE DEF c
    <2>5. LifeAt(s)'
      BY Zenon, <1>1, <1>2, <1>3, <2>2, <2>11, <2>4 DEF LifeAt, Born, Row, Handle, Heard, Early
    <2> QED
      BY <2>3, <2>5, OthersLife
  <1>5. CASE RemoveHandle(s)
    <2> DEFINE c == [conn[s] EXCEPT !.pc = "unregister", !.cancel = TRUE]
    <2>1. conn'[s] = c /\ conn[s].pc = "peers" /\ handles'[s] = 0
      BY <1>5 DEF RemoveHandle, Unhandle, At, Typed
    <2>2. \A t \in Slot \ {s} : conn'[t] = conn[t] /\ SameTables(t)
      BY <1>1, <1>3, <1>5 DEF SameTables, Typed, RemoveHandle, Unhandle
    <2>3. /\ c.pc = "unregister" /\ c.writer = conn[s].writer /\ c.key = conn[s].key
          /\ c.own = conn[s].own /\ c.abort = conn[s].abort /\ c.seen = conn[s].seen
      BY <1>2 DEF Conns
    <2>4. c.cancel
      BY <1>2, Zenon DEF Conns
    <2> HIDE DEF c
    <2>5. LifeAt(s)'
      BY Zenon, <1>1, <1>2, <1>3, <2>1, <2>3, <2>4 DEF LifeAt, Born, Row, Handle, Heard, Early
    <2> QED
      BY <2>2, <2>5, OthersLife
  <1>6. CASE WriterUnhandles(s)
    <2> DEFINE c == [conn[s] EXCEPT !.writer = "ended"]
    <2>1. conn'[s] = c /\ conn[s].writer = "peers" /\ handles'[s] = 0
      BY <1>6 DEF WriterUnhandles, Unhandle, Typed
    <2>2. \A t \in Slot \ {s} : conn'[t] = conn[t] /\ SameTables(t)
      BY <1>1, <1>3, <1>6 DEF SameTables, Typed, WriterUnhandles, Unhandle
    <2>3. /\ c.pc = conn[s].pc /\ c.writer = "ended" /\ c.key = conn[s].key /\ c.own = conn[s].own
          /\ c.cancel = conn[s].cancel /\ c.abort = conn[s].abort /\ c.seen = conn[s].seen
      BY <1>2 DEF Conns
    <2> HIDE DEF c
    <2>4. LifeAt(s)'
      BY Zenon, <1>1, <1>2, <1>3, <2>1, <2>3 DEF LifeAt, Born, Row, Handle, Heard, Early, NoConn
    <2> QED
      BY <2>2, <2>4, OthersLife
  <1> QED
    BY <1>4, <1>5, <1>6

\* A connection is reported to the router, when it is made and when it ends.
LEMMA SendLife ==
    ASSUME Typed, Life, NEW s \in Slot, SendAdd(s) \/ SendRemove(s) \/ WriterRemoves(s)
    PROVE  Life'
  <1>1. UNCHANGED tables
    BY DEF SendAdd, SendRemove, WriterRemoves
  <1>2. LifeAt(s) /\ conn[s] \in Conns
    BY DEF Life, Typed
  <1>3. handles' = handles /\ active' = active
    BY <1>1 DEF tables
  <1>4. conn[s].own \in Port \cup {0} /\ conn[s].seen \in Port \cup {0}
    BY <1>2 DEF Conns
  <1>5. CASE SendAdd(s)
    <2> DEFINE c == [conn[s] EXCEPT !.pc = "adding"]
               m == [op |-> "add", id |-> s, port |-> conn[s].own, by |-> "task"]
    <2>1. conn'[s] = c /\ conn[s].pc = "send" /\ router' = router
      BY <1>5 DEF SendAdd, Goto, At, Typed
    <2>2. inbox' = Append(inbox, m) /\ waiting' = waiting /\ inbox \in Seq(Messages)
      BY <1>5 DEF SendAdd, Typed
    <2>11. m \in Messages
      BY <1>4 DEF Messages
    <2>3. m.op = "add" /\ m.id = s
      OBVIOUS
    <2> HIDE DEF m
    <2>4. Mail' = Mail \cup {m}
      BY <2>2, <2>11, MailAppended
    <2>5. /\ \A t \in Slot \ {s} : (Adds(t)' <=> Adds(t)) /\ (Removes(t)' <=> Removes(t))
          /\ Adds(s)' /\ (Removes(s)' <=> Removes(s))
      BY <2>3, <2>4, MailGrows
    <2>6. \A t \in Slot \ {s} : conn'[t] = conn[t] /\ SameTables(t)
      BY <1>3, <1>5, <2>1, <2>5 DEF SameTables, Typed, SendAdd, Goto
    <2>7. /\ c.pc = "adding" /\ c.writer = conn[s].writer /\ c.key = conn[s].key /\ c.own = conn[s].own
          /\ c.cancel = conn[s].cancel /\ c.abort = conn[s].abort /\ c.seen = conn[s].seen
      BY <1>2 DEF Conns
    <2> HIDE DEF c
    <2>8. LifeAt(s)'
      BY Zenon, <1>2, <1>3, <2>1, <2>5, <2>7 DEF LifeAt, Born, Row, Handle, Heard, Early
    <2> QED
      BY <2>6, <2>8, OthersLife
  <1>6. CASE SendRemove(s)
    <2> DEFINE c == [conn[s] EXCEPT !.pc = "peers"]
               m == RemoveMsg(s, conn[s].seen, "reader")
    <2>1. conn'[s] = c /\ conn[s].pc = "remove"
      BY <1>6 DEF SendRemove, Goto, At, Typed
    <2>2. m \in Messages /\ m.op = "remove" /\ m.id = s /\ Send(m)
      BY Zenon, <1>4, <1>6, RemoveMsgTyped DEF SendRemove
    <2> HIDE DEF m
    <2>3. Mail' = Mail \cup {m} /\ router' = router
      BY <2>2, Sent
    <2>4. /\ \A t \in Slot \ {s} : (Adds(t)' <=> Adds(t)) /\ (Removes(t)' <=> Removes(t))
          /\ Removes(s)' /\ (Adds(s)' <=> Adds(s))
      BY <2>2, <2>3, MailGrows
    <2>5. \A t \in Slot \ {s} : conn'[t] = conn[t] /\ SameTables(t)
      BY <1>3, <1>6, <2>3, <2>4 DEF SameTables, Typed, SendRemove, Goto
    <2>6. /\ c.pc = "peers" /\ c.writer = conn[s].writer /\ c.key = conn[s].key /\ c.own = conn[s].own
          /\ c.cancel = conn[s].cancel /\ c.abort = conn[s].abort /\ c.seen = conn[s].seen
      BY <1>2 DEF Conns
    <2> HIDE DEF c
    <2>7. LifeAt(s)'
      BY Zenon, <1>2, <1>3, <2>1, <2>3, <2>4, <2>6 DEF LifeAt, Born, Row, Handle, Heard, Early
    <2> QED
      BY <2>5, <2>7, OthersLife
  <1>7. CASE WriterRemoves(s)
    <2> DEFINE c == [conn[s] EXCEPT !.writer = "peers"]
               m == RemoveMsg(s, conn[s].own, "writer")
    <2>1. conn'[s] = c /\ conn[s].writer = "remove"
      BY <1>7 DEF WriterRemoves, Typed
    <2>2. m \in Messages /\ m.op = "remove" /\ m.id = s /\ Send(m)
      BY <1>4, <1>7, RemoveMsgTyped DEF WriterRemoves
    <2> HIDE DEF m
    <2>3. Mail' = Mail \cup {m} /\ router' = router
      BY <2>2, Sent
    <2>4. /\ \A t \in Slot \ {s} : (Adds(t)' <=> Adds(t)) /\ (Removes(t)' <=> Removes(t))
          /\ Removes(s)' /\ (Adds(s)' <=> Adds(s))
      BY <2>2, <2>3, MailGrows
    <2>5. \A t \in Slot \ {s} : conn'[t] = conn[t] /\ SameTables(t)
      BY <1>3, <1>7, <2>3, <2>4 DEF SameTables, Typed, WriterRemoves
    <2>6. /\ c.pc = conn[s].pc /\ c.writer = "peers" /\ c.key = conn[s].key /\ c.own = conn[s].own
          /\ c.cancel = conn[s].cancel /\ c.abort = conn[s].abort /\ c.seen = conn[s].seen
      BY <1>2 DEF Conns
    <2> HIDE DEF c
    <2>7. LifeAt(s)'
      BY Zenon, <1>2, <1>3, <2>1, <2>3, <2>4, <2>6 DEF LifeAt, Born, Row, Handle, Heard, Early, NoConn
    <2> QED
      BY <2>5, <2>7, OthersLife
  <1> QED
    BY <1>5, <1>6, <1>7

\* remove_peer() aborts the task and removes the row.
LEMMA RemovePeerLife ==
    ASSUME Typed, Life, NEW u \in Uri, RemovePeer(u)
    PROVE  Life'
  <1> SUFFICES ASSUME NEW s \in Slot PROVE LifeAt(s)'
    BY DEF Life
  <1>1. LifeAt(s) /\ conn[s] \in Conns
    BY DEF Life, Typed
  <1>2. /\ router' = router /\ handles' = handles
        /\ (Adds(s)' <=> Adds(s)) /\ (Removes(s)' <=> Removes(s))
    BY MailKept DEF RemovePeer
  <1>3. CASE conn[s].uri # u
    <2>1. conn'[s] = conn[s] /\ (s \in active' <=> s \in active)
      BY <1>3 DEF RemovePeer
    <2> QED
      BY Zenon, <1>1, <1>2, <2>1, SameLife DEF SameTables
  <1>4. CASE conn[s].uri = u
    <2> DEFINE c == [conn[s] EXCEPT !.abort = TRUE]
    <2>1. conn'[s] = c /\ s \notin active'
      BY <1>4 DEF RemovePeer
    <2>2. /\ c.pc = conn[s].pc /\ c.writer = conn[s].writer /\ c.key = conn[s].key /\ c.own = conn[s].own
          /\ c.cancel = conn[s].cancel /\ c.seen = conn[s].seen
      BY <1>1 DEF Conns
    <2>3. c.abort
      BY <1>1, Zenon DEF Conns
    <2>4. conn[s].pc # "none"
      BY <1>1, <1>4, LinksAssumption DEF LifeAt, Born, NoConn
    <2> HIDE DEF c
    <2>5. LifeAt(s)'
      <3>1. Born(s)'
        BY Zenon, <1>1, <1>2, <2>1, <2>2, <2>3, <2>4 DEF LifeAt, Born, Early
      <3>2. Row(s)'
        BY Zenon, <1>1, <1>2, <2>1, <2>2, <2>3, <2>4 DEF LifeAt, Row
      <3>3. Handle(s)'
        BY Zenon, <1>1, <1>2, <2>1, <2>2, <2>3, <2>4 DEF LifeAt, Handle
      <3>4. Heard(s)'
        BY Zenon, <1>1, <1>2, <2>1, <2>2, <2>3, <2>4 DEF LifeAt, Heard
      <3> QED
        BY <3>1, <3>2, <3>3, <3>4 DEF LifeAt
    <2> QED
      BY <2>5
  <1> QED
    BY <1>3, <1>4

\* What the router knows of the links after a message: of the one it is about,
\* and of the others.
LEMMA RoutedIds ==
    ASSUME Typed, Route
    PROVE  /\ Head(inbox).op = "add" => router'.ids = router.ids \cup {Head(inbox).id}
           /\ Head(inbox).op = "remove" => router'.ids = router.ids \ {Head(inbox).id}
           /\ Head(inbox).op \in {"add", "remove"} /\ Head(inbox).id \in Slot
           /\ \A t : t # Head(inbox).id => (Adds(t)' <=> Adds(t)) /\ (Removes(t)' <=> Removes(t))
           /\ \A t : (Adds(t)' => Adds(t)) /\ (Removes(t)' => Removes(t))
           /\ Head(inbox).op = "add" => Adds(Head(inbox).id) /\ \A t : (Removes(t)' <=> Removes(t))
           /\ Head(inbox).op = "remove" => Removes(Head(inbox).id) /\ \A t : (Adds(t)' <=> Adds(t))
  <1> DEFINE m == Head(inbox)
  <1>1. m.op \in {"add", "remove"} /\ m.id \in Slot
    BY Routed DEF Messages
  <1>2. /\ m.op = "add" => router'.ids = router.ids \cup {m.id}
        /\ m.op = "remove" => router'.ids = router.ids \ {m.id}
    BY DEF Route, Added, Removed
  <1>3. inbox \in Seq(Messages) /\ inbox # <<>> /\ inbox' = Tail(inbox) /\ waiting' = waiting
    BY DEF Typed, Route
  <1>4. Mail' \subseteq Mail /\ m \in Mail /\ \A x \in Mail : x = m \/ x \in Mail'
    BY <1>3, MailTaken
  <1> HIDE DEF m
  <1>5. /\ \A t : t # m.id => (Adds(t)' <=> Adds(t)) /\ (Removes(t)' <=> Removes(t))
        /\ \A t : (Adds(t)' => Adds(t)) /\ (Removes(t)' => Removes(t))
        /\ m.op = "add" => Adds(m.id) /\ \A t : (Removes(t)' <=> Removes(t))
        /\ m.op = "remove" => Removes(m.id) /\ \A t : (Adds(t)' <=> Adds(t))
    BY <1>4 DEF Adds, Removes
  <1> QED
    BY Zenon, <1>1, <1>2, <1>5 DEF m

\* The router adds a link once.
LEMMA AddTaken ==
    ASSUME Typed, AddedOnce, Route, Head(inbox).op = "add", NEW s, s = Head(inbox).id
    PROVE  ~Adds(s)'
  <1>1. inbox \in Seq(Messages) /\ inbox # <<>> /\ inbox' = Tail(inbox) /\ waiting' = waiting
    BY DEF Typed, Route
  <1>2. /\ \A i \in DOMAIN inbox' : inbox'[i] = inbox[i + 1] /\ i + 1 \in DOMAIN inbox
        /\ DOMAIN inbox' = 1 .. Len(inbox) - 1
    BY <1>1, MailTaken
  <1>3. 1 \in DOMAIN inbox /\ inbox[1] = Head(inbox)
    BY <1>1
  <1>4. \A i \in DOMAIN inbox' : ~(inbox'[i].op = "add" /\ inbox'[i].id = s)
    <2> SUFFICES ASSUME NEW i \in DOMAIN inbox', inbox'[i].op = "add", inbox'[i].id = s PROVE FALSE
      OBVIOUS
    <2>1. i + 1 = 1
      BY <1>2, <1>3 DEF AddedOnce
    <2> QED
      BY <1>2, <2>1
  <1>5. \A x \in Mail' : ~(x.op = "add" /\ x.id = s)
    BY <1>1, <1>4 DEF Mail, AddedOnce
  <1> QED
    BY <1>5 DEF Adds

\* The router takes a message about a connection.
LEMMA RouteLife ==
    ASSUME Typed, Life, AddedOnce, Route
    PROVE  Life'
  <1>1. conn' = conn /\ handles' = handles /\ active' = active
    BY DEF Route, tables
  <1> PICK s \in Slot : s = Head(inbox).id
    BY RoutedIds
  <1>2. LifeAt(s) /\ Head(inbox).op \in {"add", "remove"}
    BY RoutedIds DEF Life
  <1>3. \A t \in Slot \ {s} : conn'[t] = conn[t] /\ SameTables(t)
    BY <1>1, RoutedIds DEF SameTables
  <1>4. CASE Head(inbox).op = "add"
    <2>1. s \in router'.ids /\ ~Adds(s)' /\ Adds(s) /\ (Removes(s)' <=> Removes(s))
      BY <1>4, AddTaken, RoutedIds
    <2>2. LifeAt(s)'
      BY Zenon, <1>1, <1>2, <2>1 DEF LifeAt, Born, Row, Handle, Heard, Early
    <2> QED
      BY <1>2, <1>3, <2>2, OthersLife
  <1>5. CASE Head(inbox).op = "remove"
    <2>1. s \notin router'.ids /\ (Adds(s)' <=> Adds(s)) /\ Removes(s) /\ (Removes(s)' => Removes(s))
      BY <1>5, RoutedIds
    <2>2. LifeAt(s)'
      BY Zenon, <1>1, <1>2, <2>1 DEF LifeAt, Born, Row, Handle, Heard, Early
    <2> QED
      BY <1>2, <1>3, <2>2, OthersLife
  <1> QED
    BY <1>2, <1>4, <1>5

\* A message that waited gets into the inbox.
LEMMA Entered ==
    ASSUME Typed, Enter
    PROVE  Mail' = Mail /\ full' = full /\ waiting # {}
  <1>1. PICK m \in waiting : inbox' = Append(inbox, m) /\ waiting' = waiting \ {m}
    BY DEF Enter
  <1>2. m \in Messages /\ inbox \in Seq(Messages)
    BY DEF Typed
  <1>3. Mail' = Mail \cup {m}
    BY Zenon, <1>1, <1>2, MailAppended
  <1>4. m \in Mail
    BY DEF Mail
  <1> QED
    BY <1>1, <1>3, <1>4 DEF Enter

\* Every step keeps the lives of the connections.
LEMMA LifeStep == Typed /\ Life /\ AddedOnce /\ PeersAgree /\ [Next]_vars => Life'
  <1> SUFFICES ASSUME Typed, Life, AddedOnce, PeersAgree, [Next]_vars PROVE Life'
    OBVIOUS
  <1>1. CASE UNCHANGED <<conn, tables, mail>>
    <2>1. conn' = conn /\ UNCHANGED <<tables, mail>>
      BY <1>1
    <2>2. \A t \in Slot : conn'[t] = conn[t] /\ SameTables(t) /\ LifeAt(t)
      BY <2>1, Still DEF Life
    <2> QED
      BY <2>2, SameLife DEF Life
  <1>2. CASE Enter
    <2>1. Mail' = Mail /\ conn' = conn /\ handles' = handles /\ active' = active /\ router' = router
      BY <1>2, Entered DEF Enter, tables
    <2>2. \A t \in Slot : conn'[t] = conn[t] /\ SameTables(t) /\ LifeAt(t)
      BY <2>1 DEF Life, SameTables, Adds, Removes
    <2> QED
      BY <2>2, SameLife DEF Life
  <1> QED
    BY <1>1, <1>2, Steps, ComesAndGoes, RemovePeerLife, AdvancesLife, RegisterLife, HandleLife,
       SendLife, RunsLife, RouteLife

\* Where the lives start.
LEMMA LifeInit == Init => Life
  <1> SUFFICES ASSUME Init, NEW s \in Slot PROVE LifeAt(s)
    BY DEF Life
  <1>1. conn[s] = NoConn /\ handles[s] = 0 /\ s \notin active /\ s \notin router.ids
    BY DEF Init
  <1>2. ~Adds(s) /\ ~Removes(s)
    BY DEF Init, Adds, Removes, Mail
  <1>3. /\ conn[s].pc = "none" /\ conn[s].writer = "none" /\ conn[s].own = 0
        /\ conn[s].abort = FALSE /\ conn[s].cancel = FALSE
    BY <1>1 DEF NoConn
  <1>4. Born(s)
    BY <1>1, <1>2, <1>3 DEF Born, Early
  <1>5. Row(s) /\ Handle(s)
    BY <1>1, <1>3 DEF Row, Handle
  <1>6. Heard(s)
    BY <1>1, <1>2, <1>3 DEF Heard
  <1> QED
    BY <1>4, <1>5, <1>6 DEF LifeAt

\* When all is quiet, a connection is where its state says.
LEMMA QuietTables == Typed /\ Life => NoLeftovers
  <1> SUFFICES ASSUME Typed, Life, Quiet, NEW s \in Slot, ~Orphan(s)
               PROVE  LET up == conn[s].pc = "up" IN
                      (s \in active) = up /\ (handles[s] # 0) = up /\ (s \in router.ids) = up
    BY DEF NoLeftovers
  <1>1. LifeAt(s)
    BY DEF Life
  <1>2. ~Adds(s) /\ ~Removes(s)
    BY DEF Quiet, Adds, Removes, Mail
  <1>3. conn[s].own = 0 => handles[s] = 0 /\ s \notin router.ids
    BY Zenon, <1>1 DEF LifeAt, Born
  <1>4. CASE conn[s].pc \in {"none", "handshake"}
    <2>1. conn[s].pc \in Early /\ conn[s].pc # "up"
      BY <1>4 DEF Early
    <2>2. conn[s].own = 0 /\ s \notin active
      BY Zenon, <1>1, <2>1 DEF LifeAt, Born
    <2> QED
      BY <1>3, <2>1, <2>2
  <1>5. CASE conn[s].pc = "up"
    <2>1. ~conn[s].abort /\ ~conn[s].cancel /\ conn[s].writer \in {"none", "run", "ended"}
      BY <1>5 DEF Quiet
    <2>2. conn[s].writer = "run"
      BY Zenon, <1>1, <1>5, <2>1 DEF LifeAt, Handle, Row
    <2>3. s \in active
      BY Zenon, <1>1, <1>5, <2>1 DEF LifeAt, Row
    <2>4. handles[s] # 0 /\ s \in router.ids
      BY Zenon, <1>1, <1>5, <2>2 DEF LifeAt, Handle, Heard
    <2> QED
      BY <1>5, <2>3, <2>4
  <1>6. CASE conn[s].pc = "ended"
    <2>1. s \notin active /\ handles[s] = 0
      BY Zenon, <1>1, <1>6 DEF LifeAt, Row, Handle
    <2>2. s \notin router.ids
      BY Zenon, <1>1, <1>2, <1>6 DEF LifeAt, Heard
    <2> QED
      BY <1>6, <2>1, <2>2
  <1>7. CASE conn[s].pc = "dropped"
    <2>1. conn[s].writer = "ended"
      <3>1. conn[s].writer # "none" /\ conn[s].writer \in {"none", "run", "ended"}
        BY <1>7 DEF Orphan, Quiet
      <3>2. conn[s].cancel
        BY Zenon, <1>1, <1>7 DEF LifeAt, Row
      <3> QED
        BY <3>1, <3>2 DEF Quiet
    <2>2. conn[s].abort
      BY Zenon, <1>1, <1>7 DEF LifeAt, Row
    <2>3. s \notin active
      BY Zenon, <1>1, <2>1, <2>2 DEF LifeAt, Row
    <2>4. handles[s] = 0 /\ s \notin router.ids
      BY Zenon, <1>1, <1>2, <2>1 DEF LifeAt, Handle, Heard
    <2> QED
      BY <1>7, <2>3, <2>4
  <1> QED
    BY <1>4, <1>5, <1>6, <1>7 DEF Quiet
=============================================================================
