----------------------------- MODULE Delivery -----------------------------
(***************************************************************************)
(* The hand-over of arrived packets from the router actor to the readers of *)
(* a PacketConn (traffic.rs, DeliveryQueue; core.rs, read_from and         *)
(* try_read_from; peers.rs, dispatch_actions).  A packet goes into a queue, *)
(* or straight to a waiting reader over a channel.  The actor looks at the *)
(* counter of waiting readers before it takes the queue's lock, so a reader *)
(* can come between the two.                                               *)
(*                                                                         *)
(* The queue is PacketQueue, reduced to what it promises: a pop returns one *)
(* of the packets held, if there are any, and may drop others.             *)
(***************************************************************************)
EXTENDS Integers, FiniteSets, Sequences

CONSTANTS Reader,   \* tasks that read
          Packet,   \* packets that arrive, each once
          ChanSize  \* RECV_CHANNEL_SIZE

ASSUME DeliveryAssumption ==
    IsFiniteSet(Reader) /\ ChanSize \in Nat /\ Cardinality(Reader) <= ChanSize

VARIABLES queue,       \* packets in the DeliveryQueue
          recv_ready,  \* its counter of waiting readers
          chan,        \* the channel to the readers
          router,      \* what the actor is about to do with which packet
          waiting,     \* readers in read_from, past try_pop_or_wait
          coming,      \* packets yet to arrive
          read,        \* packets that readers got
          closed

vars == <<queue, recv_ready, chan, router, waiting, coming, read, closed>>

Idle == [step |-> "idle", packet |-> {}]

Init ==
    /\ queue = {} /\ recv_ready = 0 /\ chan = <<>> /\ router = Idle
    /\ waiting = {} /\ coming = Packet /\ read = {} /\ closed = FALSE

\* Mutant: the counter is left as it is.
DeliverUncounted(p) ==
    /\ router = Idle
    /\ p \in coming
    /\ coming' = coming \ {p}
    /\ router' = [step |-> IF recv_ready > 0 THEN "send" ELSE "push", packet |-> {p}]
    /\ UNCHANGED <<queue, recv_ready, chan, waiting, read, closed>>

\* deliver(), up to the lock: the counter decides which way the packet takes.
Deliver(p) ==
    /\ router = Idle
    /\ p \in coming
    /\ coming' = coming \ {p}
    /\ IF recv_ready > 0
       THEN router' = [step |-> "send", packet |-> {p}] /\ recv_ready' = recv_ready - 1
       ELSE router' = [step |-> "push", packet |-> {p}] /\ UNCHANGED recv_ready
    /\ UNCHANGED <<queue, chan, waiting, read, closed>>

\* deliver(), under the lock.
Push ==
    /\ router.step = "push"
    /\ queue' = queue \cup router.packet
    /\ router' = Idle
    /\ UNCHANGED <<recv_ready, chan, waiting, coming, read, closed>>

\* dispatch_actions sends what deliver() hands back, waiting for room.
Send ==
    /\ router.step = "send"
    /\ Len(chan) < ChanSize
    /\ \E p \in router.packet : chan' = Append(chan, p)
    /\ router' = Idle
    /\ UNCHANGED <<queue, recv_ready, waiting, coming, read, closed>>

\* pop_codel(): one packet is returned, others may be dropped.
PopOne == \E p \in queue : \E kept \in SUBSET (queue \ {p}) :
              queue' = kept /\ read' = read \cup {p}

\* Mutant: the packet is looked at and left where it is.
ReceivePeek == chan # <<>> /\ read' = read \cup {Head(chan)} /\ UNCHANGED chan

\* A packet is received from the channel.
Receive == chan # <<>> /\ read' = read \cup {Head(chan)} /\ chan' = Tail(chan)

\* read_from(): try_pop_or_wait() under the lock.
TryPopOrWait(r) ==
    /\ ~closed
    /\ r \notin waiting
    /\ \/ PopOne /\ UNCHANGED <<recv_ready, waiting>>
       \/ /\ queue = {}
          /\ recv_ready' = recv_ready + 1
          /\ waiting' = waiting \cup {r}
          /\ UNCHANGED <<queue, read>>
    /\ UNCHANGED <<chan, router, coming, closed>>

\* read_from(), waiting: a packet comes, or the connection is closed.
Recv(r) ==
    /\ r \in waiting
    /\ \/ Receive
       \/ closed /\ UNCHANGED <<chan, read>>
    /\ waiting' = waiting \ {r}
    /\ UNCHANGED <<queue, recv_ready, router, coming, closed>>

\* Mutant: polling registers a waiting reader, as try_pop_or_wait() does.
TryReadCounted(r) ==
    /\ ~closed
    /\ r \notin waiting
    /\ \/ PopOne /\ UNCHANGED <<chan, recv_ready>>
       \/ /\ queue = {} /\ recv_ready' = recv_ready + 1
          /\ Receive \/ (chan = <<>> /\ UNCHANGED <<chan, read>>)
          /\ UNCHANGED queue
    /\ UNCHANGED <<router, waiting, coming, closed>>

\* try_read_from() of a reader that is not waiting: the queue first, then the
\* channel, unless a waiting reader has locked it.
TryRead(r) ==
    /\ ~closed
    /\ r \notin waiting
    /\ \/ PopOne /\ UNCHANGED chan
       \/ queue = {} /\ Receive /\ UNCHANGED queue
    /\ UNCHANGED <<recv_ready, router, waiting, coming, closed>>

Close ==
    /\ ~closed
    /\ closed' = TRUE
    /\ UNCHANGED <<queue, recv_ready, chan, router, waiting, coming, read>>

Next ==
    \/ \E p \in Packet : Deliver(p)
    \/ Push \/ Send \/ Close
    \/ \E r \in Reader : TryPopOrWait(r) \/ Recv(r) \/ TryRead(r)

Spec == Init /\ [][Next]_vars

FairSpec ==
    /\ Spec /\ WF_vars(Push) /\ WF_vars(Send)
    /\ \A r \in Reader : WF_vars(TryPopOrWait(r)) /\ WF_vars(Recv(r))

(***************************************************************************)
(* Properties.                                                             *)
(***************************************************************************)
Sending == IF router.step = "send" THEN 1 ELSE 0

\* Type correctness.
TypeOK ==
    /\ queue \in SUBSET Packet /\ coming \in SUBSET Packet
    /\ recv_ready \in Nat
    /\ chan \in Seq(Packet)
    /\ \/ router = Idle
       \/ \E p \in Packet, step \in {"send", "push"} : router = [step |-> step, packet |-> {p}]
    /\ waiting \in SUBSET Reader
    /\ closed \in BOOLEAN

\* Every reader that is counted, and every packet handed over for one, has a
\* reader waiting for it: polling with try_read_from leaves no phantom waiter.
WaitersBacked == ~closed => recv_ready + Len(chan) + Sending <= Cardinality(waiting)

\* The router actor, which all routing goes through, is never held up by its
\* readers: there is room in the channel when it sends.
ActorNotBlocked == router.step = "send" /\ ~closed => Len(chan) < ChanSize

\* The packets that are on one of the ways to a reader, and not yet read.
Held == queue \cup {chan[i] : i \in DOMAIN chan} \cup router.packet
Mail == INSTANCE Mailbox WITH held <- Held

\* Queue, channel and actor are together one mailbox: no packet is read twice,
\* none that was read or dropped comes back, and none is lost but by the queue
\* as it is popped (deliver(), dispatch_actions(), read_from(),
\* try_read_from()).
IsMailbox == Mail!Spec

\* Packets are queued when no reader is waiting, and sent directly when a reader
\* is ready: none is left in the queue while the readers wait.
QueuedIsRead == queue # {} ~> queue = {} \/ closed
=============================================================================
