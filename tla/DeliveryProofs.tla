-------------------------- MODULE DeliveryProofs --------------------------
(***************************************************************************)
(* For any number of readers that the channel has room for, and any        *)
(* packets: the router actor never waits for a reader.  The reason is the  *)
(* count in WaitersBacked: whoever is counted in recv_ready, or is being   *)
(* sent a packet, is a reader in waiting, and there are no more of those   *)
(* than there are places in the channel.  Then, that Mailbox is            *)
(* implemented.                                                            *)
(***************************************************************************)
EXTENDS Delivery, FiniteSetTheorems, SequenceTheorems, TLAPS

\* Waiting readers can be counted, and are not more than the channel holds.
LEMMA WaitingCounted ==
    ASSUME TypeOK
    PROVE  /\ IsFiniteSet(waiting)
           /\ Cardinality(waiting) \in Nat
           /\ Cardinality(waiting) <= ChanSize
<1>1. waiting \subseteq Reader
    BY DEF TypeOK
<1>2. IsFiniteSet(waiting) /\ Cardinality(waiting) <= Cardinality(Reader)
    BY <1>1, FS_Subset, DeliveryAssumption
<1>3. Cardinality(waiting) \in Nat /\ Cardinality(Reader) \in Nat
    BY <1>2, FS_CardinalityType, DeliveryAssumption
<1> QED
    BY <1>2, <1>3, DeliveryAssumption

\* Nothing has arrived and nobody reads.
LEMMA TypeInit == Init => TypeOK
<1> SUFFICES ASSUME Init PROVE TypeOK
    OBVIOUS
<1>1. chan \in Seq(Packet) /\ recv_ready \in Nat
    BY DEF Init
<1>2. queue \in SUBSET Packet /\ coming \in SUBSET Packet /\ waiting \in SUBSET Reader
    BY DEF Init
<1>3. router = Idle /\ closed \in BOOLEAN
    BY Zenon DEF Init
<1> QED
    BY <1>1, <1>2, <1>3, Zenon DEF TypeOK

\* Each step of the actor and of a reader keeps the types.
LEMMA TypeStep == TypeOK /\ [Next]_vars => TypeOK'
<1> SUFFICES ASSUME TypeOK, [Next]_vars PROVE TypeOK'
    OBVIOUS
<1> USE DEF TypeOK, Idle
<1>1. ASSUME NEW p \in Packet, Deliver(p) PROVE TypeOK'
  <2>1. CASE recv_ready > 0
      BY <1>1, <2>1 DEF Deliver
  <2>2. CASE ~(recv_ready > 0)
      BY <1>1, <2>2 DEF Deliver
  <2> QED
      BY <2>1, <2>2
<1>2. CASE Push
    BY <1>2 DEF Push
<1>3. CASE Send
    BY <1>3 DEF Send
<1>4. CASE Close
    BY <1>4 DEF Close
<1>5. ASSUME NEW r \in Reader, TryPopOrWait(r) PROVE TypeOK'
    BY <1>5 DEF TryPopOrWait, PopOne
<1>6. ASSUME NEW r \in Reader, Recv(r) PROVE TypeOK'
    BY <1>6 DEF Recv, Receive
<1>7. ASSUME NEW r \in Reader, TryRead(r) PROVE TypeOK'
    BY <1>7 DEF TryRead, Receive, PopOne
<1>8. CASE UNCHANGED vars
    BY <1>8 DEF vars
<1> QED
    BY <1>1, <1>2, <1>3, <1>4, <1>5, <1>6, <1>7, <1>8 DEF Next

\* The state of the hand-over stays within its types (deliver, read_from and
\* try_read_from).
THEOREM TypeCorrect == Spec => []TypeOK
    BY TypeInit, TypeStep, PTL DEF Spec

\* A reader is counted when it starts to wait; deliver() moves the count into
\* the packet it sends; a reader that leaves takes a packet with it.
LEMMA BackedStep == TypeOK /\ WaitersBacked /\ [Next]_vars => WaitersBacked'
<1> SUFFICES ASSUME TypeOK, WaitersBacked, [Next]_vars, ~closed'
             PROVE  recv_ready' + Len(chan') + Sending' <= Cardinality(waiting')
    BY DEF WaitersBacked
<1>0. /\ IsFiniteSet(waiting) /\ Cardinality(waiting) \in Nat
      /\ Len(chan) \in Nat /\ recv_ready \in Nat
      /\ Sending \in {0, 1}
    BY WaitingCounted DEF TypeOK, Sending
<1>1. closed \in BOOLEAN /\ (~closed => recv_ready + Len(chan) + Sending <= Cardinality(waiting))
    BY DEF TypeOK, WaitersBacked
<1>2. ASSUME NEW p \in Packet, Deliver(p) PROVE recv_ready' + Len(chan') + Sending' <= Cardinality(waiting')
  <2>1. ~closed /\ chan' = chan /\ waiting' = waiting /\ Sending = 0
      BY <1>2 DEF Deliver, Sending, Idle
  <2>2. CASE recv_ready > 0
      BY <1>0, <1>1, <1>2, <2>1, <2>2 DEF Deliver, Sending
  <2>3. CASE ~(recv_ready > 0)
      BY <1>0, <1>1, <1>2, <2>1, <2>3 DEF Deliver, Sending
  <2> QED
      BY <2>2, <2>3
<1>3. CASE Push
    BY <1>0, <1>1, <1>3 DEF Push, Sending, Idle
<1>4. CASE Send
  <2>1. /\ Sending = 1 /\ Sending' = 0 /\ ~closed
        /\ recv_ready' = recv_ready /\ waiting' = waiting
      BY <1>4 DEF Send, Sending, Idle
  <2>2. Len(chan') = Len(chan) + 1
      BY <1>4 DEF Send, TypeOK, Idle
  <2> QED
      BY <1>0, <1>1, <2>1, <2>2, SMTT(40)
<1>5. CASE Close
    BY <1>5 DEF Close
<1>6. ASSUME NEW r \in Reader, TryPopOrWait(r) PROVE recv_ready' + Len(chan') + Sending' <= Cardinality(waiting')
  <2>1. ~closed /\ chan' = chan /\ Sending' = Sending
      BY <1>6 DEF TryPopOrWait, Sending
  <2>2. CASE recv_ready' = recv_ready /\ waiting' = waiting
      BY <1>0, <1>1, <2>1, <2>2
  <2>3. CASE recv_ready' = recv_ready + 1 /\ waiting' = waiting \cup {r}
    <3>1. r \notin waiting
        BY <1>6 DEF TryPopOrWait
    <3>2. Cardinality(waiting') = Cardinality(waiting) + 1
        BY <1>0, <2>3, <3>1, FS_AddElement, Zenon
    <3> QED
        BY <1>0, <1>1, <2>1, <2>3, <3>2
  <2> QED
      BY <1>6, <2>2, <2>3 DEF TryPopOrWait
<1>7. ASSUME NEW r \in Reader, Recv(r) PROVE recv_ready' + Len(chan') + Sending' <= Cardinality(waiting')
  <2>1. /\ ~closed /\ chan # <<>> /\ chan' = Tail(chan)
        /\ waiting' = waiting \ {r} /\ r \in waiting
        /\ recv_ready' = recv_ready /\ Sending' = Sending
      BY <1>7 DEF Recv, Receive, Sending
  <2>2. Len(chan') = Len(chan) - 1
      BY <2>1 DEF TypeOK
  <2>3. Cardinality(waiting') = Cardinality(waiting) - 1
      BY <1>0, <2>1, FS_RemoveElement, Zenon
  <2> QED
      BY <1>0, <1>1, <2>1, <2>2, <2>3
<1>8. ASSUME NEW r \in Reader, TryRead(r) PROVE recv_ready' + Len(chan') + Sending' <= Cardinality(waiting')
  <2>1. ~closed /\ waiting' = waiting /\ recv_ready' = recv_ready /\ Sending' = Sending
      BY <1>8 DEF TryRead, Receive, Sending
  <2>2. Len(chan') \in Nat /\ Len(chan') <= Len(chan)
      BY <1>8 DEF TryRead, Receive, TypeOK
  <2> QED
      BY <1>0, <1>1, <2>1, <2>2
<1>9. CASE UNCHANGED vars
    BY <1>0, <1>1, <1>9 DEF vars, Sending
<1> QED
    BY <1>2, <1>3, <1>4, <1>5, <1>6, <1>7, <1>8, <1>9, SMTT(40) DEF Next

\* Every waiting reader that deliver() counts on is there.
THEOREM WaitersBackedHolds == Spec => []WaitersBacked
<1>1. Init => WaitersBacked
  <2> SUFFICES ASSUME Init PROVE WaitersBacked
      OBVIOUS
  <2>1. recv_ready = 0 /\ Len(chan) = 0 /\ Sending = 0 /\ waiting = {}
      BY DEF Init, Sending, Idle
  <2> QED
      BY <2>1, FS_EmptySet DEF WaitersBacked
<1> QED
    BY <1>1, TypeCorrect, BackedStep, PTL DEF Spec

\* dispatch_actions never waits for room in the channel to the readers.
THEOREM ActorNotBlockedHolds == Spec => []ActorNotBlocked
<1>1. TypeOK /\ WaitersBacked => ActorNotBlocked
  <2> SUFFICES ASSUME TypeOK, WaitersBacked, router.step = "send", ~closed
               PROVE  Len(chan) < ChanSize
      BY DEF ActorNotBlocked
  <2>1. recv_ready \in Nat /\ Len(chan) \in Nat /\ Sending = 1
      BY DEF TypeOK, Sending
  <2>2. recv_ready + Len(chan) + Sending <= Cardinality(waiting)
      BY DEF WaitersBacked
  <2> QED
      BY <2>1, <2>2, WaitingCounted, DeliveryAssumption
<1> QED
    BY <1>1, TypeCorrect, WaitersBackedHolds, PTL

(***************************************************************************)
(* The queue, the channel and the actor together implement Mailbox, for    *)
(* any readers and packets.  The reason is that a packet is in one place   *)
(* only: taking it from there takes it out of the mailbox.                 *)
(***************************************************************************)
InChan == {chan[i] : i \in DOMAIN chan}

\* No packet is in two places, or twice in the channel.
Apart ==
    /\ \A i, j \in DOMAIN chan : chan[i] = chan[j] => i = j
    /\ queue \cap InChan = {}
    /\ router.packet \cap queue = {}
    /\ router.packet \cap InChan = {}
    /\ Held \cap coming = {}

\* What the channel holds after a packet is put in at its end.
LEMMA AppendHolds ==
    ASSUME chan \in Seq(Packet), NEW p \in Packet, chan' = Append(chan, p)
    PROVE  /\ InChan' = InChan \cup {p}
           /\ (\A i, j \in DOMAIN chan : chan[i] = chan[j] => i = j) /\ p \notin InChan =>
                (\A i, j \in DOMAIN chan : chan[i] = chan[j] => i = j)'
<1>1. DOMAIN chan = 1 .. Len(chan) /\ Len(chan) \in Nat
    OBVIOUS
<1>2. DOMAIN chan' = 1 .. Len(chan) + 1
    OBVIOUS
<1>3. chan'[Len(chan) + 1] = p /\ \A i \in DOMAIN chan : chan'[i] = chan[i]
    OBVIOUS
<1>4. InChan' = InChan \cup {p}
  <2>1. ASSUME NEW q \in InChan' PROVE q \in InChan \cup {p}
      BY <1>1, <1>2, <1>3, <2>1 DEF InChan
  <2>2. ASSUME NEW q \in InChan PROVE q \in InChan'
      BY <1>1, <1>2, <1>3, <2>2 DEF InChan
  <2>3. p \in InChan'
      BY <1>1, <1>2, <1>3 DEF InChan
  <2> QED
      BY <2>1, <2>2, <2>3
<1>5. ASSUME \A i, j \in DOMAIN chan : chan[i] = chan[j] => i = j, p \notin InChan,
             NEW i \in DOMAIN chan', NEW j \in DOMAIN chan', chan'[i] = chan'[j]
      PROVE  i = j
    BY <1>1, <1>2, <1>3, <1>5 DEF InChan
<1> QED
    BY <1>4, <1>5

\* What the channel holds after its first packet is taken.
LEMMA TailHolds ==
    ASSUME chan \in Seq(Packet), chan # <<>>, chan' = Tail(chan),
           \A i, j \in DOMAIN chan : chan[i] = chan[j] => i = j
    PROVE  /\ InChan' = InChan \ {Head(chan)}
           /\ Head(chan) \in InChan
           /\ (\A i, j \in DOMAIN chan : chan[i] = chan[j] => i = j)'
<1>1. DOMAIN chan = 1 .. Len(chan) /\ Len(chan) \in Nat /\ Len(chan) >= 1 /\ Head(chan) = chan[1]
    OBVIOUS
<1>2. DOMAIN chan' = 1 .. Len(chan) - 1
    OBVIOUS
<1>3. \A i \in DOMAIN chan' : chan'[i] = chan[i + 1] /\ i + 1 \in DOMAIN chan
    BY <1>1, <1>2
<1>4. InChan' = InChan \ {Head(chan)}
  <2>1. ASSUME NEW q \in InChan' PROVE q \in InChan \ {Head(chan)}
    <3>1. PICK i \in DOMAIN chan' : q = chan'[i]
        BY <2>1 DEF InChan
    <3>2. q = chan[i + 1] /\ i + 1 \in DOMAIN chan /\ i + 1 # 1
        BY <1>2, <1>3, <3>1
    <3> QED
        BY <1>1, <3>2 DEF InChan
  <2>2. ASSUME NEW q \in InChan, q # Head(chan) PROVE q \in InChan'
    <3>1. PICK i \in DOMAIN chan : q = chan[i]
        BY <2>2 DEF InChan
    <3>2. i # 1 /\ i - 1 \in DOMAIN chan'
        BY <1>1, <1>2, <2>2, <3>1
    <3>3. chan'[i - 1] = q
        BY <1>1, <1>2, <1>3, <3>1, <3>2
    <3> QED
        BY <3>2, <3>3 DEF InChan
  <2> QED
      BY <2>1, <2>2
<1>5. Head(chan) \in InChan
    BY <1>1 DEF InChan
<1>6. ASSUME NEW i \in DOMAIN chan', NEW j \in DOMAIN chan', chan'[i] = chan'[j] PROVE i = j
    BY <1>1, <1>2, <1>3, <1>6
<1> QED
    BY <1>4, <1>5, <1>6

\* deliver(): a packet enters the mailbox with the actor.
LEMMA DeliverRefines ==
    ASSUME TypeOK, Apart, NEW p \in Packet, Deliver(p)
    PROVE  Apart' /\ Mail!Arrive
<1>1. /\ router = Idle /\ p \in coming /\ coming' = coming \ {p}
      /\ queue' = queue /\ chan' = chan /\ read' = read /\ closed' = closed
    BY DEF Deliver
<1>2. router'.packet = {p} /\ router.packet = {}
    BY <1>1 DEF Deliver, Idle
<1>3. InChan' = InChan
    BY <1>1 DEF InChan
<1>4. Held = queue \cup InChan /\ Held' = queue \cup InChan \cup {p}
    BY <1>1, <1>2, <1>3 DEF Held, InChan
<1>5. Apart'
    BY <1>1, <1>2, <1>3, <1>4 DEF Apart
<1>6. Mail!Arrive
    BY <1>1, <1>4 DEF Mail!Arrive
<1> QED
    BY <1>5, <1>6

\* The actor moves its packet on within the mailbox.
LEMMA HandOverRefines ==
    ASSUME TypeOK, Apart, Push \/ Send
    PROVE  Apart' /\ UNCHANGED Mail!mailbox
<1>1. coming' = coming /\ read' = read /\ closed' = closed /\ router'.packet = {}
    BY DEF Push, Send, Idle
<1>2. CASE Push
  <2>1. queue' = queue \cup router.packet /\ InChan' = InChan /\ chan' = chan
      BY <1>2 DEF Push, InChan
  <2>2. Held' = Held
      BY <1>1, <2>1 DEF Held, InChan
  <2> QED
      BY <1>1, <2>1, <2>2 DEF Apart, Mail!mailbox
<1>3. CASE Send
  <2>1. queue' = queue /\ \E p \in router.packet : chan' = Append(chan, p)
      BY <1>3 DEF Send
  <2>2. PICK p \in Packet : router.packet = {p} /\ chan' = Append(chan, p)
      BY <2>1 DEF TypeOK, Idle
  <2>3. p \notin InChan
      BY <2>2 DEF Apart
  <2>4. InChan' = InChan \cup {p} /\ (\A i, j \in DOMAIN chan : chan[i] = chan[j] => i = j)'
      BY <2>2, <2>3, AppendHolds DEF Apart, TypeOK
  <2>5. Held' = Held
      BY <1>1, <2>1, <2>2, <2>4 DEF Held, InChan
  <2> QED
      BY <1>1, <2>1, <2>2, <2>4, <2>5 DEF Apart, Mail!mailbox
<1> QED
    BY <1>2, <1>3

\* A reader gets a packet from the channel.
LEMMA ReceiveRefines ==
    ASSUME TypeOK, Apart, Receive, UNCHANGED <<queue, router, coming, closed>>
    PROVE  Apart' /\ Mail!Read
<1>1. /\ chan # <<>> /\ chan' = Tail(chan) /\ read' = read \cup {Head(chan)}
      /\ queue' = queue /\ router' = router /\ coming' = coming /\ closed' = closed
    BY DEF Receive
<1>2. /\ InChan' = InChan \ {Head(chan)} /\ Head(chan) \in InChan
      /\ (\A i, j \in DOMAIN chan : chan[i] = chan[j] => i = j)'
    BY <1>1, TailHolds DEF Apart, TypeOK
<1>3. Held = queue \cup InChan \cup router.packet /\ Held' = queue \cup InChan' \cup router.packet
    BY <1>1 DEF Held, InChan
<1>4. Apart'
    BY <1>1, <1>2, <1>3 DEF Apart
<1>5. Head(chan) \in Held /\ Held' \subseteq Held \ {Head(chan)}
    BY <1>2, <1>3 DEF Apart
<1>6. Mail!Read
    BY <1>1, <1>5 DEF Mail!Read
<1> QED
    BY <1>4, <1>6

\* A reader gets a packet from the queue, which may drop others.
LEMMA PopRefines ==
    ASSUME TypeOK, Apart, PopOne, UNCHANGED <<chan, router, coming, closed>>
    PROVE  Apart' /\ Mail!Read
<1>1. PICK p \in queue : queue' \subseteq queue \ {p} /\ read' = read \cup {p}
    BY DEF PopOne
<1>2. chan' = chan /\ router' = router /\ coming' = coming /\ closed' = closed /\ InChan' = InChan
    BY DEF InChan
<1>3. Held = queue \cup InChan \cup router.packet /\ Held' = queue' \cup InChan \cup router.packet
    BY <1>2 DEF Held, InChan
<1>4. Apart'
    BY <1>1, <1>2, <1>3 DEF Apart
<1>5. p \in Held /\ Held' \subseteq Held \ {p}
    BY <1>1, <1>3 DEF Apart
<1>6. Mail!Read
    BY <1>1, <1>2, <1>5 DEF Mail!Read
<1> QED
    BY <1>4, <1>6

\* Everything else leaves the packets where they are.
LEMMA QuietRefines ==
    ASSUME Apart, UNCHANGED <<queue, chan, router, coming, read>>
    PROVE  Apart' /\ UNCHANGED <<coming, Held, read>>
BY DEF Apart, Held, InChan

\* Every step of the hand-over is a step of the mailbox, or none.
LEMMA StepRefines ==
    ASSUME TypeOK, Apart, [Next]_vars
    PROVE  Apart' /\ [Mail!Next]_(Mail!mailbox)
<1>1. ASSUME NEW p \in Packet, Deliver(p) PROVE Apart' /\ Mail!Next
    BY <1>1, DeliverRefines DEF Mail!Next
<1>2. CASE Push \/ Send
    BY <1>2, HandOverRefines
<1>3. CASE Close
  <2>1. Apart' /\ UNCHANGED <<coming, Held, read>> /\ closed' = TRUE
      BY <1>3, QuietRefines DEF Close
  <2> QED
      BY <2>1 DEF Mail!Next, Mail!Close
<1>4. ASSUME UNCHANGED <<queue, chan, router, coming, read, closed>>
      PROVE  Apart' /\ UNCHANGED Mail!mailbox
    BY <1>4, QuietRefines DEF Mail!mailbox
<1>5. ASSUME NEW r \in Reader, TryPopOrWait(r) PROVE Apart' /\ [Mail!Next]_(Mail!mailbox)
  <2>1. CASE PopOne
      BY <1>5, <2>1, PopRefines DEF TryPopOrWait, Mail!Next
  <2>2. CASE UNCHANGED <<queue, read>>
      BY <1>4, <1>5, <2>2 DEF TryPopOrWait
  <2> QED
      BY <1>5, <2>1, <2>2 DEF TryPopOrWait
<1>6. ASSUME NEW r \in Reader, Recv(r) PROVE Apart' /\ [Mail!Next]_(Mail!mailbox)
  <2>1. CASE Receive
      BY <1>6, <2>1, ReceiveRefines DEF Recv, Mail!Next
  <2>2. CASE UNCHANGED <<chan, read>>
      BY <1>4, <1>6, <2>2 DEF Recv
  <2> QED
      BY <1>6, <2>1, <2>2 DEF Recv
<1>7. ASSUME NEW r \in Reader, TryRead(r) PROVE Apart' /\ [Mail!Next]_(Mail!mailbox)
  <2>1. CASE PopOne /\ UNCHANGED chan
      BY <1>7, <2>1, PopRefines DEF TryRead, Mail!Next
  <2>2. CASE Receive /\ UNCHANGED queue
      BY <1>7, <2>2, ReceiveRefines DEF TryRead, Mail!Next
  <2> QED
      BY <1>7, <2>1, <2>2 DEF TryRead
<1>8. CASE UNCHANGED vars
    BY <1>4, <1>8 DEF vars
<1> QED
    BY <1>1, <1>2, <1>3, <1>5, <1>6, <1>7, <1>8 DEF Next

\* Nothing has arrived: the mailbox is empty.
LEMMA InitRefines == Init => Apart /\ Mail!Init
<1> SUFFICES ASSUME Init PROVE Apart /\ Mail!Init
    OBVIOUS
<1>1. queue = {} /\ chan = <<>> /\ router.packet = {} /\ coming = Packet /\ read = {} /\ closed = FALSE
    BY DEF Init, Idle
<1>2. DOMAIN chan = {}
    BY <1>1
<1>3. Held = {} /\ InChan = {}
    BY <1>1, <1>2 DEF Held, InChan
<1> QED
    BY <1>1, <1>2, <1>3 DEF Apart, Mail!Init

\* Whichever way packets take, each is read at most once and none comes back
\* (deliver(), dispatch_actions(), read_from(), try_read_from()).
THEOREM ImplementsMailbox == Spec => IsMailbox
<1>1. Spec => []TypeOK
    BY TypeCorrect
<1>2. TypeOK /\ Apart /\ [Next]_vars => Apart' /\ [Mail!Next]_(Mail!mailbox)
    BY StepRefines
<1> QED
    BY <1>1, <1>2, InitRefines, PTL DEF Spec, IsMailbox, Mail!Spec
=============================================================================
