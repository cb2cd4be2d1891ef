---------------------------- MODULE PacketQueue ----------------------------
(***************************************************************************)
(* The traffic queue of ironwood (traffic.rs, PacketQueue): deficit round  *)
(* robin over flows, byte caps on push, CoDel on pop.  One instance sits   *)
(* before every peer writer and one before the local reader.  Every        *)
(* operation runs under a lock, so push and pop are single steps.          *)
(*                                                                         *)
(* Time is relative to now: a packet has an age, CoDel's two instants are  *)
(* how far they lie ahead.  Each is kept only as far back as a comparison  *)
(* in the code can tell.  An Option is a set with at most one element; a   *)
(* loop is the set of its outcomes, one for every way ties are broken.     *)
(***************************************************************************)
EXTENDS Integers, FiniteSets, SequencesExt

CONSTANTS Flow,      \* flow keys, (source, dest) pairs
          Sizes,     \* wire sizes of packets
          Quantum, MaxBytesTotal, MaxBytesPerFlow,
          Target, Interval,  \* CODEL_TARGET, CODEL_INTERVAL, in ticks
          MaxDrops   \* bound on CoDel's count

\* A packet is no larger than four quanta: the quantum is the peer's maximum
\* message size, which a packet exceeds at most by the length of its path.
ASSUME QueueAssumption ==
    /\ Quantum \in Nat \ {0} /\ MaxBytesTotal \in Nat /\ MaxBytesPerFlow \in Nat
    /\ Sizes \subseteq 1..(4 * Quantum)
    /\ Target \in Nat /\ Interval \in Nat \ {0} /\ MaxDrops \in Nat

VARIABLES queue,  \* the flows, the ring of active ones, its cursor, the totals
          codel,  \* CoDel's state
          out     \* history: the flow the last step served, if it was a pop

vars == <<queue, codel, out>>

NoFlow == [infos |-> <<>>, size |-> 0, deficit |-> 0, index |-> 0]

\* The first flow of the ring has index 1, and 0 stands for None.
EmptyQueue == [flows |-> [k \in Flow |-> NoFlow], active |-> <<>>, next |-> 0,
               size |-> 0, count |-> 0]
Quiet == [first_above |-> {}, drop_next |-> {}, count |-> 0, lastcount |-> 0, dropping |-> FALSE]

(***************************************************************************)
(* The ring.  A flow is activated at its end; the last flow takes the place *)
(* of one that is deactivated.                                             *)
(***************************************************************************)
Activate(q, k) ==
    [q EXCEPT !.active = Append(@, k), !.flows[k].index = Len(q.active) + 1]

\* Mutant: the flow that takes the vacant place is not told its new index.
DeactivateUnindexed(q, k) ==
    LET idx == q.flows[k].index
        last == Len(q.active)
        active == SubSeq([q.active EXCEPT ![idx] = q.active[last]], 1, last - 1)
        n == IF q.next = last THEN idx ELSE q.next
    IN  [q EXCEPT !.active = active,
                  !.flows = [@ EXCEPT ![k].index = 0],
                  !.next = IF active = <<>> THEN 0 ELSE IF n > Len(active) THEN 1 ELSE n]

Deactivate(q, k) ==
    LET idx == q.flows[k].index
        last == Len(q.active)
        active == SubSeq([q.active EXCEPT ![idx] = q.active[last]], 1, last - 1)
        n == IF q.next = last THEN idx ELSE q.next
    IN  [q EXCEPT !.active = active,
                  !.flows = [@ EXCEPT ![q.active[last]].index = idx, ![k].index = 0],
                  !.next = IF active = <<>> THEN 0 ELSE IF n > Len(active) THEN 1 ELSE n]

RemoveFlowIfEmpty(q, k) ==
    IF q.flows[k].infos # <<>> THEN q
    ELSE [Deactivate(q, k) EXCEPT !.flows[k] = NoFlow]

\* drop_from(): take the head packet off flow k, which has one.
DropFrom(q, k) ==
    LET bytes == Head(q.flows[k].infos).size
        rest == [q.flows[k] EXCEPT !.infos = Tail(@), !.size = @ - bytes,
                                   !.deficit = IF @ > 4 * Quantum THEN 4 * Quantum ELSE @]
    IN  RemoveFlowIfEmpty([q EXCEPT !.flows[k] = rest, !.size = @ - bytes, !.count = @ - 1], k)

(***************************************************************************)
(* push().  The oldest packets of the flow, then of the largest flows, make *)
(* room.  Between flows of one size with heads of one age either may lose. *)
(***************************************************************************)
LargestFlows(q) ==
    LET active == ToSet(q.active)
        largest == {k \in active : \A x \in active : q.flows[x].size <= q.flows[k].size}
        age(k) == Head(q.flows[k].infos).age
    IN  {k \in largest : \A x \in largest : age(x) <= age(k)}

FitFlow(q, k, bytes) ==
    LET e[i \in 0..Len(q.flows[k].infos)] ==
          IF i = 0 THEN {q}
          ELSE {IF r.flows[k].size + bytes <= MaxBytesPerFlow THEN r ELSE DropFrom(r, k) : r \in e[i-1]}
    IN  e[Len(q.flows[k].infos)]

\* Mutant: the loop ends one byte too early.
FitTotalLoose(q, bytes) ==
    LET e[i \in 0..q.count] ==
          IF i = 0 THEN {q}
          ELSE UNION {IF r.size + bytes <= MaxBytesTotal + 1 \/ r.size = 0 THEN {r}
                      ELSE {DropFrom(r, k) : k \in LargestFlows(r)} : r \in e[i-1]}
    IN  e[q.count]

FitTotal(q, bytes) ==
    LET e[i \in 0..q.count] ==
          IF i = 0 THEN {q}
          ELSE UNION {IF r.size + bytes <= MaxBytesTotal \/ r.size = 0 THEN {r}
                      ELSE {DropFrom(r, k) : k \in LargestFlows(r)} : r \in e[i-1]}
    IN  e[q.count]

AddTo(q, k, bytes) ==
    LET r == [q EXCEPT !.flows[k].infos = Append(@, [size |-> bytes, age |-> 0]),
                       !.flows[k].size = @ + bytes, !.size = @ + bytes, !.count = @ + 1]
    IN  IF r.flows[k].index = 0 THEN Activate(r, k) ELSE r

Push(k, bytes) ==
    /\ queue' \in IF bytes > MaxBytesTotal \/ bytes > MaxBytesPerFlow THEN {queue}
                  ELSE {AddTo(q, k, bytes) :
                          q \in UNION {FitTotal(r, bytes) : r \in FitFlow(queue, k, bytes)}}
    /\ out' = {}
    /\ UNCHANGED codel

(***************************************************************************)
(* pop_info(): deficit round robin.  The flow under the cursor is served   *)
(* while its deficit covers its head; else the cursor moves on and the flow *)
(* it comes to is credited.  Four rounds credit every flow enough.         *)
(***************************************************************************)
Credit(q) == [q EXCEPT !.flows[q.active[q.next]].deficit = @ + Quantum]

Serveable(q) ==
    LET f == q.flows[q.active[q.next]] IN Head(f.infos).size <= f.deficit

Visit(q) == Credit([q EXCEPT !.next = IF @ + 1 > Len(q.active) THEN 1 ELSE @ + 1])

\* Where a pop starts: at the flow under the cursor, which has its credit from
\* the visit before; only the first flow ever visited is credited here.
\* Mutant: the flow under the cursor is credited again by every pop.
StartCredited(q) == Credit([q EXCEPT !.next = IF @ \in DOMAIN q.active THEN @ ELSE 1])

Start(q) ==
    IF q.next = 0 THEN Credit([q EXCEPT !.next = 1])
    ELSE IF q.next > Len(q.active) THEN [q EXCEPT !.next = 1] ELSE q

Seek(q) ==
    LET v[i \in 0..(4 * Len(q.active))] ==
          IF i = 0 THEN {Start(q)}
          ELSE {IF Serveable(r) THEN r ELSE Visit(r) : r \in v[i-1]}
    IN  v[4 * Len(q.active)]

Serve(q, k) ==
    LET r == DropFrom(q, k)
    IN  IF r.flows[k] = NoFlow THEN r
        ELSE [r EXCEPT !.flows[k].deficit = @ - Head(q.flows[k].infos).size]

\* The queue after the pop, and the packet's flow and age.
PopInfo(q) ==
    IF q.size = 0 THEN {[queue |-> [q EXCEPT !.next = 0], info |-> {}]}
    ELSE {LET k == s.active[s.next]
          IN  [queue |-> Serve(s, k), info |-> {[flow |-> k, age |-> Head(s.flows[k].infos).age]}] :
          s \in Seek(q)}

(***************************************************************************)
(* pop_codel(), with count packets left behind the one just taken.         *)
(***************************************************************************)
\* The integer part of INTERVAL / sqrt(count).
ControlLaw(count) ==
    CHOOSE d \in 0..Interval : /\ d * d * count <= Interval * Interval
                               /\ (d + 1) * (d + 1) * count > Interval * Interval

\* codel_should_drop(): first_above as it leaves it, and its verdict.
\* Mutant: the backlog is not looked at.
FirstAboveAlways(c, info, count) ==
    IF \A i \in info : i.age < Target THEN {}
    ELSE IF c.first_above = {} THEN {Interval} ELSE c.first_above

FirstAbove(c, info, count) ==
    IF (\A i \in info : i.age < Target) \/ count <= 1 THEN {}
    ELSE IF c.first_above = {} THEN {Interval} ELSE c.first_above

\* One dequeue within pop_codel, c being CoDel's state.
Judge(q, c) ==
    {LET above == FirstAbove(c, p.info, p.queue.count)
     IN  [queue |-> p.queue, info |-> p.info, codel |-> [c EXCEPT !.first_above = above],
          drop |-> \E t \in above : t < 0] :
     p \in PopInfo(q)}

\* Dropping: packets are dropped for as long as the next drop is due.
DropNext(d) ==
    LET n == d.codel.count + 1
    IN  {IF e.drop THEN [e EXCEPT !.codel.drop_next = {t + ControlLaw(n) : t \in @}]
         ELSE [e EXCEPT !.codel.dropping = FALSE] :
         e \in Judge(d.queue, [d.codel EXCEPT !.count = n])}

DropDue(j) ==
    LET e[i \in 0..(j.queue.count + 1)] ==
          IF i = 0 THEN {j}
          ELSE UNION {IF d.codel.dropping /\ \E t \in d.codel.drop_next : t <= 0
                      THEN DropNext(d) ELSE {d} : d \in e[i-1]}
    IN  e[j.queue.count + 1]

\* Not yet dropping, and the standing queue has lasted: drop this one packet,
\* at the rate of the last cycle if that is not long ago.
StartDropping(j) ==
    LET delta == j.codel.count - j.codel.lastcount
        n == IF delta > 1 /\ \E t \in j.codel.drop_next : -t < 16 * Interval THEN delta ELSE 1
    IN  {[e EXCEPT !.codel = [@ EXCEPT !.dropping = TRUE, !.count = n, !.lastcount = n,
                                       !.drop_next = {ControlLaw(n)}]] :
         e \in Judge(j.queue, j.codel)}

PopCodel(q, c) ==
    UNION {IF j.info = {} THEN {[j EXCEPT !.codel = [c EXCEPT !.dropping = FALSE]]}
           ELSE IF c.dropping /\ j.drop THEN DropDue(j)
           ELSE IF c.dropping THEN {[j EXCEPT !.codel.dropping = FALSE]}
           ELSE IF j.drop /\ \/ \E t \in j.codel.drop_next : -t < Interval
                             \/ \E t \in j.codel.first_above : -t >= Interval
           THEN StartDropping(j)
           ELSE {j} :
           j \in Judge(q, c)}

Pop ==
    /\ codel.count < MaxDrops
    /\ \E r \in PopCodel(queue, codel) :
         /\ queue' = r.queue
         /\ codel' = r.codel
         /\ out' = {i.flow : i \in r.info}

\* Time passes.
Later(t, floor) == IF t > floor THEN t - 1 ELSE t

Tick ==
    /\ queue' = [queue EXCEPT !.flows = [k \in Flow |-> [@[k] EXCEPT !.infos =
                   [i \in DOMAIN @ |-> [@[i] EXCEPT !.age = IF @ < Target THEN @ + 1 ELSE @]]]]]
    /\ codel' = [codel EXCEPT !.first_above = {Later(t, -Interval) : t \in @},
                              !.drop_next = {Later(t, -16 * Interval) : t \in @}]
    /\ out' = {}

Init == queue = EmptyQueue /\ codel = Quiet /\ out = {}

Next == (\E k \in Flow, bytes \in Sizes : Push(k, bytes)) \/ Pop \/ Tick

Spec == Init /\ [][Next]_vars

\* The writer (or the reader of the delivery queue) comes back for more as long
\* as there is something queued.
FairSpec == Spec /\ WF_vars(Pop)

(***************************************************************************)
(* Properties.                                                             *)
(***************************************************************************)
Packet == [size : Sizes, age : 0..Target]
Instants(n) == {{}} \cup {{t} : t \in (-n)..Interval}

\* Type correctness.
TypeOK ==
    /\ queue.flows \in [Flow -> [infos : Seq(Packet), size : Nat, deficit : Nat, index : Nat]]
    /\ queue.active \in Seq(Flow)
    /\ queue.next \in Nat /\ queue.size \in Nat /\ queue.count \in Nat
    /\ codel \in [first_above : Instants(Interval), drop_next : Instants(16 * Interval),
                  count : Nat, lastcount : Nat, dropping : BOOLEAN]
    /\ out \in {{}} \cup {{k} : k \in Flow}

\* Whatever is pushed, served, evicted and dropped, the ring holds exactly the
\* flows with a backlog, once each, every flow knows its place in it, and the
\* cursor is in the ring: pop_info and deactivate index it without a check.
RingConsistent ==
    /\ \A k \in Flow :
         IF queue.flows[k].infos = <<>> THEN queue.flows[k] = NoFlow
         ELSE queue.flows[k].index \in DOMAIN queue.active /\ queue.active[queue.flows[k].index] = k
    /\ \A i \in DOMAIN queue.active : queue.flows[queue.active[i]].index = i
    /\ queue.next \in 0..Len(queue.active)

\* The totals that is_empty, the caps and CoDel rely on are those of the
\* packets held, and neither a flow nor the queue outgrows its cap.
Bytes(k) == FoldLeft(LAMBDA sum, p : sum + p.size, 0, queue.flows[k].infos)
BytesAccounted ==
    /\ \A k \in Flow : queue.flows[k].size = Bytes(k) /\ Bytes(k) <= MaxBytesPerFlow
    /\ queue.size = MapThenSumSet(Bytes, Flow) /\ queue.size <= MaxBytesTotal
    /\ queue.count = MapThenSumSet(LAMBDA k : Len(queue.flows[k].infos), Flow)

\* Credit is neither hoarded nor overdrawn: serving never takes a deficit below
\* zero (it is unsigned), and a flow that is passed over does not save up more
\* than one quantum and the packet it could not yet send.
DeficitBounded ==
    \A k \in Flow : queue.flows[k].deficit \in 0..(Quantum + Max(Sizes) - 1)

\* CoDel never empties the queue ("never while at most one packet is left
\* behind"): a pop that finds packets returns one, however many it drops, so
\* a reader is never told to wait when there was something for it.
PopServes == queue.size > 0 => \A r \in PopCodel(queue, codel) : r.info # {}

\* Long-term fairness of pop_info: a flow with a backlog gets its turn, whatever
\* the others send (unless the bound on CoDel's count has ended the pops).
EveryFlowServed ==
    \A k \in Flow : \/ []<>(k \in out \/ queue.flows[k] = NoFlow)
                    \/ <>(codel.count >= MaxDrops)
=============================================================================
