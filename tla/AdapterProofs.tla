--------------------------- MODULE AdapterProofs ---------------------------
(***************************************************************************)
(* For any keys, packets, bounds, timeouts and numbers of tasks: what is   *)
(* buffered is not forgotten.  The node of the adapter is one of each of   *)
(* its parts, so that what is shown of these is true of it.                *)
(***************************************************************************)
EXTENDS Adapter, TLAPS

(***************************************************************************)
(* Buffered packets.                                                       *)
(***************************************************************************)
NodeAddr == {"addr", "subnet"} \X Key

\* The key that a task is at is one of Key; the task that reads from the
\* network is in update_key() only while it has a packet, so that no packet
\* takes the place of one whose key is just being learned.
StoreTyped ==
    /\ id \in Ids
    /\ known \in [Key -> Nat \cup {None}]
    /\ buffers \subseteq NodeAddr
    /\ tun = Idle \/ (tun \in [pc : {"buffer", "lookup"}, far : NodeAddr])
    /\ updates \in [Task -> {Idle} \cup [pc : {"look", "insert", "flush", "done"}, key : Key]]
    /\ updates["net"] # Idle => net.pc = "update"

\* The node starts with nothing buffered and no task in update_key().
LEMMA StoreInit == TunInit => StoreTyped /\ NotStranded
<1> SUFFICES ASSUME TunInit PROVE StoreTyped /\ NotStranded
    OBVIOUS
<1>1. id \in Ids /\ known \in [Key -> Nat \cup {None}]
    BY DEF TunInit
<1>2. buffers = {} /\ tun = Idle
    BY DEF TunInit
<1>3. updates \in [Task -> {Idle}] /\ updates["net"] = Idle
    BY DEF TunInit, Task
<1> QED
    BY <1>1, <1>2, <1>3 DEF StoreTyped, NotStranded

\* What the key store shows of a time that passes.
LEMMA OlderType == ASSUME NEW a \in Nat \cup {None}
                   PROVE  /\ Older(a, Fresh) \in Nat \cup {None}
                          /\ Older(a, Fresh) # None /\ Older(a, Fresh) < Fresh => a # None /\ a < Fresh
                          /\ a = None => Older(a, Fresh) = None
<1>1. CASE a = None
    BY <1>1 DEF Older
<1>2. CASE a # None
  <2>1. a \in Nat /\ a + 1 \in Nat /\ Fresh \in Nat
      BY <1>2, TunAssumption
  <2> DEFINE m == Min({a + 1, Fresh})
  <2>2. m = CHOOSE x \in {a + 1, Fresh} : \A y \in {a + 1, Fresh} : x <= y
      BY DEF Min
  <2>3. \E x \in {a + 1, Fresh} : \A y \in {a + 1, Fresh} : x <= y
      BY <2>1
  <2> HIDE DEF m
  <2>4. m \in {a + 1, Fresh} /\ m <= a + 1 /\ m <= Fresh
      BY <2>2, <2>3
  <2>5. Older(a, Fresh) = m
      BY <1>2 DEF Older, m
  <2> QED
      BY <1>2, <2>1, <2>4, <2>5, TunAssumption
<1> QED
    BY <1>1, <1>2

\* No step of the TUN or of update_key() loses track of a key.
LEMMA StoreStep == StoreTyped /\ [TunNext]_tunVars => StoreTyped'
<1> SUFFICES ASSUME StoreTyped, [TunNext]_tunVars PROVE StoreTyped'
    OBVIOUS
<1> USE DEF StoreTyped
<1>n. "net" \in Task /\ "net" \notin Notice
    BY TunAssumption DEF Task
<1>1. CASE InitCryptoKey
    BY <1>1 DEF InitCryptoKey, store, tasks
<1>2. ASSUME NEW t \in Task, Look(t) PROVE StoreTyped'
  <2>1. updates[t] \in [pc : {"look", "insert", "flush", "done"}, key : Key]
      BY <1>2 DEF Look, Idle
  <2>2. updates' \in [Task -> {Idle} \cup [pc : {"look", "insert", "flush", "done"}, key : Key]]
      BY <1>2, <2>1 DEF Look, Goto, Done
  <2>3. updates'["net"] # Idle => updates["net"] # Idle
    <3>1. t # "net" => updates'["net"] = updates["net"]
        BY <1>n, <1>2 DEF Look, Goto, Done
    <3>2. updates[t] # Idle
        BY <1>2 DEF Look, Idle
    <3> QED
        BY <3>1, <3>2
  <2> QED
      BY <1>2, <2>2, <2>3 DEF Look, store
<1>3. ASSUME NEW t \in Task, Insert(t) PROVE StoreTyped'
  <2>1. updates[t] \in [pc : {"look", "insert", "flush", "done"}, key : Key]
      BY <1>3 DEF Insert, Idle
  <2>2. updates' \in [Task -> {Idle} \cup [pc : {"look", "insert", "flush", "done"}, key : Key]]
      BY <1>3, <2>1 DEF Insert, Goto
  <2>3. updates'["net"] # Idle => updates["net"] # Idle
    <3>1. t # "net" => updates'["net"] = updates["net"]
        BY <1>n, <1>3 DEF Insert, Goto
    <3>2. updates[t] # Idle
        BY <1>3 DEF Insert, Idle
    <3> QED
        BY <3>1, <3>2
  <2>4. known' \in [Key -> Nat \cup {None}]
      BY <1>3, <2>1 DEF Insert
  <2> QED
      BY <1>3, <2>2, <2>3, <2>4 DEF Insert
<1>4. ASSUME NEW t \in Task, Flush(t) PROVE StoreTyped'
  <2>1. updates[t] \in [pc : {"look", "insert", "flush", "done"}, key : Key]
      BY <1>4 DEF Flush, Idle
  <2>2. updates' \in [Task -> {Idle} \cup [pc : {"look", "insert", "flush", "done"}, key : Key]]
      BY <1>4, <2>1 DEF Flush, Done
  <2>3. updates'["net"] # Idle => updates["net"] # Idle
    <3>1. t # "net" => updates'["net"] = updates["net"]
        BY <1>n, <1>4 DEF Flush, Done
    <3>2. updates[t] # Idle
        BY <1>4 DEF Flush, Idle
    <3> QED
        BY <3>1, <3>2
  <2> QED
      BY <1>4, <2>2, <2>3 DEF Flush
<1>5. ASSUME NEW t \in Task, NEW k \in Key, Learn(t, k) PROVE StoreTyped'
  <2>1. updates' \in [Task -> {Idle} \cup [pc : {"look", "insert", "flush", "done"}, key : Key]]
      BY <1>5 DEF Learn
  <2>2. updates'["net"] = updates["net"]
      BY <1>5, <1>n DEF Learn
  <2> QED
      BY <1>5, <2>1, <2>2 DEF Learn, store, Spend
<1>6. ASSUME NEW k \in Key, Answer(k) PROVE StoreTyped'
  <2>0. PICK t \in Notice : updates' = [updates EXCEPT ![t] = [pc |-> "look", key |-> k]]
      BY <1>6 DEF Answer
  <2>1. updates' \in [Task -> {Idle} \cup [pc : {"look", "insert", "flush", "done"}, key : Key]]
      BY <2>0 DEF Task
  <2>2. updates'["net"] = updates["net"]
      BY <2>0, <1>n
  <2> QED
      BY <1>6, <2>1, <2>2 DEF Answer
<1>7. ASSUME NEW p \in at.sends, Write(p) PROVE StoreTyped'
  <2>1. p.far \in NodeAddr \cup ({"route"} \X Addr)
      BY TunAssumption DEF at, NodeAddr
  <2>2. Ygg(p.far) => p.far \in NodeAddr
      BY <2>1 DEF Ygg, NodeAddr
  <2>3. tun' = Idle \/ tun' \in [pc : {"buffer", "lookup"}, far : NodeAddr]
      BY <1>7, <2>2 DEF Write, ByKey
  <2> QED
      BY <1>7, <2>3 DEF Write, store, Spend
<1>8. CASE Buffer
    BY <1>8 DEF Buffer, Idle
<1>9. CASE SendLookup
    BY <1>9 DEF SendLookup
<1>10. ASSUME NEW a \in at.arrivals, Arrive(a.from, a.pkt) PROVE StoreTyped'
  <2>1. a.from \in Key
      BY TunAssumption DEF at
  <2>2. CASE UNCHANGED <<net, updates>>
      BY <1>10, <2>2 DEF Arrive, store, Spend
  <2>3. CASE /\ net' = [pc |-> "update", from |-> a.from, pkt |-> a.pkt, ckr |-> ckr]
             /\ updates' = [updates EXCEPT !["net"] = [pc |-> "look", key |-> a.from]]
    <3>1. updates' \in [Task -> {Idle} \cup [pc : {"look", "insert", "flush", "done"}, key : Key]]
        BY <2>1, <2>3
    <3>2. net'.pc = "update"
        BY <2>3
    <3> QED
        BY <1>10, <3>1, <3>2 DEF Arrive, store, Spend
  <2> QED
      BY <1>10, <2>2, <2>3 DEF Arrive
<1>11. CASE Accept
  <2>1. updates' = [updates EXCEPT !["net"] = Idle]
      BY <1>11 DEF Accept
  <2>2. updates'["net"] = Idle
      BY <1>n, <2>1
  <2> QED
      BY <1>11, <2>1, <2>2 DEF Accept, store
<1>12. CASE Start
    BY <1>12 DEF Start, store
<1>13. CASE Inject \/ InjectFails
    BY <1>13 DEF Inject, InjectFails, store, Spend
<1>14. CASE Collect
    BY <1>14 DEF Collect, store, tasks
<1>15. CASE Tick
  <2>1. known' \in [Key -> Nat \cup {None}]
      BY <1>15, OlderType DEF Tick
  <2> QED
      BY <1>15, <2>1 DEF Tick, tasks
<1>16. CASE UNCHANGED tunVars
    BY <1>16 DEF tunVars
<1> QED
    BY <1>1, <1>2, <1>3, <1>4, <1>5, <1>6, <1>7, <1>8, <1>9, <1>10, <1>11, <1>12, <1>13, <1>14, <1>15, <1>16
    DEF TunNext

\* A task in update_key() for the key goes on to flush, and takes all that is
\* buffered for the key; whoever buffers looks for such a task.
LEMMA CaredStep == StoreTyped /\ NotStranded /\ [TunNext]_tunVars => NotStranded'
<1> SUFFICES ASSUME StoreTyped, NotStranded, [TunNext]_tunVars, NEW d \in buffers'
             PROVE  \/ Updating(d[2], {"insert", "flush"})'
                    \/ ~IsFresh(d[2])' /\ (\/ Updating(d[2], {"look"})' \/ d[2] \in asked'
                                           \/ (tun'.pc = "lookup" /\ tun'.far[2] = d[2]))
                    \/ d \in raced'
    BY DEF NotStranded
<1> DEFINE k == d[2]
           Cared == \/ Updating(k, {"insert", "flush"})
                    \/ ~IsFresh(k) /\ (Updating(k, {"look"}) \/ k \in asked \/ (tun.pc = "lookup" /\ tun.far[2] = k))
                    \/ d \in raced
<1> SUFFICES Cared'
    OBVIOUS
<1>a. d \in buffers => Cared
    BY DEF NotStranded
<1>n. "net" \in Task /\ "net" \notin Notice
    BY TunAssumption DEF Task
<1>u. ASSUME updates' = updates PROVE \A pcs : Updating(k, pcs)' <=> Updating(k, pcs)
    BY <1>u DEF Updating
<1>1. CASE UNCHANGED <<known, buffers, asked, raced, tun, updates>>
    BY <1>1, <1>a DEF Updating, IsFresh
<1>2. ASSUME NEW t \in Task, Look(t) PROVE Cared'
  <2>0. updates[t] \in [pc : {"look", "insert", "flush", "done"}, key : Key] /\ updates[t].pc = "look"
      BY <1>2 DEF Look, Idle, StoreTyped
  <2>1. UNCHANGED <<known, buffers, asked, raced, tun>> /\ (IsFresh(k)' <=> IsFresh(k))
      BY <1>2 DEF Look, store, IsFresh
  <2>2. \A s \in Task : s # t => updates'[s] = updates[s]
      BY <1>2 DEF Look, Done, Goto, StoreTyped
  <2>3. CASE updates[t].key # k
    <3>1. \A pcs : Updating(k, pcs) => Updating(k, pcs)'
        BY <2>2, <2>3 DEF Updating
    <3> QED
        BY <1>a, <2>1, <3>1
  <2>4. CASE updates[t].key = k /\ IsFresh(k)
    <3>1. Updating(k, {"insert", "flush"}) => Updating(k, {"insert", "flush"})'
        BY <2>0, <2>2 DEF Updating
    <3> QED
        BY <1>a, <2>1, <2>4, <3>1
  <2>5. CASE updates[t].key = k /\ ~IsFresh(k)
    <3>1. updates'[t] = [updates[t] EXCEPT !.pc = "insert"]
        BY <1>2, <2>5 DEF Look, Goto, StoreTyped
    <3>2. updates'[t].pc = "insert" /\ updates'[t].key = k
        BY <2>0, <2>5, <3>1
    <3> QED
        BY <3>2 DEF Updating
  <2> QED
      BY <2>3, <2>4, <2>5
<1>3. ASSUME NEW t \in Task, Insert(t) PROVE Cared'
  <2>0. updates[t] \in [pc : {"look", "insert", "flush", "done"}, key : Key]
      BY <1>3 DEF Insert, Idle, StoreTyped
  <2>1. UNCHANGED <<buffers, asked, raced, tun>>
      BY <1>3 DEF Insert
  <2>2. \A s \in Task : s # t => updates'[s] = updates[s]
      BY <1>3 DEF Insert, Goto, StoreTyped
  <2>3. CASE updates[t].key # k
    <3>1. \A pcs : Updating(k, pcs) => Updating(k, pcs)'
        BY <2>2, <2>3 DEF Updating
    <3>2. known'[k] = known[k]
        BY <1>3, <2>3, <2>1 DEF Insert, StoreTyped, NodeAddr
    <3> QED
        BY <1>a, <2>1, <3>1, <3>2 DEF IsFresh
  <2>4. CASE updates[t].key = k
    <3>1. updates'[t].pc = "flush" /\ updates'[t].key = k
        BY <1>3, <2>0, <2>4 DEF Insert, Goto, StoreTyped
    <3> QED
        BY <3>1 DEF Updating
  <2> QED
      BY <2>3, <2>4
<1>4. ASSUME NEW t \in Task, Flush(t) PROVE Cared'
  <2>0. updates[t] \in [pc : {"look", "insert", "flush", "done"}, key : Key]
      BY <1>4 DEF Flush, Idle, StoreTyped
  <2>1. UNCHANGED <<known, asked, tun>> /\ d \in buffers /\ (IsFresh(k)' <=> IsFresh(k))
      BY <1>4 DEF Flush, IsFresh
  <2>2. \A s \in Task : s # t => updates'[s] = updates[s]
      BY <1>4 DEF Flush, Done, StoreTyped
  <2>3. d \in NodeAddr /\ d \notin Flushed(updates[t].key)
      BY <1>4 DEF Flush, StoreTyped
  <2>4. updates[t].key # k
      BY <2>3 DEF Flushed, NodeAddr
  <2>5. \A pcs : Updating(k, pcs) => Updating(k, pcs)'
      BY <2>2, <2>4 DEF Updating
  <2>6. d \in raced => d \in raced'
      BY <1>4, <2>3 DEF Flush
  <2> QED
      BY <1>a, <2>1, <2>5, <2>6
<1>5. ASSUME NEW t \in Notice \cup {"seed"}, NEW j \in Key, updates[t] = Idle,
             updates' = [updates EXCEPT ![t] = [pc |-> "look", key |-> j]],
             UNCHANGED <<known, buffers, raced, tun>>, asked' \cup {j} = asked \cup {j}
      PROVE  Cared'
  <2>1. t \in Task
      BY DEF Task
  <2>2. \A s \in Task : s # t => updates'[s] = updates[s]
      BY <1>5 DEF StoreTyped
  <2>3. \A pcs : (\A s \in pcs : s # "idle") /\ Updating(k, pcs) => Updating(k, pcs)'
      BY <1>5, <2>2 DEF Updating, Idle
  <2>4. Updating(j, {"look"})'
      BY <1>5, <2>1 DEF Updating, StoreTyped
  <2>5. k \in asked => k \in asked' \/ k = j
      BY <1>5
  <2>6. IsFresh(k)' <=> IsFresh(k)
      BY <1>5 DEF IsFresh
  <2> QED
      BY <1>5, <1>a, <2>3, <2>4, <2>5, <2>6
<1>6. ASSUME NEW p \in at.sends, Write(p) PROVE Cared'
  <2>1. UNCHANGED <<known, buffers, asked, raced, updates>> /\ tun.pc # "lookup"
      BY <1>6 DEF Write, store, Idle
  <2> QED
      BY <1>a, <2>1 DEF Updating, IsFresh
<1>7. CASE Buffer
  <2>1. UNCHANGED <<known, asked, updates>> /\ tun.pc = "buffer" /\ (IsFresh(k)' <=> IsFresh(k))
      BY <1>7 DEF Buffer, IsFresh
  <2>2. tun'.pc = "lookup" /\ tun'.far = tun.far
      BY <1>7, <2>1 DEF Buffer, StoreTyped, Idle
  <2>3. CASE d # tun.far
    <3>1. d \in buffers /\ (d \in raced => d \in raced')
        BY <1>7, <2>3 DEF Buffer
    <3> QED
        BY <1>a, <2>1, <3>1 DEF Updating
  <2>4. CASE d = tun.far
    <3>1. CASE known[k] # None /\ ~Updating(k, {"insert", "flush"})
      <4>1. d \in raced'
          BY <1>7, <2>4, <3>1 DEF Buffer
      <4> QED
          BY <4>1
    <3>2. CASE Updating(k, {"insert", "flush"})
        BY <2>1, <3>2 DEF Updating
    <3>3. CASE known[k] = None
        BY <2>1, <2>2, <2>4, <3>3 DEF IsFresh
    <3> QED
        BY <3>1, <3>2, <3>3
  <2> QED
      BY <2>3, <2>4
<1>8. CASE SendLookup
  <2>1. UNCHANGED <<known, buffers, raced, updates>> /\ asked' = asked \cup {tun.far[2]}
      BY <1>8 DEF SendLookup
  <2> QED
      BY <1>a, <2>1 DEF Updating, IsFresh
<1>9. ASSUME NEW a \in at.arrivals, Arrive(a.from, a.pkt) PROVE Cared'
  <2>1. UNCHANGED <<known, buffers, asked, raced, tun>> /\ (IsFresh(k)' <=> IsFresh(k))
      BY <1>9 DEF Arrive, store, IsFresh
  <2>2. updates["net"] = Idle
      BY <1>9 DEF Arrive, StoreTyped, Idle
  <2>3. \A s \in Task : s # "net" => updates'[s] = updates[s]
      BY <1>9 DEF Arrive, StoreTyped
  <2>4. \A pcs : (\A s \in pcs : s # "idle") /\ Updating(k, pcs) => Updating(k, pcs)'
      BY <2>2, <2>3 DEF Updating, Idle
  <2> QED
      BY <1>a, <2>1, <2>4
<1>10. CASE Accept
  <2>1. UNCHANGED <<known, buffers, asked, raced, tun>> /\ (IsFresh(k)' <=> IsFresh(k))
      BY <1>10 DEF Accept, store, IsFresh
  <2>2. updates["net"].pc = "done"
      BY <1>10 DEF Accept
  <2>3. \A s \in Task : s # "net" => updates'[s] = updates[s]
      BY <1>10 DEF Accept, StoreTyped
  <2>4. \A pcs : (\A s \in pcs : s # "done") /\ Updating(k, pcs) => Updating(k, pcs)'
      BY <2>2, <2>3 DEF Updating
  <2> QED
      BY <1>a, <2>1, <2>4
<1>11. CASE Tick
  <2>1. UNCHANGED <<buffers, asked, raced, tun, updates>>
      BY <1>11 DEF Tick, tasks
  <2>2. k \in Key
      BY <2>1 DEF StoreTyped, NodeAddr
  <2>3. known'[k] = Older(known[k], Fresh) /\ known[k] \in Nat \cup {None}
      BY <1>11, <2>2 DEF Tick, StoreTyped
  <2>4. IsFresh(k)' => IsFresh(k)
      BY <2>3, OlderType DEF IsFresh
  <2> QED
      BY <1>a, <2>1, <2>4 DEF Updating
<1>12. CASE \/ InitCryptoKey \/ Start \/ Inject \/ InjectFails \/ Collect \/ UNCHANGED tunVars
    BY <1>1, <1>12 DEF InitCryptoKey, Start, Inject, InjectFails, Collect, tunVars, store, tasks
<1>13. ASSUME NEW t \in Task, NEW j \in Key, Learn(t, j) PROVE Cared'
    BY <1>5, <1>13 DEF Learn, store
<1>14. ASSUME NEW j \in Key, Answer(j) PROVE Cared'
    BY <1>5, <1>14 DEF Answer
<1> QED
    BY <1>2, <1>3, <1>4, <1>6, <1>7, <1>8, <1>9, <1>10, <1>11, <1>12, <1>13, <1>14 DEF TunNext

\* A buffered packet has somebody who will send it, but for the race that
\* write() and update_key() leave (see NotStranded), for any keys and tasks.
THEOREM NotStrandedHolds == TunSpec => []NotStranded
    BY StoreInit, StoreStep, CaredStep, PTL DEF TunSpec

\* Each step of the adapter is one of a part, and leaves the others alone.
THEOREM PartsComposed == AdapterSpec => TunSpec /\ ProtoSpec /\ ListsSpec
<1>1. AdapterInit => TunInit /\ ProtoInit /\ ListsInit
    BY DEF AdapterInit
<1>2. [Next]_adapterVars => /\ [TunNext]_tunVars
                            /\ [ProtoNext \/ \E m \in abroad : Dispatch(m)]_protoVars
                            /\ [ListsNext]_listVars
    BY DEF Next, adapterVars
<1> QED
    BY <1>1, <1>2, PTL DEF AdapterSpec, TunSpec, ProtoSpec, ListsSpec
=============================================================================
