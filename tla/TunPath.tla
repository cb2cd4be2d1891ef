------------------------------ MODULE TunPath ------------------------------
(***************************************************************************)
(* The way of packets between the TUN and the network (ipv6rwc.rs, the     *)
(* loops of tun.rs, read_from() and write_to() of core.rs).  A packet for  *)
(* a node whose key is not known is buffered until a lookup tells it; one  *)
(* that comes in must have an address of its sender, and must be let in by *)
(* the firewall.  With crypto-key routing, addresses behind other nodes    *)
(* are routed too.                                                         *)
(*                                                                         *)
(* Several tasks learn keys: the one that reads from the network, one for  *)
(* each path that is found, and one that goes over the connected peers.    *)
(***************************************************************************)
EXTENDS Ckr, Firewall

CONSTANTS Key,          \* keys of other nodes
          Fresh,        \* KEY_STORE_TIMEOUT / 2
          Notice,       \* tasks of path_notify
          Ids, Setting(_)   \* configurations, and bounds: see MCTun

\* A far address is one of a node, or one behind it.
ASSUME TunAssumption ==
    /\ Fresh \in Nat /\ None \notin Nat /\ "net" \notin Notice
    /\ \A i \in Ids :
         /\ \A p \in Setting(i).sends : p.far \in ({"addr", "subnet"} \X Key) \cup ({"route"} \X Addr)
         /\ \A a \in Setting(i).arrivals : a.from \in Key

VARIABLES id,        \* which configuration
          left,      \* what its bounds still allow
          ckr,       \* the routing table: off until it is made, panic if it cannot be
          known,     \* the age of each key's entry in the key store, None before there is one
          buffers,   \* addresses and subnets for which a packet is buffered
          asked,     \* keys whose lookup has not been answered
          tun,       \* the task that reads from the TUN
          net,       \* the task that reads from the network
          updates,   \* where the tasks are in update_key()
          flows,     \* the firewall's table
          gc,        \* time until gc() runs
          raced,     \* addresses and subnets whose packet missed the flush
          talks      \* what the packets of each flow have been
tunVars == <<id, left, ckr, known, buffers, asked, tun, net, updates, flows, gc, raced, talks>>

at == Setting(id)
Task == Notice \cup {"net", "seed"}
Idle == [pc |-> "idle"]

(***************************************************************************)
(* Far addresses: <<"addr", k>> and <<"subnet", k>> are those of the node  *)
(* with key k, <<"route", a>> is any other.                                *)
(***************************************************************************)
Ygg(far) == far[1] \in {"addr", "subnet"}
Ours(near) == near \in {"addr", "subnet"}

TunInit ==
    /\ id \in Ids /\ left = at.left
    /\ ckr = [pc |-> "off"]
    /\ known = [k \in Key |-> IF k \in at.known THEN 0 ELSE None]
    /\ buffers = {} /\ asked = {}
    /\ tun = Idle /\ net = Idle
    /\ updates = [t \in Task |-> Idle]
    /\ flows = <<>> /\ gc = 0
    /\ raced = {} /\ talks = <<>>

store == <<known, buffers, asked, raced>>
firewall == <<flows, talks>>
tasks == <<tun, net, updates>>
Running == ckr.pc # "panic"
Spend(what) == left[what] > 0 /\ left' = [left EXCEPT ![what] = @ - 1] /\ UNCHANGED id

\* init_crypto_key().
InitCryptoKey ==
    /\ ckr.pc = "off" /\ at.config.enable
    /\ IF Rejected(at.config) THEN ckr' = [pc |-> "panic"]
       ELSE \E order \in SetToSeqs(DOMAIN at.config.subnets) :
                ckr' = [pc |-> "on", table |-> CryptoKey(at.config, order)]
    /\ UNCHANGED <<id, left, store, tasks, firewall, gc>>

(***************************************************************************)
(* update_key().                                                           *)
(***************************************************************************)
IsFresh(k) == known[k] # None /\ known[k] < Fresh
Updating(k, pcs) == \E t \in Task : updates[t].pc \in pcs /\ updates[t].key = k
Goto(t, pc) == updates' = [updates EXCEPT ![t].pc = pc]
Done(t) == updates' = [updates EXCEPT ![t] = IF t = "net" THEN [@ EXCEPT !.pc = "done"] ELSE Idle]

Look(t) ==
    /\ updates[t].pc = "look"
    /\ IF IsFresh(updates[t].key) THEN Done(t) ELSE Goto(t, "insert")
    /\ UNCHANGED <<id, left, ckr, store, tun, net, firewall, gc>>
Insert(t) ==
    /\ updates[t].pc = "insert"
    /\ known' = [known EXCEPT ![updates[t].key] = 0]
    /\ Goto(t, "flush")
    /\ UNCHANGED <<id, left, ckr, buffers, asked, raced, tun, net, firewall, gc>>

\* What is buffered for the key is taken, and sent (if it waited for less than
\* KEY_STORE_TIMEOUT, which is left out).
\* Mutant: only what is buffered for its address.
FlushedAddr(k) == {<<"addr", k>>}
Flushed(k) == {<<"addr", k>>, <<"subnet", k>>}
Flush(t) ==
    /\ updates[t].pc = "flush"
    /\ buffers' = buffers \ Flushed(updates[t].key)
    /\ raced' = raced \ Flushed(updates[t].key)
    /\ Done(t)
    /\ UNCHANGED <<id, left, ckr, known, asked, tun, net, firewall, gc>>

\* The network answers a lookup, which path_notify reports, or does not.
Answer(k) ==
    /\ Running /\ k \in asked
    /\ asked' = asked \ {k}
    /\ \E t \in Notice : updates[t] = Idle /\ updates' = [updates EXCEPT ![t] = [pc |-> "look", key |-> k]]
    /\ UNCHANGED <<id, left, ckr, known, buffers, raced, tun, net, firewall, gc>>

\* A path that nobody asked for is found, or the peers are gone over.
Learn(t, k) ==
    /\ Running /\ Spend("notices")
    /\ t \in Notice \cup {"seed"} /\ updates[t] = Idle
    /\ updates' = [updates EXCEPT ![t] = [pc |-> "look", key |-> k]]
    /\ UNCHANGED <<ckr, store, tun, net, firewall, gc>>

(***************************************************************************)
(* The conversation of a flow since it has an entry: how long it has been  *)
(* quiet, and whether it was acknowledged or ended.  early: a connection   *)
(* was opened anew before the entry of the last was gone.                  *)
(***************************************************************************)
Said(last, p) ==
    [idle |-> 0, early |-> last.early,
     acked |-> last.acked \/ p.flags \in {"ack", "synack"}, ended |-> last.ended \/ p.flags \in {"fin", "rst"}]
Silent == [idle |-> 0, acked |-> FALSE, ended |-> FALSE, early |-> FALSE]
Anew(p) == Put(talks, FlowKey(p), Said(Silent, p))
Talk(p) ==
    LET key == FlowKey(p)
        again == talks[key].ended /\ p.flags = "syn"
    IN  IF key \notin DOMAIN flows THEN Anew(p)
        ELSE Put(talks, key, Said(IF again THEN [Silent EXCEPT !.early = TRUE] ELSE talks[key], p))
Lasts(key) ==
    CASE key.proto = "udp" -> Udp
      [] key.proto = "icmp" -> Icmp
      [] key.proto = "tcp" -> IF talks[key].ended \/ talks[key].early THEN Close
                              ELSE IF talks[key].acked THEN Established ELSE Syn

(***************************************************************************)
(* write(): a packet from the TUN.                                         *)
(***************************************************************************)
\* Standard routing by the key store, or routing by the table.
ByKey(p) ==
    /\ p.ip = 6 /\ Ygg(p.far)
    /\ IF ckr.pc = "off" THEN Ours(p.near) ELSE at.config.routing

Write(p) ==
    /\ Running /\ Spend("writes")
    /\ tun = Idle
    /\ IF p.ip = 6 /\ at.rules.enable
       THEN flows' = ObserveOutbound(flows, p) /\ talks' = IF Parsed(p) THEN Talk(p) ELSE talks
       ELSE UNCHANGED firewall
    /\ tun' = IF ByKey(p) /\ known[p.far[2]] = None THEN [pc |-> "buffer", far |-> p.far] ELSE Idle
    /\ UNCHANGED <<ckr, store, net, updates, gc>>

\* The key is not known: the packet replaces one that is buffered already.
Buffer ==
    /\ tun.pc = "buffer"
    /\ buffers' = buffers \cup {tun.far}
    /\ raced' = IF known[tun.far[2]] # None /\ ~Updating(tun.far[2], {"insert", "flush"})
                THEN raced \cup {tun.far} ELSE raced \ {tun.far}
    /\ tun' = [tun EXCEPT !.pc = "lookup"]
    /\ UNCHANGED <<id, left, ckr, known, asked, net, updates, firewall, gc>>
SendLookup ==
    /\ tun.pc = "lookup"
    /\ asked' = asked \cup {tun.far[2]}
    /\ tun' = Idle
    /\ UNCHANGED <<id, left, ckr, known, buffers, raced, net, updates, firewall, gc>>

(***************************************************************************)
(* read(): a packet from the network.                                      *)
(***************************************************************************)
\* accept_inbound(), up to update_key(): a packet that is too big is answered.
\* The routing table is the one of now.
Arrive(from, p) ==
    /\ Running /\ Spend("reads")
    /\ net = Idle
    /\ IF (p.ip = 4 /\ ckr.pc = "off") \/ p.big THEN UNCHANGED <<net, updates>>
       ELSE /\ net' = [pc |-> "update", from |-> from, pkt |-> p, ckr |-> ckr]
            /\ updates' = [updates EXCEPT !["net"] = [pc |-> "look", key |-> from]]
    /\ UNCHANGED <<ckr, store, tun, firewall, gc>>

\* The sender has the packet's address, or the route to it.
SourceOf(p, k) == p.ip = 6 /\ p.far \in {<<"addr", k>>, <<"subnet", k>>}
RouteOf(by, p, k) ==
    p.far[1] = "route" /\ p.ip = at.config.ip /\ Get(by.table, at.config, p.far[2]) = k
Valid(by, p, k) ==
    IF by.pc = "off" THEN Ours(p.near) /\ known[k] # None /\ SourceOf(p, k)
    ELSE (at.config.routing /\ known[k] # None /\ SourceOf(p, k)) \/ RouteOf(by, p, k)

Filtered(p) == at.rules.enable /\ p.ip = 6
Pass == net' = [pc |-> "inject"]
Drop == net' = Idle

\* The rest of it: the source, and the table of flows.
Accept ==
    /\ updates["net"].pc = "done"
    /\ LET p == net.pkt
           judged == IF Filtered(p) THEN Judge(at.rules, flows, p) ELSE "pass"
       IN  \/ ~Valid(net.ckr, p, net.from) /\ Drop /\ UNCHANGED firewall
           \/ /\ Valid(net.ckr, p, net.from)
              /\ \/ judged = "drop" /\ Drop /\ UNCHANGED firewall
                 \/ judged = "pass" /\ Pass /\ UNCHANGED firewall
                 \/ judged = "known" /\ Pass /\ flows' = Seen(flows, p) /\ talks' = Talk(p)
                 \/ judged = "start" /\ net' = [net EXCEPT !.pc = "start"] /\ UNCHANGED firewall
    /\ updates' = [updates EXCEPT !["net"] = Idle]
    /\ UNCHANGED <<id, left, ckr, store, tun, gc>>
Start ==
    /\ net.pc = "start"
    /\ Pass
    /\ flows' = Started(flows, net.pkt)
    /\ talks' = Anew(net.pkt)
    /\ UNCHANGED <<id, left, ckr, store, tun, updates, gc>>

\* The device takes the packet, or drops it because it is full, or fails.
Inject ==
    /\ net.pc = "inject"
    /\ net' = Idle
    /\ UNCHANGED <<id, left, ckr, store, tun, updates, firewall, gc>>
InjectFails ==
    /\ net.pc = "inject" /\ Spend("failures")
    /\ net' = [pc |-> "ended"]
    /\ UNCHANGED <<ckr, store, tun, updates, firewall, gc>>

(***************************************************************************)
(* Time.  A task that does not wait for the network is done within a tick. *)
(***************************************************************************)
Collect ==
    /\ Running /\ at.rules.enable /\ gc = 0
    /\ flows' = Gc(flows)
    /\ gc' = GcInterval
    /\ UNCHANGED <<id, left, ckr, store, tasks, talks>>
Older(age, most) == IF age = None THEN None ELSE Min({age + 1, most})
Tick ==
    /\ Running
    /\ tun = Idle /\ net.pc \in {"idle", "ended"} /\ \A t \in Task : updates[t] = Idle
    /\ at.rules.enable => gc > 0
    /\ gc' = IF at.rules.enable THEN gc - 1 ELSE gc
    /\ known' = [k \in Key |-> Older(known[k], Fresh)]
    /\ flows' = Aged(flows)
    /\ talks' = [key \in DOMAIN talks |-> [talks[key] EXCEPT !.idle = Min({@ + 1, Longest})]]
    /\ UNCHANGED <<id, left, ckr, buffers, asked, raced, tasks>>

TunNext ==
    \/ InitCryptoKey
    \/ \E t \in Task : Look(t) \/ Insert(t) \/ Flush(t) \/ \E k \in Key : Learn(t, k)
    \/ \E k \in Key : Answer(k)
    \/ \E p \in at.sends : Write(p)
    \/ Buffer \/ SendLookup
    \/ \E a \in at.arrivals : Arrive(a.from, a.pkt)
    \/ Accept \/ Start \/ Inject \/ InjectFails
    \/ Collect \/ Tick

TunSpec == TunInit /\ [][TunNext]_tunVars

(***************************************************************************)
(* Properties.                                                             *)
(***************************************************************************)
\* The table and the system's routes are what the entries say: an address
\* leads to a key whose remaining block around it is the longest, and to none
\* if there is no block; a configuration is turned down just when a block
\* starts in the overlay's own range (CryptoKey::new(), expand_cidrs(),
\* install_routes()).
RoutesRight(made) ==
    LET c == at.config
        others == DOMAIN c.subnets \ {c.self}
        taken == \E k \in others : \E n \in Block(c, k, "_") : n.addr \in c.ygg
    IN  /\ made.pc = "panic" <=> taken
        /\ made.pc = "on" => \A a \in Addr : LET o == Owners(c, a) IN
                                IF o = {} THEN Get(made.table, c, a) = None ELSE Get(made.table, c, a) \in o
        /\ SystemRoutes(c) = UNION {Block(c, k, "~") : k \in others}
RoutesExact == [][ckr' # ckr => RoutesRight(ckr')]_tunVars

\* k may have sent a packet from this address.
Owns(by, p, k) ==
    \/ p.ip = 6 /\ (by.pc = "off" \/ at.config.routing) /\ p.far \in {<<"addr", k>>, <<"subnet", k>>}
    \/ p.far[1] = "route" /\ p.ip = at.config.ip /\ by.pc = "on" /\ k \in Owners(at.config, p.far[2])
Quieter(key, time) == key \in DOMAIN talks /\ talks[key].idle < time

\* A packet is let in only from the node that has its source address or the
\* route to it, and, with the firewall on, only if it belongs to a flow that
\* has not been quiet for longer than its timeout and one round of gc(), or a
\* rule lets it in: an open port lets in what opens a connection and no more
\* (accept_inbound(), check_inbound(), gc()).
AdmittedOnly ==
    [][LET p == net.pkt
           key == FlowKey(p)
           opens == \/ p.proto = "tcp" /\ p.flags = "syn" /\ p.port \in at.rules.tcp
                    \/ p.proto = "udp" /\ p.port \in at.rules.udp
           exempt == \/ p.far \in at.rules.all
                     \/ p.proto = "icmp" /\ (p.flags = "error" \/ (at.rules.echo /\ p.flags = "request"))
       IN  net.pc # "inject" /\ net'.pc = "inject" =>
             /\ Owns(net.ckr, p, net.from)
             /\ Filtered(p) => \/ p.proto # "other" /\ (exempt \/ opens)
                               \/ Quieter(key, Lasts(key) + GcInterval)]_tunVars

\* A packet of a flow that has not been quiet for its timeout is let in: what
\* the conversation of the two has been decides, not which of its packets the
\* table happened to see last.  The exception is a connection that is opened
\* anew while the entry of the last one is there, which keeps that one's short
\* timeout (observe_outbound(), check_inbound(), advance_tcp(), gc()).
RepliesDelivered ==
    [][LET p == net.pkt IN
       net.pc = "update" /\ net' = Idle =>
          ~ /\ Owns(net.ckr, p, net.from) /\ (net.ckr.pc = "off" => Ours(p.near))
            /\ p.far[1] = "route" => Owners(at.config, p.far[2]) = {net.from}
            /\ Filtered(p) => Parsed(p) /\ Quieter(FlowKey(p), Lasts(FlowKey(p)))]_tunVars

\* A buffered packet has somebody who will send it: the lookup is about to be
\* sent or is out while the key is not known, or update_key() has still to
\* flush.  The exception is a packet that is buffered after its key was
\* learned and the buffers flushed: the sender found the key missing before
\* (write(), update_key()).
NotStranded ==
    \A d \in buffers : LET k == d[2] IN
        \/ Updating(k, {"insert", "flush"})
        \/ ~IsFresh(k) /\ (Updating(k, {"look"}) \/ k \in asked \/ (tun.pc = "lookup" /\ tun.far[2] = k))
        \/ d \in raced
=============================================================================
