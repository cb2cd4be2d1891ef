------------------------------- MODULE Links -------------------------------
(***************************************************************************)
(* How a node's links come and go (links.rs, multicast.rs, handle_conn() in *)
(* core.rs, the Peers of peers.rs).  A link is in three tables that        *)
(* different tasks fill and clear: the active links, the peers with their  *)
(* ports, and the router's own, which hears of it through its inbox.  A    *)
(* link's reader and writer both clear up after it, and a peer that is     *)
(* removed has its task aborted at whatever point it waits.                *)
(*                                                                         *)
(* What happens on a link while it is up is the subject of PeerLink.       *)
(***************************************************************************)
EXTENDS Integers, Sequences, FiniteSetsExt, Functions

CONSTANTS Uri,         \* URIs that may be configured
          Sock,        \* Sock[u]: the socket that u resolves to
          Key, None,   \* keys of other nodes, and a value for no key
          Host,        \* the key of the node that is dialled
          Slot,        \* connections that exist at a time
          Inbound,     \* max_inbound_links_per_peer
          Permits,     \* MAX_CONCURRENT_INCOMING
          MaxFailed,   \* MAX_FAILED_ATTEMPTS
          Setting      \* ROUTER_CHANNEL_SIZE (room), and bounds: the URIs that are
                       \* configured (uris), how many inbound connections (accepts),
                       \* beacons, calls of remove_peer() (removes), links that break
                       \* and changes of the dialled node (moods) there are

ASSUME LinksAssumption ==
    /\ Host \in Key /\ None \notin Key \cup Uri
    /\ Slot \subseteq Nat \ {0} /\ IsFiniteSet(Slot)
    /\ Sock \in [Uri -> Int]
    /\ Inbound \in Nat

VARIABLES task,     \* of each URI: where its reconnect loop is, "none" if it is not configured
          addrs,    \* URIs whose address is in peer_addrs
          conn,     \* the connections
          active,   \* ActiveLinks: the connections that have a row
          handles,  \* Peers: the port of each connection that has a handle, or 0
          used,     \* Peers: the key that each port is allocated to
          router,   \* the connections and the ports that the router knows
          inbox,    \* messages to the router
          waiting,  \* messages of tasks that wait for room in the inbox
          host,     \* the dialled node: "good", "old" (of another version) or "away"
          ban,      \* the BanList's entry for the address of the other nodes
          left,     \* what the bounds still allow
          full      \* the inbox was full when a message was to go into it
vars == <<task, addrs, conn, active, handles, used, router, inbox, waiting, host, ban, left, full>>

\* As many ports as connections: one is free whenever one is allocated.
Port == 1..Cardinality(Slot)

(***************************************************************************)
(* A connection.  pc is where its task is: in handle_connection() up to    *)
(* "allocate", then in handle_conn() up to "peers", the last three being   *)
(* the reader's way out.  writer is where the writer is, "none" before it  *)
(* is spawned.  own is the port it got, seen the one that the reader reads. *)
(***************************************************************************)
NoConn ==
    [kind |-> "none", uri |-> None, key |-> None, sock |-> 0, pc |-> "none",
     writer |-> "none", cancel |-> FALSE, abort |-> FALSE, own |-> 0, seen |-> 0]

Free == {s \in Slot : conn[s] = NoConn}
FreeSlot == CHOOSE s \in Free : TRUE
Open(kind, u, k, sock, pc) ==
    /\ Free # {}
    /\ conn' = [conn EXCEPT ![FreeSlot] =
                  [NoConn EXCEPT !.kind = kind, !.uri = u, !.key = k, !.sock = sock, !.pc = pc]]

NotBanned == [count |-> 0, until |-> "none", stale |-> FALSE]

Init ==
    /\ left \in Setting
    /\ task \in [Uri -> {"none", "dial"}]
    /\ \A u \in Uri \ left.uris : task[u] = "none"
    /\ addrs \in SUBSET {u \in Uri : task[u] # "none"}
    /\ \A u, v \in addrs : Sock[u] = Sock[v] => u = v
    /\ conn = [s \in Slot |-> NoConn]
    /\ active = {}
    /\ handles = [s \in Slot |-> 0]
    /\ used = [p \in Port |-> None]
    /\ router = [ids |-> {}, ports |-> [p \in Port |-> None]]
    /\ inbox = <<>> /\ waiting = {}
    /\ host = "good"
    /\ ban = NotBanned
    /\ full = FALSE

tables == <<active, handles, used>>
mail == <<router, inbox, waiting, full>>

(***************************************************************************)
(* BanList.                                                                *)
(***************************************************************************)
Banned == ban.until = "ahead"

\* is_banned(): a ban that is over is cleared.
Checked == IF ban.until = "past" THEN [ban EXCEPT !.until = "none", !.count = 0] ELSE ban

\* record_failure().
RecordFailure ==
    LET count == (IF ban.stale THEN 0 ELSE ban.count) + 1
    IN  [count |-> Min({count, MaxFailed}), stale |-> FALSE,
         until |-> IF count >= MaxFailed THEN "ahead" ELSE ban.until]

\* Time passes: a ban or the window of failures ends, or cleanup() drops the entry.
Elapse ==
    /\ \/ ban.until = "ahead" /\ ban' = [ban EXCEPT !.until = "past"]
       \/ ~ban.stale /\ ban.count > 0 /\ ban' = [ban EXCEPT !.stale = TRUE]
       \/ ban.until # "ahead" /\ ban.stale /\ ban' = NotBanned
    /\ UNCHANGED <<task, addrs, conn, tables, mail, host, left>>

(***************************************************************************)
(* Configured peers and their reconnect loops.                             *)
(***************************************************************************)
\* add_peer(); when the name cannot be resolved the check for duplicates is skipped.
AddPeer(u) ==
    /\ task[u] = "none" /\ u \in left.uris
    /\ \E resolved \in BOOLEAN :
         /\ resolved => \A v \in addrs : Sock[v] # Sock[u]
         /\ addrs' = IF resolved THEN addrs \cup {u} ELSE addrs
    /\ task' = [task EXCEPT ![u] = "dial"]
    /\ UNCHANGED <<conn, tables, mail, host, ban, left>>

\* remove_peer(): the loop's task is aborted, and the rows of its URI are removed.
RemovePeer(u) ==
    /\ left.removes > 0 /\ left' = [left EXCEPT !.removes = @ - 1]
    /\ task[u] # "none"
    /\ task' = [task EXCEPT ![u] = "none"]
    /\ addrs' = addrs \ {u}
    /\ conn' = [s \in Slot |-> IF conn[s].uri = u THEN [conn[s] EXCEPT !.abort = TRUE] ELSE conn[s]]
    /\ active' = {s \in active : conn[s].uri # u}
    /\ UNCHANGED <<handles, used, mail, host, ban>>

\* The loop dials, and enters handle_connection(), which fails if the address is banned.
Dial(u) ==
    /\ task[u] = "dial"
    /\ IF host = "away" THEN task' = [task EXCEPT ![u] = "sleep"] /\ UNCHANGED <<conn, ban>>
       ELSE /\ ban' = Checked
            /\ IF Banned THEN task' = [task EXCEPT ![u] = "sleep"] /\ UNCHANGED conn
               ELSE /\ task' = [task EXCEPT ![u] = "linked"]
                    /\ Open("persistent", u, Host, Sock[u], "handshake")
    /\ UNCHANGED <<addrs, tables, mail, host, left>>

\* The backoff is over, or retry_peers_now() ends it.
Wake(u) ==
    /\ task[u] = "sleep"
    /\ task' = [task EXCEPT ![u] = "dial"]
    /\ UNCHANGED <<addrs, conn, tables, mail, host, ban, left>>

(***************************************************************************)
(* Connections that others open, and those to nodes that multicast finds.  *)
(***************************************************************************)
\* A listener accepts a connection of the node with key k, if there is a permit.
Accept(k) ==
    /\ left.accepts > 0 /\ left' = [left EXCEPT !.accepts = @ - 1]
    /\ Cardinality({s \in Slot : conn[s].kind = "incoming" /\ conn[s].pc # "ended"}) < Permits
    /\ ban' = Checked
    /\ IF Banned THEN UNCHANGED conn
       ELSE Open("incoming", None, k, -FreeSlot, "handshake")
    /\ UNCHANGED <<task, addrs, tables, mail, host>>

HasKeyAddr(k, sock) == \E s \in active : conn[s].key = k /\ conn[s].sock = sock

\* receiver_loop(): a beacon of the host, for the socket that u stands for.
Beacon(u) ==
    /\ left.beacons > 0 /\ left' = [left EXCEPT !.beacons = @ - 1]
    /\ ~HasKeyAddr(Host, Sock[u])
    /\ Open("ephemeral", None, Host, Sock[u], "connect")
    /\ UNCHANGED <<task, addrs, tables, mail, host, ban>>

(***************************************************************************)
(* handle_connection() and handle_conn().                                  *)
(***************************************************************************)
\* A task that is aborted does not get past the points where it waits.
At(s, pc) == conn[s].pc = pc /\ (pc \in {"connect", "handshake", "adding", "up"} => ~conn[s].abort)
Goto(s, pc) == conn' = [conn EXCEPT ![s].pc = pc]

\* The connection is over; the loop of a configured peer goes to sleep.
Finish(s) ==
    /\ conn' = [conn EXCEPT ![s] = IF @.own = 0 THEN NoConn ELSE [@ EXCEPT !.pc = "ended"]]
    /\ task' = [u \in Uri |-> IF conn[s].uri = u /\ ~conn[s].abort THEN "sleep" ELSE task[u]]

\* connect_to_peer().
Connect(s) ==
    /\ At(s, "connect")
    /\ IF host = "away" \/ Banned THEN Finish(s) ELSE Goto(s, "handshake") /\ UNCHANGED task
    /\ ban' = IF host = "away" THEN ban ELSE Checked
    /\ UNCHANGED <<addrs, tables, mail, host, left>>

\* The metadata are exchanged and checked.  A connection may time out or be to a
\* node that is not wanted; another version, and a key that is not allowed, are
\* recorded as failures.
Handshake(s) ==
    /\ At(s, "handshake")
    /\ \E outcome \in IF conn[s].kind = "incoming" THEN {"ok", "unwanted", "failure"}
                      ELSE IF host = "good" THEN {"ok"}
                      ELSE IF host = "old" THEN {"failure"} ELSE {"unwanted"} :
         /\ IF outcome = "ok" THEN Goto(s, "register") /\ UNCHANGED task ELSE Finish(s)
         /\ ban' = IF outcome = "failure" THEN RecordFailure ELSE ban
    /\ UNCHANGED <<addrs, tables, mail, host, left>>

Inward(s) == conn[s].kind = "incoming"
SameSocket(s, t) ==
    conn[t].key = conn[s].key /\ conn[t].sock = conn[s].sock /\ Inward(t) = Inward(s)
InboundOf(k) == {t \in active : conn[t].key = k /\ Inward(t)}

\* register().
\* Mutant: a socket that already has a link is not refused.
MayRegisterTwice(s) ==
    Inward(s) /\ Inbound > 0 => Cardinality(InboundOf(conn[s].key)) < Inbound

MayRegister(s) ==
    /\ \A t \in active : ~SameSocket(s, t)
    /\ Inward(s) /\ Inbound > 0 => Cardinality(InboundOf(conn[s].key)) < Inbound

Register(s) ==
    /\ At(s, "register")
    /\ IF MayRegister(s)
       THEN active' = active \cup {s} /\ Goto(s, "allocate") /\ UNCHANGED task
       ELSE Finish(s) /\ UNCHANGED active
    /\ UNCHANGED <<addrs, handles, used, mail, host, ban, left>>

\* allocate_peer(): the port that the key has, or the lowest that is free.
Allocate(s) ==
    LET same == {t \in Slot : handles[t] # 0 /\ conn[t].key = conn[s].key}
        free == {p \in Port : used[p] = None /\ \A q \in 1 .. p - 1 : used[q] # None}
    IN
    /\ At(s, "allocate")
    /\ \E port \in IF same = {} THEN free ELSE {handles[t] : t \in same} :
         /\ handles' = [handles EXCEPT ![s] = port]
         /\ used' = IF same = {} THEN [used EXCEPT ![port] = conn[s].key] ELSE used
         /\ conn' = [conn EXCEPT ![s].pc = "send", ![s].own = port]
    /\ UNCHANGED <<task, addrs, active, mail, host, ban, left>>

\* send_wait() of AddPeer; the router then reports that it is done.
SendAdd(s) ==
    /\ At(s, "send")
    /\ Len(inbox) < left.room
    /\ inbox' = Append(inbox, [op |-> "add", id |-> s, port |-> conn[s].own, by |-> "task"])
    /\ Goto(s, "adding")
    /\ UNCHANGED <<task, addrs, tables, router, waiting, full, host, ban, left>>

\* The router has added the link: the writer is spawned and the reader starts.
Spawn(s) ==
    /\ At(s, "adding")
    /\ s \in router.ids
    /\ conn' = [conn EXCEPT ![s].pc = "up", ![s].writer = "run"]
    /\ UNCHANGED <<task, addrs, tables, mail, host, ban, left>>

\* The reader ends: the token is cancelled, or the connection breaks.
Cancelled(s) ==
    /\ At(s, "up")
    /\ conn[s].cancel
    /\ Goto(s, "port")
    /\ UNCHANGED <<task, addrs, tables, mail, host, ban, left>>
Break(s) ==
    /\ left.breaks > 0 /\ left' = [left EXCEPT !.breaks = @ - 1]
    /\ At(s, "up")
    /\ Goto(s, "port")
    /\ UNCHANGED <<task, addrs, tables, mail, host, ban>>

\* Peers::remove_peer(): the port goes free with the last handle of the key.
Unhandle(s) ==
    LET last == \A t \in Slot \ {s} : handles[t] # 0 => conn[t].key # conn[s].key IN
    /\ handles' = [handles EXCEPT ![s] = 0]
    /\ used' = IF handles[s] # 0 /\ last THEN [used EXCEPT ![handles[s]] = None] ELSE used
    /\ UNCHANGED active

\* The reader looks its port up: it is 0 if the writer has removed the handle.
\* Mutant: it removes the handle at once, before it tells the router.
ReadPortOnce(s) ==
    /\ At(s, "port")
    /\ Unhandle(s)
    /\ conn' = [conn EXCEPT ![s].pc = "remove", ![s].seen = handles[s]]
    /\ UNCHANGED <<task, addrs, mail, host, ban, left>>

ReadPort(s) ==
    /\ At(s, "port")
    /\ conn' = [conn EXCEPT ![s].pc = "remove", ![s].seen = handles[s]]
    /\ UNCHANGED <<task, addrs, tables, mail, host, ban, left>>

\* send(): a task waits with the message when the inbox is full.
Send(m) ==
    /\ IF Len(inbox) < left.room THEN inbox' = Append(inbox, m) /\ UNCHANGED <<waiting, full>>
       ELSE waiting' = waiting \cup {m} /\ full' = TRUE /\ UNCHANGED inbox
    /\ UNCHANGED router
RemoveMsg(s, port, by) == [op |-> "remove", id |-> s, port |-> port, by |-> by]

SendRemove(s) ==
    /\ At(s, "remove")
    /\ Send(RemoveMsg(s, conn[s].seen, "reader"))
    /\ Goto(s, "peers")
    /\ UNCHANGED <<task, addrs, tables, host, ban, left>>

RemoveHandle(s) ==
    /\ At(s, "peers")
    /\ Unhandle(s)
    /\ conn' = [conn EXCEPT ![s].pc = "unregister", ![s].cancel = TRUE]
    /\ UNCHANGED <<task, addrs, mail, host, ban, left>>

\* Mutant: the row of a configured peer is kept for its next connection.
UnregisterOthers(s) ==
    /\ At(s, "unregister")
    /\ active' = IF conn[s].kind = "persistent" THEN active ELSE active \ {s}
    /\ Finish(s)
    /\ UNCHANGED <<addrs, handles, used, mail, host, ban, left>>

Unregister(s) ==
    /\ At(s, "unregister")
    /\ active' = active \ {s}
    /\ Finish(s)
    /\ UNCHANGED <<addrs, handles, used, mail, host, ban, left>>

\* An aborted task is dropped where it waits, and with it the reader; the token
\* is cancelled.
Drop(s) ==
    /\ conn[s].abort
    /\ conn[s].pc \notin {"ended", "dropped"}
    /\ conn' = [conn EXCEPT ![s].pc = "dropped", ![s].cancel = TRUE]
    /\ UNCHANGED <<task, addrs, tables, mail, host, ban, left>>

\* The writer ends, because the token is cancelled or a write fails.
\* Mutant: it leaves the clearing up to the reader.
StopWritingOnly(s) ==
    /\ conn[s].writer = "run"
    /\ conn' = [conn EXCEPT ![s].writer = "ended", ![s].cancel = TRUE]

StopWriting(s) ==
    /\ conn[s].writer = "run"
    /\ conn' = [conn EXCEPT ![s].writer = "remove", ![s].cancel = TRUE]

WriterCancelled(s) ==
    /\ conn[s].cancel
    /\ StopWriting(s)
    /\ UNCHANGED <<task, addrs, tables, mail, host, ban, left>>
WriterBreaks(s) ==
    /\ left.breaks > 0 /\ left' = [left EXCEPT !.breaks = @ - 1]
    /\ StopWriting(s)
    /\ UNCHANGED <<task, addrs, tables, mail, host, ban>>

WriterRemoves(s) ==
    /\ conn[s].writer = "remove"
    /\ Send(RemoveMsg(s, conn[s].own, "writer"))
    /\ conn' = [conn EXCEPT ![s].writer = "peers"]
    /\ UNCHANGED <<task, addrs, tables, host, ban, left>>
WriterUnhandles(s) ==
    /\ conn[s].writer = "peers"
    /\ Unhandle(s)
    /\ conn' = [conn EXCEPT ![s].writer = "ended"]
    /\ UNCHANGED <<task, addrs, mail, host, ban, left>>

(***************************************************************************)
(* The router.                                                             *)
(***************************************************************************)
\* A message that waited gets into the inbox, in any order.
Enter ==
    /\ Len(inbox) < left.room
    /\ \E m \in waiting : inbox' = Append(inbox, m) /\ waiting' = waiting \ {m}
    /\ UNCHANGED <<task, addrs, conn, tables, router, full, host, ban, left>>

LinksOf(r, k) == {t \in r.ids : conn[t].key = k}

\* add_peer() and remove_peer(): a port is known from the first link of a key to
\* its last one.
Added(r, m) ==
    [ids |-> r.ids \cup {m.id},
     ports |-> IF LinksOf(r, conn[m.id].key) = {} THEN [r.ports EXCEPT ![m.port] = conn[m.id].key]
               ELSE r.ports]
Removed(r, m) ==
    LET links == LinksOf(r, conn[m.id].key) IN
    [ids |-> r.ids \ {m.id},
     ports |-> IF links # {} /\ links \subseteq {m.id}
               THEN [p \in Port |-> IF p = m.port THEN None ELSE r.ports[p]]
               ELSE r.ports]

Route ==
    LET m == Head(inbox) IN
    /\ inbox # <<>>
    /\ inbox' = Tail(inbox)
    /\ router' = IF m.op = "add" THEN Added(router, m) ELSE Removed(router, m)
    /\ UNCHANGED <<task, addrs, conn, tables, waiting, full, host, ban, left>>

(***************************************************************************)
(* The dialled node changes; the id of a connection that is gone is never  *)
(* used again, but its slot is.                                            *)
(***************************************************************************)
HostChanges ==
    /\ left.moods > 0 /\ left' = [left EXCEPT !.moods = @ - 1]
    /\ \E h \in {"good", "old", "away"} \ {host} : host' = h
    /\ UNCHANGED <<task, addrs, conn, tables, mail, ban>>

InMail(s) == \E m \in Range(inbox) \cup waiting : m.id = s
Forget(s) ==
    /\ conn[s].pc \in {"ended", "dropped"}
    /\ conn[s].writer \in {"none", "ended"}
    /\ s \notin active \cup router.ids
    /\ handles[s] = 0
    /\ ~InMail(s)
    /\ conn' = [conn EXCEPT ![s] = NoConn]
    /\ UNCHANGED <<task, addrs, tables, mail, host, ban, left>>

TaskStep(s) ==
    \/ Connect(s) \/ Handshake(s) \/ Register(s) \/ Allocate(s) \/ SendAdd(s) \/ Spawn(s)
    \/ Cancelled(s) \/ ReadPort(s) \/ SendRemove(s) \/ RemoveHandle(s) \/ Unregister(s)
    \/ Drop(s) \/ Forget(s)
WriterStep(s) ==
    \/ WriterCancelled(s) \/ WriterRemoves(s) \/ WriterUnhandles(s)
Loop(u) == Dial(u) \/ Wake(u)

Next ==
    \/ \E s \in Slot : TaskStep(s) \/ WriterStep(s) \/ Break(s) \/ WriterBreaks(s)
    \/ \E u \in Uri : Loop(u) \/ AddPeer(u) \/ RemovePeer(u) \/ Beacon(u)
    \/ \E k \in Key : Accept(k)
    \/ Route \/ Enter \/ HostChanges \/ Elapse

Spec == Init /\ [][Next]_vars

\* Every task runs on, and time passes.
FairSpec ==
    /\ Spec
    /\ \A s \in Slot : WF_vars(TaskStep(s)) /\ WF_vars(WriterStep(s))
    /\ \A u \in Uri : WF_vars(Loop(u))
    /\ WF_vars(Route) /\ WF_vars(Enter) /\ WF_vars(Elapse)

(***************************************************************************)
(* Properties.                                                             *)
(***************************************************************************)
\* The router finds every link by its port, and no port leads to a key that has
\* no link, as long as its inbox has not been full.  Ports are allocated and freed
\* in Peers, ahead of the router, and given to the next key; every link is removed
\* twice, by its reader and by its writer.
PortsAgree ==
    ~full =>
        /\ \A s \in router.ids : router.ports[conn[s].own] = conn[s].key
        /\ \A p \in Port : router.ports[p] # None =>
             \E s \in router.ids : conn[s].own = p /\ conn[s].key = router.ports[p]

\* No task of the node has anything left to do about a link.
Quiet ==
    /\ inbox = <<>> /\ waiting = {}
    /\ \A s \in Slot : /\ conn[s].pc \in {"none", "handshake", "up", "ended", "dropped"}
                       /\ conn[s].writer \in {"none", "run", "ended"}
                       /\ conn[s].abort => conn[s].pc \in {"ended", "dropped"}
                       /\ conn[s].cancel => conn[s].pc # "up" /\ conn[s].writer # "run"

\* A task was aborted after it had allocated its peer, before it had a writer.
Orphan(s) == conn[s].pc = "dropped" /\ conn[s].writer = "none"

\* When all is quiet, the links that are up are exactly those in the three tables,
\* whichever of reader, writer and remove_peer() came first.  There is one
\* exception: a peer that is removed while the router adds it has no writer that
\* would clear up after it.
NoLeftovers ==
    Quiet => \A s \in Slot : ~Orphan(s) =>
        LET up == conn[s].pc = "up" IN
        (s \in active) = up /\ (handles[s] # 0) = up /\ (s \in router.ids) = up

\* No two links go to a node over the same socket in the same direction, whatever
\* loops and beacons race for it, and no node has more inbound links than allowed.
SocketsDistinct ==
    /\ \A s, t \in active : SameSocket(s, t) => s = t
    /\ \A k \in Key : Inbound > 0 => Cardinality(InboundOf(k)) <= Inbound

\* A link that is not u's has u's socket, or one whose task was aborted.
Taken(u) ==
    \E s \in active : /\ conn[s].key = Host /\ conn[s].sock = Sock[u] /\ ~Inward(s)
                      /\ conn[s].uri # u \/ conn[s].abort
Linked(u) == \E s \in active : conn[s].uri = u /\ conn[s].pc = "up"

\* A configured peer whose node stays good is linked, again after every failure,
\* ban, break or removal, unless another link has its socket, or the row of a link
\* that was removed while it was made: that one refuses it for good.
Redials ==
    <>[](host = "good") =>
        \A u \in Uri : [](task[u] # "none" => <>(task[u] = "none" \/ Linked(u) \/ Taken(u)))
=============================================================================
