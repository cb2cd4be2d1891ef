------------------------------ MODULE Routing ------------------------------
(***************************************************************************)
(* Source routing over the spanning tree and the discovery of paths:       *)
(* send_traffic() .. handle_broken() of the router with its Pathfinder, for *)
(* all the nodes of a mesh at once.                                        *)
(*                                                                         *)
(* The tree protocol is an environment here.  tree is the spanning tree the *)
(* mesh has now, view[n] what router n knows of it, and filters says that   *)
(* the bloom filters have settled on the present tree: until then a lookup  *)
(* may be sent to any of the peers on the tree, from then on it is sent     *)
(* towards its destination.  A negative key stands for the partial    *)
(* key that the upper layer derives from an address: the bloom transform    *)
(* maps it to the same key as the node's own.                              *)
(*                                                                         *)
(* A tick of the clock is path_throttle, one second, which is also the      *)
(* resolution of the sequence number in a PathNotify.  A stamp says how     *)
(* many ticks ago a sequence number was the time, saturating at Old.        *)
(***************************************************************************)
EXTENDS Coordinates, SequencesExt

CONSTANTS Tree,      \* the spanning trees that the mesh may have
          Writes,    \* what the applications may send: sets of [source, dest, kind]
          Timeout,   \* path_timeout, in ticks
          Old,       \* the age at which a stamp saturates
          MaxFlight, \* bound on the messages in flight when a tick ends
          MaxEvents  \* bound on tree changes, restarts and losses

\* The bloom transform: a partial key stands for its node.
XKey(k) == IF k < 0 THEN -k ELSE k
Key == Node \cup {-d : d \in Node}

ASSUME RoutingAssumption ==
    /\ Tree \subseteq View /\ Timeout \in Nat \ {0} /\ Old \in Nat \ {0}
    /\ MaxFlight \in Nat /\ MaxEvents \in Nat
    /\ \A s \in Writes : \A w \in s : w.source \in Node /\ w.source # XKey(w.dest)

VARIABLES apps,    \* what the applications send, one of Writes
          tree,    \* the parent of every node
          view,    \* view[n]: the parents that n knows
          filters, \* the bloom filters have settled
          paths,   \* paths[n][d]: Pathfinder.paths of n
          rumors,  \* rumors[n][d]: Pathfinder.rumors of n, by transformed key
          control, \* control[p][n]: path messages on the way from p to n
          traffic, \* traffic[p][n]: packets in the queue of p's link to n
          waiting, \* flows whose application waits for a packet to arrive
          wrote,   \* what the applications have sent in this tick
          events   \* changes of the mesh so far

vars == <<apps, tree, view, filters, paths, rumors, control, traffic, waiting, wrote, events>>
meshVars == <<apps, tree, view, filters, events>>

Kind == {"data", "keepalive", "empty"}
NeverSigned == Old + 1 \* the sequence number 0 of a path learned from traffic
NoPath == [live |-> FALSE]
NoRumor == [live |-> FALSE]
NoPacket == [dest |-> 0, kind |-> "empty"]

PathInfo == [live : {TRUE}, path : Path, stamp : 0..NeverSigned, asked : BOOLEAN,
             age : 0..Timeout, cached : Kind \cup {"none"}, broken : BOOLEAN]
PathRumor == [live : {TRUE}, packet : [dest : Key \cup {0}, kind : Kind], sent : {"never", "now", "past"},
              retried : BOOLEAN, age : 0..Timeout]

OwnCoords(n) == Coords(view[n], n)

\* What handling a message comes to: the tables of n, the messages sent, as
\* <<peer, message>>, and the packets handed to the local reader.
Outcome(ps, rs, out, got) == [paths |-> ps, rumors |-> rs, out |-> out, got |-> got]
Nothing(ps, rs) == Outcome(ps, rs, {}, {})

Packet(path, from, source, dest, watermark, kind) ==
    [type |-> "Traffic", path |-> path, from |-> from, source |-> source, dest |-> dest,
     watermark |-> watermark, kind |-> kind]
PathLookup(source, dest, from) ==
    [type |-> "Lookup", source |-> source, dest |-> dest, from |-> from]
PathNotify(path, source, dest, stamp, coords) ==
    [type |-> "Notify", path |-> path, watermark |-> Far, source |-> source, dest |-> dest,
     stamp |-> stamp, coords |-> coords]
PathBroken(path, source, dest) ==
    [type |-> "Broken", path |-> path, watermark |-> Far, source |-> source, dest |-> dest]

\* Forward m to any next hop; the watermark becomes the own distance.
Forward(n, ps, rs, m, hops) ==
    {Outcome(ps, rs, {<<p, [m EXCEPT !.watermark = Dist(view[n], n, m.path, n)]>>}, {}) : p \in hops}

(***************************************************************************)
(* Lookups.                                                                *)
(***************************************************************************)

\* get_multicast_targets(): what the filters of the peers on the tree may select.
TargetSets(n, from, dest) ==
    LET peers == OnTree(view[n], n) \ {from}
    IN  IF filters THEN {{p \in peers : Behind(tree, n, p, XKey(dest))}} ELSE SUBSET peers

Multicast(targets, l) == {<<p, l>> : p \in targets}

\* should_throttle_lookup()
ThrottleLookup(ps, dest) == dest \in Node /\ ps[dest].live /\ ps[dest].asked

\* do_send_lookup(): nothing while the last lookup is recent.
SendLookup(n, ps, rs, dest) ==
    LET asked == IF dest \in Node /\ ps[dest].live THEN [ps EXCEPT ![dest].asked = TRUE] ELSE ps
    IN  IF ThrottleLookup(ps, dest) THEN {Nothing(ps, rs)}
        ELSE {Outcome(asked, rs, Multicast(s, PathLookup(n, dest, OwnCoords(n))), {}) :
                s \in TargetSets(n, n, dest)}

(***************************************************************************)
(* Broken paths and packets.                                               *)
(***************************************************************************)

\* handle_broken_internal(): forward the message, or give up the path and look
\* the destination up again.
HandleBroken(n, ps, rs, m) ==
    LET hops == NextHops(view[n], n, m.path, m.watermark)
        marked == IF m.dest \in Node /\ ps[m.dest].live THEN [ps EXCEPT ![m.dest].broken = TRUE] ELSE ps
    IN  CASE hops # {} -> Forward(n, ps, rs, m, hops)
          [] hops = {} /\ m.source # n -> {Nothing(ps, rs)}
          [] OTHER -> SendLookup(n, marked, rs, m.dest)

\* Mutant: a packet keeps a path alive whose coordinates it does not have.
LearnPathAny(ps, source, from) ==
    IF ~ps[source].live
    THEN [ps EXCEPT ![source] = [live |-> TRUE, path |-> from, stamp |-> NeverSigned, asked |-> TRUE,
                                 age |-> 0, cached |-> "none", broken |-> FALSE]]
    ELSE IF ~ps[source].broken THEN [ps EXCEPT ![source].age = 0] ELSE ps

\* learn_path_from_traffic() and refresh_if_coords_match()
LearnPath(ps, source, from) ==
    IF ~ps[source].live
    THEN [ps EXCEPT ![source] = [live |-> TRUE, path |-> from, stamp |-> NeverSigned, asked |-> TRUE,
                                 age |-> 0, cached |-> "none", broken |-> FALSE]]
    ELSE IF ~ps[source].broken /\ ps[source].path = from THEN [ps EXCEPT ![source].age = 0]
    ELSE ps

\* route_traffic()
RouteTraffic(n, ps, rs, m) ==
    LET hops == NextHops(view[n], n, m.path, m.watermark)
    IN  CASE hops # {} -> Forward(n, ps, rs, m, hops)
          [] hops = {} /\ m.dest = n -> {Outcome(LearnPath(ps, m.source, m.from), rs, {}, {m})}
          [] OTHER -> HandleBroken(n, ps, rs, PathBroken(m.from, m.source, m.dest))

(***************************************************************************)
(* Answers to lookups.                                                     *)
(***************************************************************************)

\* notify_seq > info.seq.  Of two stamps that have both saturated either may be
\* the newer.
NewerStamp(a, b) == IF a = Old /\ b = Old THEN BOOLEAN ELSE {a < b}

\* accept_notify() when the source is known: a newer answer replaces the path,
\* unless it is what a working path has, and frees the cached packet.
AcceptKnown(n, ps, rs, m, newer) ==
    LET e == ps[m.source]
        fresh == [ps EXCEPT ![m.source] = [@ EXCEPT !.path = m.coords, !.stamp = m.stamp, !.broken = FALSE,
                                                    !.age = 0, !.cached = "none"]]
    IN  CASE ~newer \/ (~e.broken /\ e.path = m.coords) -> {Nothing(ps, rs)}
          [] newer /\ ~(~e.broken /\ e.path = m.coords) /\ e.cached = "none" -> {Nothing(fresh, rs)}
          [] OTHER -> RouteTraffic(n, fresh, rs,
                                   Packet(m.coords, OwnCoords(n), n, m.source, Far, e.cached))

\* accept_notify() when it is not: only what was asked for is accepted, and the
\* rumor's packet leaves if it is for this very key.
AcceptNew(n, ps, rs, m) ==
    LET r == rs[XKey(m.source)]
        new == [ps EXCEPT ![m.source] = [live |-> TRUE, path |-> m.coords, stamp |-> m.stamp, asked |-> TRUE,
                                         age |-> 0, cached |-> "none", broken |-> FALSE]]
    IN  CASE ~r.live -> {Nothing(ps, rs)}
          [] r.live /\ r.packet.dest # m.source -> {Nothing(new, rs)}
          [] OTHER -> RouteTraffic(n, new, [rs EXCEPT ![XKey(m.source)].packet = NoPacket],
                                   Packet(m.coords, OwnCoords(n), n, m.source, Far, r.packet.kind))

\* handle_notify_internal()
HandleNotify(n, ps, rs, m) ==
    LET hops == NextHops(view[n], n, m.path, m.watermark)
    IN  CASE hops # {} -> Forward(n, ps, rs, m, hops)
          [] hops = {} /\ m.dest # n -> {Nothing(ps, rs)}
          [] hops = {} /\ m.dest = n /\ ps[m.source].live ->
                UNION {AcceptKnown(n, ps, rs, m, newer) : newer \in NewerStamp(m.stamp, ps[m.source].stamp)}
          [] OTHER -> AcceptNew(n, ps, rs, m)

\* Mutant: the transform of the keys is forgotten.
HandleLookupExact(n, via, ps, rs, m) ==
    LET answers == IF m.dest = n
                   THEN HandleNotify(n, ps, rs, PathNotify(m.from, n, m.source, 0, OwnCoords(n)))
                   ELSE {Nothing(ps, rs)}
    IN  IF via \notin OnTree(view[n], n) THEN {Nothing(ps, rs)}
        ELSE {[o EXCEPT !.out = @ \cup Multicast(s, m)] : o \in answers, s \in TargetSets(n, via, m.dest)}

\* handle_lookup(): from a peer on the tree only.  It goes on to the peers whose
\* filters match, and the node whose key matches answers with its coordinates.
HandleLookup(n, via, ps, rs, m) ==
    LET answers == IF XKey(m.dest) = n
                   THEN HandleNotify(n, ps, rs, PathNotify(m.from, n, m.source, 0, OwnCoords(n)))
                   ELSE {Nothing(ps, rs)}
    IN  IF via \notin OnTree(view[n], n) THEN {Nothing(ps, rs)}
        ELSE {[o EXCEPT !.out = @ \cup Multicast(s, m)] : o \in answers, s \in TargetSets(n, via, m.dest)}

(***************************************************************************)
(* What the applications send.                                             *)
(***************************************************************************)

\* A packet waits in the rumor; a keepalive never replaces one that does.
CacheRumor(r, dest, kind) ==
    IF kind = "keepalive" /\ r.packet # NoPacket THEN r
    ELSE [r EXCEPT !.packet = [dest |-> dest, kind |-> kind]]

NewRumor == [live |-> TRUE, packet |-> NoPacket, sent |-> "never", retried |-> FALSE, age |-> 0]
EnsureRumor(r) == IF r.live THEN r ELSE NewRumor

\* send_traffic(): to a peer directly; along the path that is known; or keep the
\* packet and look the destination up.
SendTraffic(n, ps, rs, dest, kind) ==
    LET x == XKey(dest)
        known == dest \in Node /\ ps[dest].live /\ ~ps[dest].broken
        r == CacheRumor(EnsureRumor(rs[x]), dest, kind)
    IN  CASE kind # "empty" /\ dest \in Peers[n] ->
               {Outcome(ps, rs, {<<dest, Packet(Coords(view[n], dest), OwnCoords(n), n, dest, 0, kind)>>}, {})}
          [] ~(kind # "empty" /\ dest \in Peers[n]) /\ known ->
               RouteTraffic(n, IF ps[dest].cached = "none" THEN [ps EXCEPT ![dest].cached = kind] ELSE ps, rs,
                            Packet(ps[dest].path, OwnCoords(n), n, dest, Far, kind))
          [] ~(kind # "empty" /\ dest \in Peers[n]) /\ ~known /\ r.sent = "now" ->
               {Nothing(ps, [rs EXCEPT ![x] = r])}
          [] OTHER -> SendLookup(n, ps, [rs EXCEPT ![x] = [r EXCEPT !.sent = "now", !.age = 0]], dest)

(***************************************************************************)
(* The actions.                                                            *)
(***************************************************************************)

IsPacket(x) == x[2].type = "Traffic"
Flow(m) == <<m.source, m.dest>>

\* dispatch_actions(): packets go to the queue of the link, the rest to the
\* channel of its writer.
Dispatch(n, o, ctl, trf, wait) ==
    LET For(p, packets) == SetToSeq({x[2] : x \in {y \in o.out : y[1] = p /\ IsPacket(y) = packets}})
    IN  /\ paths' = [paths EXCEPT ![n] = o.paths]
        /\ rumors' = [rumors EXCEPT ![n] = o.rumors]
        /\ control' = [ctl EXCEPT ![n] = [p \in Node |-> @[p] \o For(p, FALSE)]]
        /\ traffic' = [trf EXCEPT ![n] = [p \in Node |-> @[p] \o For(p, TRUE)]]
        /\ waiting' = wait \ {Flow(m) : m \in {g \in o.got : g.kind = "data"}}
        /\ UNCHANGED meshVars

\* write_to(), write_keepalive() and send_lookup(): one call per tick.
Write(w) ==
    LET n == w.source
        x == XKey(w.dest)
        rs == IF w.kind = "empty" THEN [rumors[n] EXCEPT ![x] = EnsureRumor(@)] ELSE rumors[n]
    IN  /\ wrote = {}
        /\ wrote' = wrote \cup {w}
        /\ \E o \in SendTraffic(n, paths[n], rs, w.dest, w.kind) :
             Dispatch(n, o, control, traffic,
                      IF w.kind = "data" THEN waiting \cup {<<n, w.dest>>} ELSE waiting)

\* force_lookup(): the rumor's last lookup is forgotten, so that its age counts
\* from its creation again.
ForceLookup(w) ==
    LET n == w.source
        x == XKey(w.dest)
    IN  /\ wrote = {}
        /\ wrote' = wrote \cup {w}
        /\ \E age \in 0..Timeout :
             /\ age >= (IF rumors[n][x].live THEN rumors[n][x].age ELSE Timeout)
             /\ \E o \in SendLookup(n, paths[n],
                                    [rumors[n] EXCEPT ![x] = IF @.live THEN [@ EXCEPT !.sent = "never", !.age = age]
                                                             ELSE NewRumor], w.dest) :
                  Dispatch(n, o, control, traffic, waiting)

\* A path message reaches n from its peer p.
HandleControl(p, n) ==
    /\ control[p][n] # <<>>
    /\ LET m == Head(control[p][n])
           rest == [control EXCEPT ![p][n] = Tail(@)]
       IN  \E o \in CASE m.type = "Lookup" -> HandleLookup(n, p, paths[n], rumors[n], m)
                       [] m.type = "Notify" -> HandleNotify(n, paths[n], rumors[n], m)
                       [] m.type = "Broken" -> HandleBroken(n, paths[n], rumors[n], m) :
             Dispatch(n, o, rest, traffic, waiting)
    /\ UNCHANGED wrote

\* handle_traffic(): a packet reaches n from its peer p.
HandleTraffic(p, n) ==
    /\ traffic[p][n] # <<>>
    /\ \E o \in RouteTraffic(n, paths[n], rumors[n], Head(traffic[p][n])) :
         Dispatch(n, o, control, [traffic EXCEPT ![p][n] = Tail(@)], waiting)
    /\ UNCHANGED wrote

\* The entries of n that cleanup_expired() drops.
Expired(n) == {e \in Range(paths[n]) \cup Range(rumors[n]) : e.live /\ e.age = Timeout}

\* rumors_needing_retry() and should_throttle_rumor_retry(): a packet waits for a
\* path that is still unknown, and nothing was sent in this tick.
Retry(n) == {x \in Node :
    LET r == rumors[n][x]
        p == paths[n][r.packet.dest]
    IN  /\ r.live /\ r.age < Timeout /\ r.sent # "now" /\ ~r.retried
        /\ r.packet # NoPacket
        /\ r.packet.dest \in Node => ~(p.live /\ p.age < Timeout /\ ~p.broken)}

\* The end of do_maintenance(): cleanup_expired(), then a lookup for every rumor
\* whose packet still has no path.
Maintain(n) ==
    LET ps == [d \in Node |-> IF paths[n][d] \in Expired(n) THEN NoPath ELSE paths[n][d]]
        rs == [x \in Node |-> IF rumors[n][x] \in Expired(n) THEN NoRumor ELSE rumors[n][x]]
        look == {x \in Retry(n) : ~ThrottleLookup(ps, rs[x].packet.dest)}
    IN  /\ \E s \in [look -> SUBSET Node] :
             /\ \A x \in look : s[x] \in TargetSets(n, n, rs[x].packet.dest)
             /\ Dispatch(n, Outcome([d \in Node |-> IF d \in {rs[x].packet.dest : x \in look} /\ ps[d].live
                                                   THEN [ps[d] EXCEPT !.asked = TRUE] ELSE ps[d]],
                                    [x \in Node |-> IF x \in Retry(n) THEN [rs[x] EXCEPT !.retried = TRUE] ELSE rs[x]],
                                    UNION {Multicast(s[x], PathLookup(n, rs[x].packet.dest, OwnCoords(n))) : x \in look},
                                    {}),
                         control, traffic, waiting)
        /\ UNCHANGED wrote

(***************************************************************************)
(* Time and the mesh.                                                      *)
(***************************************************************************)

\* Every router knows the tree and the filters follow it.
Settled == filters /\ \A n \in Node : view[n] = tree

\* How many messages are on the wires.
InFlight == FoldSet(LAMBDA l, sum : sum + Len(control[l[1]][l[2]]) + Len(traffic[l[1]][l[2]]), 0, Node \X Node)

Older(age, limit) == IF age < limit THEN age + 1 ELSE age
AgeStamp(t) == IF t = NeverSigned THEN t ELSE Older(t, Old)
AgePath(e) ==
    IF e.live THEN [e EXCEPT !.asked = FALSE, !.age = Older(@, Timeout), !.stamp = AgeStamp(@)] ELSE e

\* Mutant: a retry counts as a lookup of the application.
AgeRumorRetried(r) ==
    IF r.live THEN [r EXCEPT !.sent = IF @ = "now" THEN "past" ELSE @, !.retried = FALSE,
                             !.age = IF r.retried THEN 0 ELSE Older(@, Timeout)] ELSE r

AgeRumor(r) ==
    IF r.live THEN [r EXCEPT !.sent = IF @ = "now" THEN "past" ELSE @, !.retried = FALSE,
                             !.age = Older(@, Timeout)] ELSE r

AgeMessage(m) == IF m.type = "Notify" THEN [m EXCEPT !.stamp = AgeStamp(@)] ELSE m

\* A tick passes.  In a settled mesh a message takes less than that.
Elapse ==
    /\ InFlight <= IF Settled THEN 0 ELSE MaxFlight
    /\ paths' = [n \in Node |-> [d \in Node |-> AgePath(paths[n][d])]]
    /\ rumors' = [n \in Node |-> [d \in Node |-> AgeRumor(rumors[n][d])]]
    /\ control' = [p \in Node |-> [n \in Node |->
                     [i \in DOMAIN control[p][n] |-> AgeMessage(control[p][n][i])]]]
    /\ wrote' = {}
    /\ UNCHANGED <<apps, tree, view, filters, traffic, waiting, events>>

\* The spanning tree changes; the nodes that have a new parent know it.
Change(t) ==
    /\ events < MaxEvents
    /\ t # tree
    /\ tree' = t
    /\ view' = [n \in Node |-> [view[n] EXCEPT ![n] = IF t[n] # tree[n] THEN t[n] ELSE @]]
    /\ filters' = FALSE
    /\ events' = events + 1
    /\ UNCHANGED <<apps, paths, rumors, control, traffic, waiting, wrote>>

\* A node starts again, alone: its links go down with all they carry.
Restart(n) ==
    /\ events < MaxEvents
    /\ view' = [view EXCEPT ![n] = [k \in Node |-> IF k = n THEN n ELSE 0]]
    /\ paths' = [paths EXCEPT ![n] = [d \in Node |-> NoPath]]
    /\ rumors' = [rumors EXCEPT ![n] = [d \in Node |-> NoRumor]]
    /\ control' = [p \in Node |-> [q \in Node |-> IF n \in {p, q} THEN <<>> ELSE control[p][q]]]
    /\ traffic' = [p \in Node |-> [q \in Node |-> IF n \in {p, q} THEN <<>> ELSE traffic[p][q]]]
    /\ waiting' = {f \in waiting : f[1] # n}
    /\ filters' = FALSE
    /\ events' = events + 1
    /\ UNCHANGED <<apps, tree, wrote>>

\* The announcements of the present tree reach n.
Learn(n) ==
    /\ view[n] # tree
    /\ view' = [view EXCEPT ![n] = tree]
    /\ UNCHANGED <<apps, tree, filters, paths, rumors, control, traffic, waiting, wrote, events>>

\* The last bloom filter of the present tree arrives.
SettleFilters ==
    /\ ~filters
    /\ \A n \in Node : view[n] = tree
    /\ filters' = TRUE
    /\ UNCHANGED <<apps, tree, view, paths, rumors, control, traffic, waiting, wrote, events>>

\* A packet is dropped from the queue of its link, a path message goes down with
\* a link.
Lose(p, n) ==
    /\ events < MaxEvents
    /\ events' = events + 1
    /\ \/ /\ traffic[p][n] # <<>>
          /\ traffic' = [traffic EXCEPT ![p][n] = Tail(@)]
          /\ UNCHANGED control
       \/ /\ control[p][n] # <<>>
          /\ control' = [control EXCEPT ![p][n] = Tail(@)]
          /\ UNCHANGED traffic
    /\ UNCHANGED <<apps, tree, view, filters, paths, rumors, waiting, wrote>>

Init ==
    /\ apps \in Writes
    /\ tree \in Tree
    /\ view = [n \in Node |-> tree]
    /\ filters = TRUE
    /\ paths = [n \in Node |-> [d \in Node |-> NoPath]]
    /\ rumors = [n \in Node |-> [d \in Node |-> NoRumor]]
    /\ control = [p \in Node |-> [n \in Node |-> <<>>]]
    /\ traffic = [p \in Node |-> [n \in Node |-> <<>>]]
    /\ waiting = {}
    /\ wrote = {}
    /\ events = 0

Next ==
    \/ \E w \in apps : IF w.kind = "force" THEN ForceLookup(w) ELSE Write(w)
    \/ \E n \in Node : \E p \in Peers[n] : HandleControl(p, n) \/ HandleTraffic(p, n) \/ Lose(p, n)
    \/ \E n \in Node : Maintain(n) \/ Restart(n) \/ Learn(n)
    \/ \E t \in Tree : Change(t)
    \/ SettleFilters
    \/ Elapse

Spec == Init /\ [][Next]_vars

\* The system does not stop: an application sends once per tick and the mesh
\* changes finitely often, so messages are handled and time passes.  Announcements
\* and filters arrive.  A maintenance timer with something to do fires, which is
\* WF_vars(Maintain(n)): a pass leaves nothing for a second one.  Nothing makes an
\* application send.
FairSpec ==
    /\ Spec
    /\ []<><<TRUE>>_vars
    /\ []<>Settled
    /\ \A n \in Node : []<>(Expired(n) = {} /\ Retry(n) = {})

(***************************************************************************)
(* Properties.                                                             *)
(***************************************************************************)

\* The values of the variables.
TypeOK ==
    /\ apps \in Writes /\ tree \in Tree /\ view \in [Node -> View] /\ filters \in BOOLEAN
    /\ \A n, d \in Node : paths[n][d] \in PathInfo \cup {NoPath} /\ rumors[n][d] \in PathRumor \cup {NoRumor}
    /\ \A p, n \in Node : control[p][n] # <<>> \/ traffic[p][n] # <<>> => p \in Peers[n]
    /\ waiting \subseteq {<<w.source, w.dest>> : w \in apps} /\ wrote \subseteq apps
    /\ events \in 0..MaxEvents

\* An application that goes on sending to a node gets a packet through, whatever
\* the tree did to the paths that were known: a stale path is found broken, a
\* lost lookup is sent again, an answer is accepted.
Delivered ==
    \A w \in UNION Writes : w.kind = "data" /\ ([]<>(w \in wrote))
                           => (<<w.source, w.dest>> \in waiting ~> <<w.source, w.dest>> \notin waiting)

\* An application that asks for an address again and again learns a path to the
\* node that has it, although it knows a part of the key only.
Resolved ==
    \A w \in UNION Writes : w.kind = "empty" /\ ([]<>(w \in wrote))
                           => []<>paths[w.source][XKey(w.dest)].live

\* No path outlives the tree it was found on: in the end every path in use leads
\* to where its destination is, those that nobody sends along included.
PathsTrue ==
    <>[](\A n, d \in Node : paths[n][d].live /\ ~paths[n][d].broken => paths[n][d].path = Coords(tree, d))

\* The router does not keep looking for a node that the application has given up:
\* the lookups of do_maintenance() do not prolong a rumor.
RumorsExpire ==
    \A n, x \in Node :
        <>[](\A w \in wrote : ~(w.source = n /\ XKey(w.dest) = x)) => <>[]~rumors[n][x].live
=============================================================================
