------------------------------- MODULE Tree -------------------------------
(***************************************************************************)
(* The spanning tree of ironwood's router (router.rs): every node gossips  *)
(* signed parent announcements, merges what it hears with the CRDT order of *)
(* update(), and in every maintenance pass re-selects its own parent.      *)
(*                                                                         *)
(* Nodes run concurrently and talk over connections.  A connection carries *)
(* its frames as a set: send_to_peer hands a frame to a background task    *)
(* when the writer's channel is full, so frames overtake each other, and a *)
(* second copy of a frame still in flight is absorbed.  A frame is taken   *)
(* off the wire and handled by the router actor in one step.               *)
(*                                                                         *)
(* Left to other modules: ports and coordinates, bloom filters, path       *)
(* discovery.  Link costs (lags) are abstracted: where select_parent       *)
(* compares costs, the model allows either outcome.                        *)
(***************************************************************************)
EXTENDS Integers, FiniteSets

CONSTANTS Node,      \* public keys, positive integers ordered as the keys are
          Conn,      \* connections that may be made, each used once
          Ends,      \* Ends[c]: the two nodes that connection c joins
          Nonce,     \* the values the random nonces are drawn from
          MaxEvents  \* bound on timers, expiries, disconnections and restarts

ASSUME NodeAssumption == Node \subseteq Nat \ {0} /\ IsFiniteSet(Node)
ASSUME ConnAssumption ==
    \A c \in Conn : \E a, b \in Node : a # b /\ Ends[c] = {a, b}
ASSUME NonceAssumption == Nonce \subseteq Nat \ {0} /\ Nonce # {}
ASSUME EventAssumption == MaxEvents \in Nat

VARIABLES side,       \* side[c][n]: end n of c, "new", "up" (in peers) or "down"
          net,        \* net[c][n]: frames in flight on c towards n
          infos,      \* infos[n][k]: what n knows of k
          sent,       \* sent[n][p]: keys n takes peer p to know as n does
          requests,   \* requests[n][p]: the signature request open at p
          responses,  \* responses[n][p]: p's answer to it
          refresh, doRoot1, doRoot2,
          events,     \* how many events the bound has allowed so far
          intact,     \* history: since n added p, neither has lost a connection to the other
          lost,       \* history: lost[n], keys whose info n has let expire
          reborn      \* history: nodes that have restarted

routerVars == <<infos, sent, requests, responses, refresh, doRoot1, doRoot2>>
historyVars == <<intact, lost, reborn>>
vars == <<side, net, routerVars, events, historyVars>>

(***************************************************************************)
(* Data.  An absent info is the least element of the CRDT order: real      *)
(* announcements have seq >= 1, and new_req counts an absent info as 0.    *)
(***************************************************************************)
Announced == [seq : Nat \ {0}, parent : Nat, nonce : Nat]
NoInfo == [seq |-> 0, parent |-> 0, nonce |-> 0]
Info == Announced \cup {NoInfo}

Asked == [seq : Nat \ {0}, nonce : Nat]
NoReq == [seq |-> 0, nonce |-> 0]
Req == Asked \cup {NoReq}

SigReq(r) == [type |-> "SigReq", req |-> r]
SigRes(r) == [type |-> "SigRes", req |-> r]
Announce(k, i) == [type |-> "Announce", key |-> k, info |-> i]

Frame == [type : {"SigReq", "SigRes"}, req : Asked]
           \cup [type : {"Announce"}, key : Node, info : Announced]

Other(c, n) == CHOOSE m \in Ends[c] : m # n
Links(n) == {c \in Conn : n \in Ends[c] /\ side[c][n] = "up"}
PeerKeys(n) == {Other(c, n) : c \in Links(n)}
LinksTo(n, p) == {c \in Links(n) : Other(c, n) = p}

(***************************************************************************)
(* update(): the CRDT order.  A higher seq wins, then the smaller parent,  *)
(* then the smaller nonce.                                                 *)
(***************************************************************************)
Newer(a, b) ==
    \/ a.seq > b.seq
    \/ a.seq = b.seq /\ a.parent < b.parent
    \/ a.seq = b.seq /\ a.parent = b.parent /\ a.nonce < b.nonce

\* a is b or supersedes it.
Covers(a, b) == a = b \/ Newer(a, b)

(***************************************************************************)
(* Walking the parents from k in one node's view inf of the tree.  The walk *)
(* stands still at a root and at an unknown node; after as many steps as   *)
(* there are nodes it stands at a root, or the ancestry is not valid.      *)
(***************************************************************************)
Height == Cardinality(Node)

ParentIn(inf, x) == IF inf[x] = NoInfo THEN x ELSE inf[x].parent

Walk(inf, k) ==
    LET w[i \in 0..Height] == IF i = 0 THEN k ELSE ParentIn(inf, w[i-1])
    IN  w

Ancestry(inf, k) ==
    LET w == Walk(inf, k)
    IN  {x \in Node : inf[x] # NoInfo} \cap {w[i] : i \in 0..Height}

Root(inf, k) == Walk(inf, k)[Height]

Valid(inf, k) ==
    LET r == Root(inf, k)
    IN  r \in Node /\ inf[r] # NoInfo /\ inf[r].parent = r

(***************************************************************************)
(* select_parent(): the parents it may return, given the view inf and the  *)
(* refresh flag.  The smallest root wins.  The current parent is kept while *)
(* it leads there; a cheaper one replaces it only when refreshing.         *)
(***************************************************************************)
Retained(n, inf) ==
    /\ ParentIn(inf, n) \in PeerKeys(n)
    /\ Valid(inf, n)
    /\ Root(inf, n) < n

Candidates(n, inf) ==
    {p \in Node : /\ responses[n][p] # NoReq
                  /\ inf[p] # NoInfo
                  /\ Valid(inf, p)
                  /\ n \notin Ancestry(inf, p)}

RootsInReach(n, inf) ==
    {n} \cup {Root(inf, p) : p \in Candidates(n, inf)}
        \cup {x \in {Root(inf, n)} : Retained(n, inf)}

\* Mutant: the comparison of keys is swapped.
BestRootSwapped(n, inf) ==
    LET roots == RootsInReach(n, inf)
    IN  CHOOSE r \in roots : \A x \in roots : r >= x

BestRoot(n, inf) ==
    LET roots == RootsInReach(n, inf)
    IN  CHOOSE r \in roots : \A x \in roots : r <= x

SelectParent(n, inf, refreshing) ==
    LET best == BestRoot(n, inf)
        kept == {x \in {ParentIn(inf, n)} : Retained(n, inf) /\ Root(inf, n) = best}
        rivals == {p \in Candidates(n, inf) : Root(inf, p) = best}
    IN  IF best = n THEN {n}
        ELSE IF kept # {} /\ ~refreshing THEN kept
        ELSE kept \cup rivals

(***************************************************************************)
(* Sending.  Frames out[c] go out on each link c of n; a frame written to a *)
(* connection that its far end has closed is lost.                         *)
(***************************************************************************)
After(n, wire, out) ==
    [c \in Conn |-> [x \in Node |->
        IF c \in Links(n) /\ x = Other(c, n) /\ side[c][x] # "down"
        THEN wire[c][x] \cup out[c] ELSE wire[c][x]]]

\* Mutant: the request does not go past the seq already announced.
NewReqSame(n, inf) == {[seq |-> inf[n].seq, nonce |-> x] : x \in Nonce}

NewReq(n, inf) == {[seq |-> inf[n].seq + 1, nonce |-> x] : x \in Nonce}

(***************************************************************************)
(* add_peer(): the connection becomes one of n's links.  A further link to *)
(* a known peer is told again everything that peer was told.               *)
(***************************************************************************)
AddPeer(n, c) ==
    LET p == Other(c, n)
        known == p \in PeerKeys(n)
        again == {Announce(k, infos[n][k]) : k \in {x \in sent[n][p] : known /\ infos[n][x] # NoInfo}}
    IN  /\ n \in Ends[c]
        /\ side[c][n] = "new"
        /\ \E r \in IF requests[n][p] = NoReq THEN NewReq(n, infos[n]) ELSE {requests[n][p]} :
             /\ requests' = [requests EXCEPT ![n][p] = r]
             /\ net' = IF side[c][p] = "down" THEN net
                       ELSE [net EXCEPT ![c][p] = @ \cup again \cup {SigReq(r)}]
        /\ side' = [side EXCEPT ![c][n] = "up"]
        /\ sent' = IF known THEN sent ELSE [sent EXCEPT ![n][p] = {}]
        /\ intact' = [intact EXCEPT ![n][p] = (known => @) /\ side[c][p] # "down"]
        /\ UNCHANGED <<infos, responses, refresh, doRoot1, doRoot2, events, lost, reborn>>

(***************************************************************************)
(* remove_peer(): n gives up its end of c, because the connection failed   *)
(* (an event) or the far end is gone.  The last link to a peer takes with  *)
(* it all that n keeps for the peer; infos stay.                           *)
(***************************************************************************)
RemovePeer(n, c) ==
    LET p == Other(c, n)
        last == LinksTo(n, p) = {c}
    IN  /\ c \in Links(n)
        /\ \/ side[c][p] = "down" /\ UNCHANGED events
           \/ side[c][p] # "down" /\ events < MaxEvents /\ events' = events + 1
        /\ side' = [side EXCEPT ![c][n] = "down"]
        /\ sent' = IF last THEN [sent EXCEPT ![n][p] = {}] ELSE sent
        /\ requests' = IF last THEN [requests EXCEPT ![n][p] = NoReq] ELSE requests
        /\ responses' = IF last THEN [responses EXCEPT ![n][p] = NoReq] ELSE responses
        /\ intact' = [intact EXCEPT ![n][p] = FALSE, ![p][n] = @ /\ c \notin Links(p)]
        /\ UNCHANGED <<net, infos, refresh, doRoot1, doRoot2, lost, reborn>>

(***************************************************************************)
(* The frame handlers.  f arrives at n on connection c.  It may be late: the *)
(* router actor can find it in its inbox after n's end of c is removed.  A *)
(* late frame is handled like any other, but has no link for an answer.    *)
(***************************************************************************)
Take(n, c, f) == [net EXCEPT ![c][n] = @ \ {f}]
Reply(n, c, f, out) ==
    IF c \notin Links(n) \/ side[c][Other(c, n)] = "down" THEN Take(n, c, f)
    ELSE [Take(n, c, f) EXCEPT ![c][Other(c, n)] = @ \cup out]

Arrives(n, c, f) == side[c][n] # "new" /\ f \in net[c][n]

\* What n has sent to peer p, or got from it, once it includes k.
Told(n, p, k, told) == IF p \in PeerKeys(n) THEN [told EXCEPT ![p] = @ \cup {k}] ELSE told

\* handle_request_with_data(): sign and return the request.
HandleRequest(n, c, f) ==
    /\ Arrives(n, c, f)
    /\ f.type = "SigReq"
    /\ net' = Reply(n, c, f, {SigRes(f.req)})
    /\ UNCHANGED <<side, routerVars, events, historyVars>>

\* handle_response(): the first answer to the open request is kept.
HandleResponse(n, c, f) ==
    LET p == Other(c, n) IN
    /\ Arrives(n, c, f)
    /\ f.type = "SigRes"
    /\ net' = Take(n, c, f)
    /\ responses' = IF responses[n][p] = NoReq /\ requests[n][p] = f.req
                    THEN [responses EXCEPT ![n][p] = f.req] ELSE responses
    /\ UNCHANGED <<side, infos, sent, requests, refresh, doRoot1, doRoot2, events, historyVars>>

\* update(), accepting: store i as the info of k, and forget whom k was sent to.
Update(inf, k, i) == [inf EXCEPT ![k] = i]
\* Mutant: sent is not reset when an info is replaced.
UnsentNever(told, k) == told

Unsent(told, k) == [p \in Node |-> told[p] \ {k}]

\* handle_announce(), accepted: an announcement of n itself that n did not
\* know (it made it before a restart) asks for a refresh.
AcceptAnnounce(n, c, f) ==
    LET p == Other(c, n) IN
    /\ Newer(f.info, infos[n][f.key])
    /\ net' = Take(n, c, f)
    /\ infos' = [infos EXCEPT ![n] = Update(@, f.key, f.info)]
    /\ sent' = [sent EXCEPT ![n] = Told(n, p, f.key, Unsent(@, f.key))]
    /\ refresh' = [refresh EXCEPT ![n] = @ \/ f.key = n]

\* handle_announce(), not accepted: the peer gets what n knows, if that differs.
RejectAnnounce(n, c, f) ==
    LET p == Other(c, n) IN
    /\ ~Newer(f.info, infos[n][f.key])
    /\ net' = IF infos[n][f.key] = f.info THEN Take(n, c, f)
              ELSE Reply(n, c, f, {Announce(f.key, infos[n][f.key])})
    /\ sent' = [sent EXCEPT ![n] = Told(n, p, f.key, @)]
    /\ UNCHANGED <<infos, refresh>>

HandleAnnounce(n, c, f) ==
    /\ Arrives(n, c, f)
    /\ f.type = "Announce"
    /\ AcceptAnnounce(n, c, f) \/ RejectAnnounce(n, c, f)
    /\ intact' = [intact EXCEPT ![n][Other(c, n)] = @ /\ c \in Links(n)]
    /\ UNCHANGED <<side, requests, responses, doRoot1, doRoot2, events, lost, reborn>>

(***************************************************************************)
(* The maintenance pass: expire_infos(), then do_maintenance().  The pass  *)
(* starts from the view without the expired infos (inf, told), and from    *)
(* the flags as the timers leave them: the refresh timer (or the ageing of *)
(* n's own info) sets refresh, a jump of the wall clock also the root flags. *)
(***************************************************************************)
\* use_response(): the info n would announce under parent p.
UseResponse(n, p) ==
    [seq |-> responses[n][p].seq, parent |-> p, nonce |-> responses[n][p].nonce]

\* fix() can adopt p: it leads to another root, has answered, and the
\* resulting announcement is accepted by update().
\* Mutant: without the check that update() accepts it.
CanAdoptAny(n, p, inf) == p # n /\ responses[n][p] # NoReq

CanAdopt(n, p, inf) ==
    /\ p # n
    /\ responses[n][p] # NoReq
    /\ Newer(UseResponse(n, p), inf[n])

\* send_announces(): what peer p has not been told of n's and p's ancestry.
\* Mutant: the ancestry of the peer is left out of what is sent.
ToSendOwn(n, p, inf, told) == {n} \ told[p]

ToSend(n, p, inf, told) == (Ancestry(inf, n) \cup Ancestry(inf, p)) \ told[p]

SendAnnounces(n, inf, told, ask) ==
    /\ infos' = [infos EXCEPT ![n] = inf]
    /\ sent' = [sent EXCEPT ![n] = [p \in Node |->
                  IF p \in PeerKeys(n) THEN told[p] \cup ToSend(n, p, inf, told) ELSE told[p]]]
    /\ net' = After(n, net, [c \in Links(n) |-> LET p == Other(c, n) IN
                  ask[p] \cup {Announce(k, inf[k]) : k \in ToSend(n, p, inf, told)}])

\* send_reqs(): forget all requests and answers, ask every peer anew.
\* Mutant: the answers to the earlier requests are kept.
SendReqsKeeping(n, r) ==
    /\ requests' = [requests EXCEPT ![n] = [p \in Node |-> IF p \in PeerKeys(n) THEN r[p] ELSE NoReq]]
    /\ UNCHANGED responses

SendReqs(n, r) ==
    /\ requests' = [requests EXCEPT ![n] = [p \in Node |-> IF p \in PeerKeys(n) THEN r[p] ELSE NoReq]]
    /\ responses' = [responses EXCEPT ![n] = [p \in Node |-> NoReq]]

\* fix() settles on the new info i of n itself, clearing the flags.
Settle(n, i, inf, told) ==
    LET new == Update(inf, n, i) IN
    \E r \in [PeerKeys(n) -> NewReq(n, new)] :
        /\ SendReqs(n, r)
        /\ SendAnnounces(n, new, Unsent(told, n), [p \in PeerKeys(n) |-> {SigReq(r[p])}])
        /\ refresh' = [refresh EXCEPT ![n] = FALSE]
        /\ doRoot1' = [doRoot1 EXCEPT ![n] = FALSE]
        /\ doRoot2' = [doRoot2 EXCEPT ![n] = FALSE]

Timers == {"none", "refresh", "jump"}
Refreshing(n, timer) == refresh[n] \/ timer # "none"
\* Mutant: do_root1 does not lead to do_root2.
RootingOnce(n, timer) == doRoot2[n] \/ timer = "jump"

Rooting(n, timer) == doRoot1[n] \/ doRoot2[n] \/ timer = "jump"

Pass(n, timer, inf, told) ==
    \E best \in SelectParent(n, inf, Refreshing(n, timer)) :
        LET change == Refreshing(n, timer) \/ Rooting(n, timer) \/ best # ParentIn(inf, n)
        IN    \/ \* nothing to fix
                 /\ ~change
                 /\ SendAnnounces(n, inf, told, [p \in PeerKeys(n) |-> {}])
                 /\ UNCHANGED <<requests, responses, refresh, doRoot1, doRoot2>>
              \/ \* use_response()
                 /\ change
                 /\ CanAdopt(n, best, inf)
                 /\ Settle(n, UseResponse(n, best), inf, told)
              \/ \* become_root()
                 /\ change
                 /\ ~CanAdopt(n, best, inf)
                 /\ Rooting(n, timer)
                 /\ \E x \in Nonce :
                      Settle(n, [seq |-> inf[n].seq + 1, parent |-> n, nonce |-> x], inf, told)
              \/ \* not yet: become root in the next pass, unless an answer comes
                 /\ change
                 /\ ~CanAdopt(n, best, inf)
                 /\ ~Rooting(n, timer)
                 /\ SendAnnounces(n, inf, told, [p \in PeerKeys(n) |-> {}])
                 /\ refresh' = [refresh EXCEPT ![n] = Refreshing(n, timer)]
                 /\ doRoot1' = [doRoot1 EXCEPT ![n] = TRUE]
                 /\ UNCHANGED <<requests, responses, doRoot2>>

Maintain(n) ==
    /\ Pass(n, "none", infos[n], sent[n])
    /\ UNCHANGED <<side, events, historyVars>>

\* Mutant: a node lets its own info expire like any other.
MaintainTimedAll(n) ==
    /\ events < MaxEvents
    /\ events' = events + 1
    /\ \E expired \in SUBSET {k \in Node : infos[n][k] # NoInfo} :
         /\ Pass(n, "none", [k \in Node |-> IF k \in expired THEN NoInfo ELSE infos[n][k]],
                          [p \in Node |-> sent[n][p] \ expired])
         /\ lost' = [lost EXCEPT ![n] = @ \cup expired]
    /\ UNCHANGED <<side, intact, reborn>>

\* A pass in which timers have run out.
MaintainTimed(n) ==
    /\ events < MaxEvents
    /\ events' = events + 1
    /\ \E timer \in Timers, expired \in SUBSET {k \in Node \ {n} : infos[n][k] # NoInfo} :
         /\ timer # "none" \/ expired # {}
         /\ Pass(n, timer, [k \in Node |-> IF k \in expired THEN NoInfo ELSE infos[n][k]],
                          [p \in Node |-> sent[n][p] \ expired])
         /\ lost' = [lost EXCEPT ![n] = @ \cup expired]
    /\ UNCHANGED <<side, intact, reborn>>

(***************************************************************************)
(* A node stops, with all its connections, and starts again under the same *)
(* key: nothing of the router's state is persisted.                        *)
(***************************************************************************)
InUse(c) == \E x \in Ends[c] : side[c][x] # "new"

Restart(n) ==
    /\ events < MaxEvents
    /\ events' = events + 1
    /\ side' = [c \in Conn |-> IF n \in Ends[c] /\ InUse(c)
                               THEN [side[c] EXCEPT ![n] = "down"] ELSE side[c]]
    /\ net' = [c \in Conn |-> [net[c] EXCEPT ![n] = {}]]
    /\ infos' = [infos EXCEPT ![n] = [k \in Node |-> NoInfo]]
    /\ sent' = [sent EXCEPT ![n] = [p \in Node |-> {}]]
    /\ requests' = [requests EXCEPT ![n] = [p \in Node |-> NoReq]]
    /\ responses' = [responses EXCEPT ![n] = [p \in Node |-> NoReq]]
    /\ refresh' = [refresh EXCEPT ![n] = FALSE]
    /\ doRoot1' = [doRoot1 EXCEPT ![n] = FALSE]
    /\ doRoot2' = [doRoot2 EXCEPT ![n] = TRUE]
    /\ intact' = [m \in Node |-> [p \in Node |-> n \notin {m, p} /\ intact[m][p]]]
    /\ lost' = [lost EXCEPT ![n] = {}]
    /\ reborn' = reborn \cup {n}

Init ==
    /\ side = [c \in Conn |-> [n \in Node |-> "new"]]
    /\ net = [c \in Conn |-> [n \in Node |-> {}]]
    /\ infos = [n \in Node |-> [k \in Node |-> NoInfo]]
    /\ sent = [n \in Node |-> [p \in Node |-> {}]]
    /\ requests = [n \in Node |-> [p \in Node |-> NoReq]]
    /\ responses = [n \in Node |-> [p \in Node |-> NoReq]]
    /\ refresh = [n \in Node |-> FALSE]
    /\ doRoot1 = [n \in Node |-> FALSE]
    /\ doRoot2 = [n \in Node |-> TRUE]
    /\ events = 0
    /\ intact = [n \in Node |-> [p \in Node |-> FALSE]]
    /\ lost = [n \in Node |-> {}]
    /\ reborn = {}

Receive(n, c, f) ==
    \/ HandleRequest(n, c, f)
    \/ HandleResponse(n, c, f)
    \/ HandleAnnounce(n, c, f)

Next ==
    \E n \in Node :
        \/ \E c \in Conn : AddPeer(n, c) \/ RemovePeer(n, c)
        \/ \E c \in Conn : \E f \in net[c][n] : Receive(n, c, f)
        \/ Maintain(n)
        \/ MaintainTimed(n)
        \/ Restart(n)

Spec == Init /\ [][Next]_vars

(***************************************************************************)
(* Fairness: the actor's select loop serves its inbox and its maintenance  *)
(* deadline (at the latest every IDLE_MAINT_INTERVAL), connections deliver, *)
(* and the reader of a connection whose far end is gone ends.              *)
(***************************************************************************)
DeliveryFairness(n, c) ==
    /\ WF_vars(AddPeer(n, c))
    /\ WF_vars(c \in Links(n) /\ \E f \in net[c][n] : Receive(n, c, f))
    /\ WF_vars(RemovePeer(n, c) /\ side[c][Other(c, n)] = "down")

Fairness ==
    /\ \A n \in Node : WF_vars(Maintain(n))
    /\ \A n \in Node, c \in Conn : DeliveryFairness(n, c)

FairSpec == Spec /\ Fairness

(***************************************************************************)
(* Properties.                                                             *)
(***************************************************************************)
\* Type correctness; of announcements and requests, that they carry a seq of
\* at least 1, so that an absent info is below all of them in update()'s order.
TypeOK ==
    /\ side \in [Conn -> [Node -> {"new", "up", "down"}]]
    /\ net \in [Conn -> [Node -> SUBSET Frame]]
    /\ infos \in [Node -> [Node -> Info]]
    /\ sent \in [Node -> [Node -> SUBSET Node]]
    /\ requests \in [Node -> [Node -> Req]]
    /\ responses \in [Node -> [Node -> Req]]
    /\ refresh \in [Node -> BOOLEAN]
    /\ doRoot1 \in [Node -> BOOLEAN]
    /\ doRoot2 \in [Node -> BOOLEAN]
    /\ events \in Nat
    /\ intact \in [Node -> [Node -> BOOLEAN]]
    /\ lost \in [Node -> SUBSET Node]
    /\ reborn \in SUBSET Node

\* The router holds a request for exactly its peers, and an answer only for
\* the request that is open: select_parent and use_response never see the
\* answer to an earlier request or of a node that is no longer a peer (for
\* which the cost is u64::MAX and doubling it would overflow).
ResponsesCurrent ==
    \A n, p \in Node :
        /\ requests[n][p] # NoReq <=> p \in PeerKeys(n)
        /\ responses[n][p] \in {NoReq, requests[n][p]}

\* No update is lost: a key marked as sent to a peer is known to the peer in
\* this version or a later one, or the announcement is on its way.  Exempt
\* are peers that let the key expire, and peers one of whose connections
\* broke while another stayed or whose frames of an earlier connection were
\* handled late.
SentIsKnown ==
    \A n, p, k \in Node :
        /\ p \in PeerKeys(n) /\ intact[n][p]
        /\ k \in sent[n][p] /\ k \notin lost[p]
        => \/ Covers(infos[p][k], infos[n][k])
           \/ \E c \in LinksTo(n, p) : \E f \in net[c][p] :
                 f.type = "Announce" /\ f.key = k /\ Covers(f.info, infos[n][k])

\* Only a node itself issues its announcements: until it restarts, nobody
\* knows or carries a newer one than the node's own.
OwnInfoNewest ==
    \A n \in Node \ reborn :
        /\ \A m \in Node : Covers(infos[n][n], infos[m][n])
        /\ \A c \in Conn, m \in Node : \A f \in net[c][m] :
             f.type = "Announce" /\ f.key = n => Covers(infos[n][n], f.info)

\* A pass that gives a node a parent leaves it on a loop-free path, in its own
\* view, to a root with a smaller key than its own.  (An own announcement that
\* a peer hands back after a restart is no adoption: it asks for a refresh.)
AdoptionReachesRoot ==
    [][\A n \in Node :
          LET own == infos'[n][n] IN
          own \notin {infos[n][n], NoInfo} /\ own.parent # n /\ ~refresh'[n]
          => Valid(infos'[n], n) /\ Root(infos'[n], n) < n]_vars

\* A node never takes back what it announced: its own info only moves up in the
\* CRDT order, except when it restarts and forgets it.
OwnInfoAdvances ==
    [][\A n \in Node : infos'[n][n] # NoInfo => Covers(infos'[n][n], infos[n][n])]_vars

\* In a converged mesh each node reaches, from peer to peer, a root with a key
\* no larger than its own, and neighbours reach the same root.
Converged ==
    \A n \in Node :
        LET r == Root(infos[n], n) IN
        /\ Valid(infos[n], n)
        /\ r <= n /\ infos[r][r].parent = r
        /\ r # n => infos[n][n].parent \in PeerKeys(n)
        /\ \A p \in PeerKeys(n) : Root(infos[p], p) = r

\* The mesh converges once connections, timers and nodes leave it in peace: the
\* two-pass do_root1/do_root2 fallback, the re-sent announcements and the
\* refresh after an own pre-restart announcement bring every node under the
\* smallest key it is connected with.  An info that a peer let expire is not
\* sent to it again before its owner's next refresh, so the promise holds for
\* meshes in which no live node's info expires (router_timeout is longer than
\* router_refresh).
Converges == <>[]Converged \/ <>(\E n \in Node : lost[n] # {})

\* A refresh that was asked for is carried out: the node announces itself anew,
\* with the answer of a parent or, for lack of one, as root.
RefreshCarriedOut == \A n \in Node : refresh[n] ~> ~refresh[n]
=============================================================================
