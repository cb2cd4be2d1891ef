------------------------------- MODULE Blooms -------------------------------
(***************************************************************************)
(* The bloom filters that tell a router behind which of its peers on the   *)
(* tree a key lies: Blooms of every node, with the connections that carry   *)
(* the filters.                                                            *)
(*                                                                         *)
(* A filter is the set of the nodes whose keys it matches; that a filter    *)
(* may match others too is left out.  The tree is an environment, as in      *)
(* Routing: view[n] is what n knows of the parents.  There may be several    *)
(* connections between two nodes, and each end of one adds and removes it   *)
(* on its own.                                                             *)
(***************************************************************************)
EXTENDS Coordinates, SequencesExt

CONSTANTS Tree,      \* the spanning trees that the mesh may have
          Conn,      \* the connections
          Ends,      \* Ends[c]: the two nodes that c connects
          Setting,   \* [lines, trees, periodic, faults, events]: the connections
                     \* and trees there are, whether there is the periodic resend,
                     \* what may happen, and how often
          Resend,    \* maintenance passes after which a filter is sent again
          MaxWire    \* bound on the filters on a wire when a pass has none that is new

ASSUME BloomsAssumption ==
    /\ Tree \subseteq View
    /\ \A c \in Conn : Ends[c] \subseteq Node /\ Cardinality(Ends[c]) = 2
    /\ Setting \subseteq [lines : SUBSET Conn, trees : SUBSET Tree, periodic : BOOLEAN,
                            faults : SUBSET {"change", "down", "late", "overtake"}, events : Nat]
    /\ Resend \in Nat \ {0} /\ MaxWire \in Nat \ {0}

VARIABLES tree,     \* the parent of every node
          view,     \* view[n]: the parents that n knows
          blooms,   \* blooms[n][p]: the BloomInfo that n has for p
          up,       \* the connections that are up
          peers,    \* peers[n]: the connections in n's router
          wire,     \* wire[c][n]: filters on their way to n over c
          setting,  \* one of Setting
          events    \* what has happened so far

vars == <<tree, view, blooms, up, peers, wire, setting, events>>

BloomInfo == [live : {TRUE}, send : SUBSET Node, recv : SUBSET Node, seq : 0..(Resend - 1),
              on_tree : BOOLEAN, z_dirty : BOOLEAN]
NoInfo == [live |-> FALSE]
NewInfo == [live |-> TRUE, send |-> {}, recv |-> {}, seq |-> 0, on_tree |-> FALSE, z_dirty |-> FALSE]

Other(c, n) == CHOOSE p \in Ends[c] : p # n
Between(n, p) == {c \in Conn : Ends[c] = {n, p}}

\* The filters in to, as <<peer, filter>>, are sent on all connections of the peer;
\* what is written to one that is down is lost.
SendBlooms(n, to) ==
    [c \in Conn |-> [p \in Node |->
        IF c \in peers[n] \cap up /\ Ends[c] = {n, p} THEN wire[c][p] \o SetToSeq({x[2] : x \in {y \in to : y[1] = p}})
        ELSE wire[c][p]]]

\* fix_on_tree(): the parent and the children are on the tree.  A peer that was
\* on it gets a blank filter.
Dropped(n, bs) == {p \in Node : bs[p].live /\ bs[p].on_tree /\ p \notin OnTree(view[n], n)}
FixOnTree(n, bs) ==
    [p \in Node |-> IF bs[p].live THEN [bs[p] EXCEPT !.on_tree = p \in OnTree(view[n], n),
                                                     !.send = IF p \in Dropped(n, bs) THEN {} ELSE @]
                    ELSE bs[p]]

\* get_bloom_for(), before the ones of the last filter are kept.
BloomFor(n, bs, p) == {n} \cup UNION {bs[q].recv : q \in {x \in Node \ {p} : bs[x].live /\ bs[x].on_tree}}

\* Mutant: ones are never dropped.
GetBloomForKeeping(n, bs, p) == [bs[p] EXCEPT !.send = @ \cup BloomFor(n, bs, p)]

\* get_bloom_for(): the ones of the last filter are kept in one pass and dropped
\* in the next.
GetBloomFor(n, bs, p) ==
    LET b == BloomFor(n, bs, p)
    IN  IF bs[p].z_dirty THEN [bs[p] EXCEPT !.send = b, !.z_dirty = FALSE]
        ELSE [bs[p] EXCEPT !.send = @ \cup b, !.z_dirty = ~(bs[p].send \subseteq b)]

\* The filter for p is new, or overdue.
NewFor(fixed, next, p) == next[p].send # fixed[p].send

DueFor(fixed, next, p) == NewFor(fixed, next, p) \/ (setting.periodic /\ next[p].seq + 1 >= Resend)

\* do_maintenance(), called by blooms_maintenance(): a blank filter for a peer
\* that has left the tree, a new or overdue one for those on it.  (The results of
\* the two stages are bound by quantifiers, so that they are computed once.)
Maintain(n) ==
    \E fixed \in {FixOnTree(n, blooms[n])} :
    \E on \in {{p \in Node : fixed[p].live /\ fixed[p].on_tree}} :
    \E next \in {[p \in Node |-> IF p \in on THEN GetBloomFor(n, fixed, p) ELSE fixed[p]]} :
        /\ \/ Dropped(n, blooms[n]) # {}
           \/ \E p \in on : NewFor(fixed, next, p)
           \/ \A c \in peers[n] : Len(wire[c][Other(c, n)]) < MaxWire
        /\ blooms' = [blooms EXCEPT ![n] = [p \in Node |->
             IF p \in on THEN [next[p] EXCEPT !.seq = IF DueFor(fixed, next, p) \/ ~setting.periodic THEN 0 ELSE @ + 1]
             ELSE next[p]]]
        /\ wire' = SendBlooms(n, {<<p, {}>> : p \in Dropped(n, blooms[n])}
                                   \cup {<<p, next[p].send>> : p \in {q \in on : DueFor(fixed, next, q)}})
        /\ UNCHANGED <<tree, view, up, peers, setting, events>>

\* handle_bloom()
HandleBloom(c, n) ==
    LET p == Other(c, n)
    IN  /\ c \in peers[n]
        /\ wire[c][n] # <<>>
        /\ blooms' = [blooms EXCEPT ![n][p].recv = Head(wire[c][n])]
        /\ wire' = [wire EXCEPT ![c][n] = Tail(@)]
        /\ UNCHANGED <<tree, view, up, peers, setting, events>>

\* add_peer(): a first connection makes the entry; every one gets the filter that
\* was last sent.
AddPeer(c, n) ==
    LET p == Other(c, n)
        info == IF blooms[n][p].live THEN blooms[n][p] ELSE NewInfo
    IN  /\ c \in up
        /\ c \notin peers[n]
        /\ peers' = [peers EXCEPT ![n] = @ \cup {c}]
        /\ blooms' = [blooms EXCEPT ![n][p] = info]
        /\ wire' = [wire EXCEPT ![c][p] = Append(@, info.send)]
        /\ UNCHANGED <<tree, view, up, setting, events>>

\* Mutant: the filter is not sent again.
RemovePeerSilent(c, n) ==
    LET p == Other(c, n)
        left == (peers[n] \ {c}) \cap Between(n, p)
    IN  /\ c \notin up
        /\ c \in peers[n]
        /\ peers' = [peers EXCEPT ![n] = @ \ {c}]
        /\ blooms' = [blooms EXCEPT ![n][p] = IF left = {} THEN NoInfo ELSE @]
        /\ wire' = [wire EXCEPT ![c][n] = <<>>]
        /\ UNCHANGED <<tree, view, up, setting, events>>

\* remove_peer(): the last connection takes the entry with it; otherwise the
\* filter is sent again on those that remain.
RemovePeer(c, n) ==
    LET p == Other(c, n)
        left == (peers[n] \ {c}) \cap Between(n, p)
    IN  /\ c \notin up
        /\ c \in peers[n]
        /\ peers' = [peers EXCEPT ![n] = @ \ {c}]
        /\ blooms' = [blooms EXCEPT ![n][p] = IF left = {} THEN NoInfo ELSE @]
        /\ wire' = [d \in Conn |-> CASE d = c -> [wire[c] EXCEPT ![n] = <<>>]
                                     [] d \in left \cap up -> [wire[d] EXCEPT ![p] = Append(@, blooms[n][p].send)]
                                     [] OTHER -> wire[d]]
        /\ UNCHANGED <<tree, view, up, setting, events>>

(***************************************************************************)
(* The environment.                                                        *)
(***************************************************************************)

Happens(fault) == fault \in setting.faults /\ events < setting.events

\* The spanning tree changes; the nodes that have a new parent know it.
Change(t) ==
    /\ Happens("change")
    /\ t # tree
    /\ tree' = t
    /\ view' = [n \in Node |-> [view[n] EXCEPT ![n] = t[n]]]
    /\ events' = events + 1
    /\ UNCHANGED <<blooms, up, peers, wire, setting>>

\* The announcement of p reaches n.
Learn(n, p) ==
    /\ view[n][p] # tree[p]
    /\ view' = [view EXCEPT ![n][p] = tree[p]]
    /\ UNCHANGED <<tree, blooms, up, peers, wire, setting, events>>

\* A connection goes down, with all that was not read, or with some of it still to
\* be read.
Down(c) ==
    /\ Happens("down")
    /\ c \in up
    /\ up' = up \ {c}
    /\ wire' = IF "late" \in setting.faults THEN wire ELSE [wire EXCEPT ![c] = [n \in Node |-> <<>>]]
    /\ events' = events + 1
    /\ UNCHANGED <<tree, view, blooms, peers, setting>>

\* It comes up again when both ends have removed it.
Up(c) ==
    /\ \A n \in Node : c \notin peers[n]
    /\ c \notin up
    /\ up' = up \cup {c}
    /\ UNCHANGED <<tree, view, blooms, peers, wire, setting, events>>

\* The channel of the writer was full for a filter, and a later one came first.
Overtake(c, n) ==
    LET w == wire[c][n]
    IN  /\ Happens("overtake")
        /\ Len(w) > 1
        /\ wire' = [wire EXCEPT ![c][n] = <<w[2], w[1]>> \o SubSeq(w, 3, Len(w))]
        /\ events' = events + 1
        /\ UNCHANGED <<tree, view, blooms, up, peers, setting>>

\* A settled mesh, or one that was settled before its tree has changed.
Init ==
    \E old \in Tree :
    /\ setting \in Setting
    /\ old \in setting.trees
    /\ tree \in setting.trees
    /\ view = [n \in Node |-> [old EXCEPT ![n] = tree[n]]]
    /\ up = setting.lines
    /\ peers = [n \in Node |-> {c \in setting.lines : n \in Ends[c]}]
    /\ blooms = [n \in Node |-> [p \in Node |->
         CASE up \cap Between(n, p) = {} -> NoInfo
           [] up \cap Between(n, p) # {} /\ p \notin OnTree(old, n) -> NewInfo
           [] OTHER -> [NewInfo EXCEPT !.on_tree = TRUE,
                                       !.recv = {d \in Node : Behind(old, n, p, d)},
                                       !.send = {d \in Node : Behind(old, p, n, d)}]]]
    /\ wire = [c \in Conn |-> [n \in Node |-> <<>>]]
    /\ events = 0

Next ==
    \/ \E n \in Node : Maintain(n) \/ \E p \in Peers[n] : Learn(n, p)
    \/ \E c \in setting.lines : \E n \in Ends[c] : HandleBloom(c, n) \/ AddPeer(c, n) \/ RemovePeer(c, n) \/ Overtake(c, n)
    \/ \E c \in setting.lines : Down(c) \/ Up(c)
    \/ \E t \in setting.trees : Change(t)

Spec == Init /\ [][Next]_vars

\* Both ends notice what happens to a connection, connections are made again and
\* announcements arrive.
Settle ==
    \/ \E c \in setting.lines : Up(c) \/ \E n \in Ends[c] : AddPeer(c, n) \/ RemovePeer(c, n)
    \/ \E n \in Node : \E p \in Peers[n] : Learn(n, p)

\* The mesh settles, the timer of every router fires, and filters are read.
FairSpec ==
    /\ Spec
    /\ WF_vars(Settle)
    /\ \A n \in Node : WF_vars(Maintain(n))
    /\ \A c \in Conn : \A n \in Ends[c] : WF_wire(HandleBloom(c, n))

(***************************************************************************)
(* Properties.                                                             *)
(***************************************************************************)

\* The values of the variables.
TypeOK ==
    /\ tree \in Tree /\ view \in [Node -> View]
    /\ \A n, p \in Node : blooms[n][p] \in BloomInfo \cup {NoInfo}
    /\ up \subseteq setting.lines /\ \A n \in Node : peers[n] \subseteq {c \in Conn : n \in Ends[c]}
    /\ \A c \in Conn : \A n \in Node : Range(wire[c][n]) \subseteq SUBSET Node
    /\ setting \in Setting /\ events \in 0..setting.events

\* A router never takes a filter for sent that its peer will not have: while all
\* its connections to the peer are up, the peer's latest filter is the one it sent
\* last, or that one is at the end of a wire.  This is why add_peer() and
\* remove_peer() send the filter again.  It needs filters to be read in order: one
\* that is overtaken or read late stays until the periodic resend.
SentArrives ==
    \A n \in Node : \A p \in Peers[n] :
        LET cs == peers[n] \cap Between(n, p)
            sent == blooms[n][p].send
        IN  cs # {} /\ cs \subseteq up /\ setting.faults \cap {"late", "overtake"} = {}
            => \/ blooms[p][n].live /\ blooms[p][n].recv = sent
               \/ \E c \in cs : wire[c][p] # <<>> /\ Last(wire[c][p]) = sent

\* get_multicast_targets(), for a packet of n itself.
Targets(n, d) == {p \in Node : blooms[n][p].live /\ blooms[n][p].on_tree /\ d \in blooms[n][p].recv}

\* Once the mesh is left alone, every router sends a lookup towards its
\* destination and nowhere else: stale ones are cleaned, a filter that a lost
\* connection took with it is sent again.  Only when filters are read out of order
\* does this take the periodic resend.
TargetsSettle ==
    <>[](\A n, d \in Node : n # d => Targets(n, d) = {p \in OnTree(tree, n) : Behind(tree, n, p, d)})

=============================================================================
