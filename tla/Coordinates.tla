---------------------------- MODULE Coordinates ----------------------------
(***************************************************************************)
(* Tree-space, as a router computes it from the infos it knows.  A view v  *)
(* gives the parent of every key, v[k] = k for a root and 0 for a key whose *)
(* info is unknown.  The coordinates of a key are the ports that lead to it *)
(* from its root.                                                          *)
(***************************************************************************)
EXTENDS Integers, Sequences, FiniteSets

CONSTANTS Node,  \* public keys, positive integers
          Peers, \* Peers[n]: the peers of n
          Port   \* Port[p][c]: the port that p gave to its peer c

\* u64::MAX: the distance of what cannot be compared, and the first watermark.
Far == 2 * Cardinality(Node) + 1

View == [Node -> Node \cup {0}]
Path == UNION {[1..i -> {Port[p][c] : p, c \in Node}] : i \in 0..Cardinality(Node)}

\* The keys from k towards its root.  The walk stands still at a root and at a
\* key without info.
Walk(v, k) ==
    LET w[i \in 0..Cardinality(Node)] ==
            IF i = 0 THEN k ELSE LET last == w[i-1] IN IF v[last] = 0 THEN last ELSE v[last]
    IN  w

RootOf(v, k) == Walk(v, k)[Cardinality(Node)]

\* The walk ends at a root: no loop and no missing ancestor.
Valid(v, k) == LET root == RootOf(v, k) IN v[root] = root

\* get_root_and_path(): no coordinates for an ancestry that is not valid.
Coords(v, k) ==
    LET w == Walk(v, k)
        d == Cardinality({i \in 1..Cardinality(Node) : w[i] # w[i-1]})
    IN  IF Valid(v, k) THEN [i \in 1..d |-> Port[w[d-i+1]][w[d-i]]] ELSE <<>>

Common(p, q) ==
    LET m == IF Len(p) < Len(q) THEN Len(p) ELSE Len(q)
    IN  CHOOSE i \in 0..m : /\ \A j \in 1..i : p[j] = q[j]
                            /\ i < m => p[i+1] # q[i+1]

\* get_dist(): hops on the tree between the path and k, in n's view.
Dist(v, n, path, k) ==
    LET home == IF Valid(v, n) THEN RootOf(v, n) ELSE n
    IN  IF ~Valid(v, k) \/ RootOf(v, k) # home THEN Far
        ELSE LET own == Coords(v, k) IN Len(own) + Len(path) - 2 * Common(own, path)

\* lookup(): the peers that may be the next hop.  The costs of the links decide
\* between peers that are all strictly closer.
NextHops(v, n, path, watermark) ==
    LET d == Dist(v, n, path, n)
    IN  IF d >= watermark THEN {} ELSE {p \in Peers[n] : Dist(v, n, path, p) < d}

\* Mutant: the parent is left out.
OnTreeBelow(v, n) == {p \in Peers[n] : v[p] = n}

\* fix_on_tree(): the peers that are n's parent or its children.
OnTree(v, n) == {p \in Peers[n] : p = v[n] \/ v[p] = n}

\* d lies behind n's neighbour p.
Behind(v, n, p, d) ==
    LET up == {Walk(v, d)[i] : i \in 0..Cardinality(Node)}
    IN  IF v[p] = n THEN p \in up ELSE n \notin up /\ RootOf(v, d) = RootOf(v, n)
=============================================================================
