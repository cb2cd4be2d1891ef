------------------------------ MODULE MCLinks ------------------------------
(***************************************************************************)
(* Two names for one socket, two other nodes, three connections at a time. *)
(***************************************************************************)
EXTENDS Links

Uris == {"ip", "name"}
Sockets == [u \in Uris |-> 1]
Keys == {"k", "l"}
Slots == 1..3

Nothing ==
    [room |-> 3, uris |-> {"ip"}, accepts |-> 0, beacons |-> 0, removes |-> 0, breaks |-> 0,
     moods |-> 0]

\* A peer is removed and added again, while its link breaks or another node connects;
\* another node connects and links break, with room in the inbox or hardly any; a node
\* connects twice; a beacon and a loop, or two loops, race for one socket; the dialled
\* node changes.
Settings ==
    {[Nothing EXCEPT !.removes = 1, !.breaks = 1],
     [Nothing EXCEPT !.removes = 1, !.accepts = 1],
     [Nothing EXCEPT !.accepts = 1, !.breaks = 1],
     [Nothing EXCEPT !.accepts = 1, !.breaks = 1, !.room = 1],
     [Nothing EXCEPT !.accepts = 2],
     [Nothing EXCEPT !.beacons = 2],
     [Nothing EXCEPT !.beacons = 1, !.breaks = 1],
     [Nothing EXCEPT !.uris = Uris, !.removes = 1],
     [Nothing EXCEPT !.moods = 3, !.breaks = 1]}
=============================================================================
