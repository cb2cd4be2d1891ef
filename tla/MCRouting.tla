----------------------------- MODULE MCRouting -----------------------------
(***************************************************************************)
(* Three nodes in a line.  Node 1 or node 2 is the root, so that a change  *)
(* of the tree changes the coordinates of both ends, which talk across the *)
(* middle.                                                                 *)
(***************************************************************************)
EXTENDS Routing

LineNode == 1..3
LinePeers == <<{2}, {1, 3}, {2}>>
LinePort == <<<<0, 1, 0>>, <<1, 0, 2>>, <<0, 1, 0>>>>
LineTree == {<<1, 1, 2>>, <<2, 2, 2>>}

Send(source, dest, kind) == [source |-> source, dest |-> dest, kind |-> kind]
LineWrites == {{Send(1, 3, "data"), Send(3, 1, "keepalive")},
               {Send(1, -3, "empty"), Send(1, 3, "force")}}
=============================================================================
