----------------------------- MODULE MCBlooms ------------------------------
(***************************************************************************)
(* Two nodes connected twice that join, part and lose their connections.    *)
(* Three nodes: in a line, the first two connected twice, node 3 joins and *)
(* leaves the tree while a connection is lost or a filter overtaken.  In a   *)
(* triangle it moves from node 2 to node 1, so that for a while a router     *)
(* takes both links to it for links of the tree.                           *)
(***************************************************************************)
EXTENDS Blooms

MeshNode == 1..3
MeshPeers == <<{2, 3}, {1, 3}, {1, 2}>>
MeshPort == <<<<0, 1, 2>>, <<1, 0, 2>>, <<1, 2, 0>>>>
MeshTree == {<<1, 1, 1>>, <<1, 1, 2>>, <<1, 1, 3>>, <<1, 2, 3>>}
MeshConn == {"a", "b", "c", "d"}
MeshEnds == [c \in MeshConn |-> CASE c = "c" -> {2, 3} [] c = "d" -> {1, 3} [] OTHER -> {1, 2}]
MeshSetting ==
    LET Set(lines, trees, periodic, faults, n) ==
            [lines |-> lines, trees |-> trees, periodic |-> periodic, faults |-> faults, events |-> n]
    IN  {Set({"a", "b"}, {<<1, 1, 3>>, <<1, 2, 3>>}, FALSE, {"change", "down"}, 2),
         Set({"a", "b", "c"}, {<<1, 1, 2>>, <<1, 1, 3>>}, FALSE, {"change", "down"}, 1),
         Set({"a", "b"}, {<<1, 1, 3>>, <<1, 2, 3>>}, TRUE, {"down", "late"}, 1),
         Set({"a", "c"}, {<<1, 1, 2>>, <<1, 1, 3>>}, TRUE, {"overtake"}, 1),
         Set(MeshConn, {<<1, 1, 1>>, <<1, 1, 2>>}, FALSE, {}, 0)}
=============================================================================
