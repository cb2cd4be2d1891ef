------------------------------ MODULE Adapter ------------------------------
(***************************************************************************)
(* The node between TUN and network: the way of packets, the questions to  *)
(* other nodes, and the starts of the node with their route lists.  One    *)
(* task reads from the network, and hands over what is for Proto when it   *)
(* is between two packets; otherwise the three go on side by side.         *)
(***************************************************************************)
EXTENDS TunPath, Proto, RouteLists

adapterVars == <<tunVars, protoVars, listVars>>

AdapterInit == TunInit /\ ProtoInit /\ ListsInit

Next == \/ TunNext /\ UNCHANGED <<protoVars, listVars>>
        \/ ProtoNext /\ UNCHANGED <<tunVars, listVars>>
        \/ net = Idle /\ (\E m \in abroad : Dispatch(m)) /\ UNCHANGED <<tunVars, listVars>>
        \/ ListsNext /\ UNCHANGED <<tunVars, protoVars>>

AdapterSpec == AdapterInit /\ [][Next]_adapterVars
=============================================================================
