--------------------------- MODULE MCPacketQueue ---------------------------
(***************************************************************************)
(* Small traffic queues.  Flows are interchangeable: nothing compares their *)
(* keys.                                                                   *)
(***************************************************************************)
EXTENDS PacketQueue

Interchangeable == Permutations(Flow)
=============================================================================
