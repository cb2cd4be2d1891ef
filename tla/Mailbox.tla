------------------------------ MODULE Mailbox ------------------------------
(***************************************************************************)
(* What the hand-over of packets promises its readers, whichever way a     *)
(* packet takes: what arrives is held until it is read once, or dropped;   *)
(* drops happen only as somebody reads.                                    *)
(***************************************************************************)
CONSTANT Packet

VARIABLES coming,   \* packets yet to arrive
          held,     \* packets that arrived and may be read
          read,     \* packets that were read
          closed
mailbox == <<coming, held, read, closed>>

Init == coming = Packet /\ held = {} /\ read = {} /\ closed = FALSE

Arrive ==
    \E p \in coming : /\ coming' = coming \ {p}
                      /\ held' = held \cup {p}
                      /\ UNCHANGED <<read, closed>>
Read ==
    \E p \in held : /\ held' \subseteq held \ {p}
                    /\ read' = read \cup {p}
                    /\ UNCHANGED <<coming, closed>>
Close == closed' = TRUE /\ UNCHANGED <<coming, held, read>>

Next == Arrive \/ Read \/ Close
Spec == Init /\ [][Next]_mailbox
=============================================================================
