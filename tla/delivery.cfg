SPECIFICATION Spec
CONSTANTS
    Reader = {r, s}
    Packet = {p, q, t, u}
    ChanSize = 2
INVARIANTS WaitersBacked ActorNotBlocked
 
CHECK_DEADLOCK FALSE
