SPECIFICATION FairSpec
CONSTANTS
    Node <- LineNode
    Peers <- LinePeers
    Port <- LinePort
    Tree <- LineTree
    Writes <- LineWrites
    Timeout = 2
    Old = 1
    MaxFlight = 0
    MaxEvents = 1
PROPERTIES Delivered Resolved PathsTrue RumorsExpire
CHECK_DEADLOCK FALSE
