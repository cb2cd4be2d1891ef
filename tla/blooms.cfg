SPECIFICATION FairSpec
CONSTANTS
    Node <- MeshNode
    Peers <- MeshPeers
    Port <- MeshPort
    Tree <- MeshTree
    Conn <- MeshConn
    Ends <- MeshEnds
    Setting <- MeshSetting
    Resend = 1
    MaxWire = 1
INVARIANT SentArrives
PROPERTY TargetsSettle
CHECK_DEADLOCK FALSE
