SPECIFICATION PairSpec
CONSTANTS
    Node <- PairNode
    Conn <- PairConn
    Ends <- PairEnds
    Nonce = {1}
    MaxEvents = 1
INVARIANTS TypeOK ResponsesCurrent OwnInfoNewest SentIsKnown
PROPERTY OwnInfoAdvances
