SPECIFICATION LineFairSpec
CONSTANTS
    Node <- LineNode
    Conn <- LineConn
    Ends <- LineEnds
    Nonce = {1}
    MaxEvents = 1
PROPERTIES AdoptionReachesRoot Converges RefreshCarriedOut
