SPECIFICATION FairSpec
CONSTANTS
    Uri <- Uris
    Sock <- Sockets
    Key <- Keys
    None = "none"
    Host = "k"
    Slot <- Slots
    Inbound = 1
    Permits = 2
    MaxFailed = 2
    Setting <- Settings
INVARIANTS PortsAgree NoLeftovers SocketsDistinct
PROPERTY Redials
CHECK_DEADLOCK FALSE
