SPECIFICATION Spec
CONSTANTS
    Bits = 3
    None = None
    Syn = 2
    Established = 4
    Close = 1
    Udp = 3
    Icmp = 2
    GcInterval = 2
    Key = {"a", "b"}
    Fresh = 2
    Notice = {"n1", "n2"}
    Ids <- MCIds
    Setting <- MCSetting
    Call = {c1, c2}
    Kind = {"self", "tree"}
    Remote = {"a"}
    Places = 1
    RequestTimeout = 1
    CallbackTimeout = 3
    CleanupInterval = 2
    Load <- MCLoad
    Url = {"u", "v"}
    Content = {"x", "bad"}
    Configs <- MCConfigs
    Chance <- MCChance
INVARIANTS NotStranded CancelEarned 
PROPERTIES  AdmittedOnly RepliesDelivered
SYMMETRY Symmetry
CHECK_DEADLOCK FALSE
