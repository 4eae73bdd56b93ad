CONSTANTS
    Node = {n1, n2, n3}
    Command = {c1}
    TermStart = TermStart
    None = None
    UsePreVote = FALSE
    UseCheckQuorum = FALSE
    MaxEntries = 1
    SlowSend = FALSE
    Starts <- AllBounds
    MaxCampaign = 2
    MaxStale = 0
    MaxHeartbeat = 0
    MaxCommand = 0
    MaxCrash = 0
    MaxTorn = 1
    MaxStop = 0
SPECIFICATION Spec
SYMMETRY NodeSymmetry
INVARIANT OneLeaderPerTerm
CHECK_DEADLOCK FALSE
VIEW LiveView
