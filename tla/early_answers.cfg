CONSTANTS
    Node = {n1, n2, n3, n4}
    Command = {c1}
    TermStart = TermStart
    None = None
    UsePreVote = FALSE
    UseCheckQuorum = FALSE
    MaxEntries = 1
    SlowSend = TRUE
    Starts <- AllBounds
    MaxCampaign = 2
    MaxStale = 0
    MaxHeartbeat = 0
    MaxCommand = 0
    MaxCrash = 0
    MaxTorn = 0
    MaxStop = 0
SPECIFICATION Spec
SYMMETRY NodeSymmetry
INVARIANT OneLeaderPerTerm
CHECK_DEADLOCK FALSE
