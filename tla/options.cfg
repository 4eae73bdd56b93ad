CONSTANTS
    Node = {n1, n2, n3}
    Command = {c1}
    TermStart = TermStart
    None = None
    UsePreVote = TRUE
    UseCheckQuorum = TRUE
    MaxEntries = 1
    SlowSend = TRUE
    Starts <- EveryOption
    MaxCampaign = 1
    MaxStale = 1
    MaxHeartbeat = 1
    MaxCommand = 0
    MaxCrash = 1
    MaxTorn = 1
    MaxStop = 1
SPECIFICATION Spec
SYMMETRY NodeSymmetry
INVARIANT TypeOK
CHECK_DEADLOCK FALSE
