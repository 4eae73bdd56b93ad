CONSTANTS
    Node = {n1, n2, n3}
    Command = {c1}
    TermStart = TermStart
    None = None
    UsePreVote = FALSE
    UseCheckQuorum = FALSE
    MaxEntries = 1
    SlowSend = FALSE
    Starts <- NewCluster
    MaxCampaign = 3
    MaxStale = 0
    MaxHeartbeat = 0
    MaxCommand = 0
    MaxCrash = 2
    MaxTorn = 0
    MaxStop = 0
SPECIFICATION Spec
SYMMETRY NodeSymmetry
INVARIANTS OneGrantPerStay OneLeaderUnlessVoteMisused  LogMatching
CHECK_DEADLOCK FALSE
VIEW LiveView
